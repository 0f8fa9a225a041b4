\* Two runs, overlapping or not, and up to two changes among: the rules
\* edited, another key, a row altered.
CONSTANTS
    None = None
    Runs = {r1, r2}
    Inputs <- MCInputs
    Rules <- MCRules
    Keys = {k1, k2}
    Walk <- MCWalk
    Weigh <- MCWeigh
    Escalation <- MCEscalation
    Rounded <- MCRounded
    MaxClock = 1
    MaxChanges = 2
SYMMETRY MCSymmetry
SPECIFICATION Spec
INVARIANT TypeOK
INVARIANT VerifiedIsUnaltered
INVARIANT VerifiedUnlessReselected
INVARIANT LatestUnlessOvertaken
INVARIANT SummaryAgreesWithTrace
INVARIANT DiagnosticsAgree
PROPERTY CommitIsVisible
CHECK_DEADLOCK FALSE
