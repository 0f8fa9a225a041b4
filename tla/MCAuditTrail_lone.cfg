\* One request whose orders share their best partner; nothing altered.
CONSTANTS
    None = None
    Runs = {r1}
    Inputs <- MCOneInput
    Rules <- MCOneRule
    Keys = {k1}
    Walk <- MCWalk
    Weigh <- MCWeigh
    Escalation <- MCEscalation
    Rounded <- MCRounded
    MaxClock = 1
    MaxChanges = 0
SPECIFICATION Spec
INVARIANT AuthenticIsVerified
CHECK_DEADLOCK FALSE
