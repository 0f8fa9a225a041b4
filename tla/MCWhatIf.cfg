\* Decisions of one request, and what would have been.  One is 60 so that
\* thirds, fifths and sixths are exact; the snapshot keeps even positions.
CONSTANTS
    None = None
    One = 60
    Tolerance = 2
    Fine = 2
    Configs <- MCConfigs
    Inputs <- MCInputs
    Specs <- MCSpecs
SPECIFICATION Spec
INVARIANT TypeOK
INVARIANT EmptySpecReportsReservations
INVARIANT ReloadKeepsConfig
INVARIANT SomeRatingPasses
INVARIANT InertMutationsAreInert
INVARIANT BystanderRemovalChangesNothing
INVARIANT UnallocatedMeansNobodyPassed
INVARIANT RestrictedStayOffTheRoad
INVARIANT GiniIsMeanDifference
INVARIANT EscalationFavoursFairness
CHECK_DEADLOCK FALSE
