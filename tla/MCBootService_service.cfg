CONSTANTS
    MaxIntents = 3
SPECIFICATION FairSpec
INVARIANTS TypeOK FlagsMeanWork LifecycleFlagIsLatest StopHolds
PROPERTIES StopRuns
CHECK_DEADLOCK FALSE
