CONSTANTS
    MaxIntents = 3
SPECIFICATION Spec
INVARIANTS DockerFlagMeansWork
CHECK_DEADLOCK FALSE
