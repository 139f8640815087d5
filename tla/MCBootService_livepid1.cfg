CONSTANTS
    MaxIntents = 3
SPECIFICATION Spec
INVARIANTS NoMutationBelowLivePid1
CHECK_DEADLOCK FALSE
