CONSTANTS
    Clis = {c1, c2}
    MaxInst = 2
    MaxCmds = 3
    MaxKills = 1
    Ops = {"start", "stop", "force-stop"}
    AllowFallback = FALSE
    KillInForkWindow = FALSE
    WritesMayFail = TRUE
SPECIFICATION Spec
SYMMETRY MCSymmetry
INVARIANTS SingleInstance StoppedMeansDown TermIsHandled FifoLostOnlyAfterFailure ForceStopIsComplete ExitLeavesNothing
CHECK_DEADLOCK FALSE
