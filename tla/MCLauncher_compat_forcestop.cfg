CONSTANTS
    Clis = {c1, c2}
    MaxInst = 1
    MaxCmds = 2
    MaxKills = 0
    Ops = {"start", "force-stop"}
    AllowFallback = TRUE
    KillInForkWindow = FALSE
    WritesMayFail = FALSE
SPECIFICATION Spec
SYMMETRY MCSymmetry
INVARIANTS ForceStopIsComplete
CHECK_DEADLOCK FALSE
