CONSTANTS
    Clis = {c1, c2}
    MaxInst = 2
    MaxCmds = 2
    MaxKills = 0
    Ops = {"start", "stop", "restart", "status"}
    AllowFallback = TRUE
    KillInForkWindow = FALSE
    WritesMayFail = FALSE
SPECIFICATION FairSpec
INVARIANTS TypeOK SingleInstance RunningIsRecorded ExitLeavesNothing
PROPERTIES StopTerminates HelperFollowsSupervisor
CHECK_DEADLOCK FALSE
