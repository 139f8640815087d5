CONSTANTS
    MaxStarts = 2
    MaxKills = 1
    Interfaces = {"i1", "i2"}
    Devices = {"d1", "d2", "d3"}
    AtBoot = {"d1"}
    Filter = {"d1", "d2"}
    MaxRecords = 1
    MaxPlugs = 2
SPECIFICATION Spec
INVARIANTS TypeOK ReportedIsEnforced AllowedUnlessLeftover NothingLeftBehind TakenIsRecorded
PROPERTIES HotplugIsClaimed
CHECK_DEADLOCK FALSE
