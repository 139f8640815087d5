CONSTANTS
    MaxStarts = 1
    MaxKills = 0
    Interfaces = {"i1"}
    Devices = {"d1"}
    AtBoot = {"d1"}
    Filter = {"d1"}
    MaxRecords = 1
    MaxPlugs = 0
SPECIFICATION Spec
INVARIANTS RebindsEach
CHECK_DEADLOCK FALSE
