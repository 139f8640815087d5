CONSTANTS
    MaxStarts = 2
    MaxKills = 1
    Interfaces = {"i1"}
    Devices = {"d1"}
    AtBoot = {"d1"}
    Filter = {"d1"}
    MaxRecords = 1
    MaxPlugs = 0
SPECIFICATION Spec
INVARIANTS PassthroughIsAllowed
CHECK_DEADLOCK FALSE
