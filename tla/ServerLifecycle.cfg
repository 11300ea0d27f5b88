CONSTANTS
    Servers = {s1}
    Reqs = {r1, r2}
    Ports = {1, 2, 3}
    BusyPorts = {3}
    Ops = {"start", "stop", "restart", "port", "delete"}
    Budget = 3
SPECIFICATION FairSpec
CHECK_DEADLOCK FALSE
INVARIANTS
    TypeOK
    ContainerBacked
    DataKept
    DeleteLeavesNoContainer
    PublishedAfterTuning
    HandedOver
PROPERTIES
    ServersSettle
