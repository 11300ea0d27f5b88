CONSTANTS
    Servers = {s1}
    Reqs = {r1}
    Ports = {1}
    BusyPorts = {}
    Ops = {"delete"}
    Budget = 2
SPECIFICATION Spec
INVARIANT
    NoOrphanContainer
CHECK_DEADLOCK FALSE
