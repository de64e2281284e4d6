SPECIFICATION Spec
CONSTANTS
    Pids = {p1, p2}
    Master = m
    Hosts = {h1, h2}
    Here = h1
    Users = {u1}
    LongUsers = {}
    NULL = NULL
    Standalone = TRUE
    Confs <- AllConfs
INVARIANTS OwnSlot NoLeftovers WithinLimits
PROPERTY StaleScrubbed
CHECK_DEADLOCK FALSE
