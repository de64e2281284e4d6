SPECIFICATION Spec
CONSTANTS
    Pids = {p1, p2, p3}
    MaxInstances = 2
    MaxConnects = 2
    MaxHups = 1
    UseShutmsg = FALSE
    SelectFails = TRUE
    Alarms = FALSE
INVARIANTS NoEarlyRebind CountExact NoOrphans
SYMMETRY Symmetry
