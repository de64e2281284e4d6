SPECIFICATION Spec
CONSTANTS
    Pids = {p1, p2}
    MaxInstances = 1
    MaxConnects = 0
    MaxHups = 1
    UseShutmsg = TRUE
    SelectFails = FALSE
    Alarms = TRUE
PROPERTIES RestartEnds ServingTerminates DeadPurged
