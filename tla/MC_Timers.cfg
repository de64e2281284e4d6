CONSTANTS
    MaxTimers = 3
    Seconds = {1, 2}
    Ids = {1}
    Modules = {m1}
    NoModule = NoModule
    AlarmCap = 2
    MaxLag = 2
    MaxBlock = 1
    SlowCode = {"run", "finish", "suspend"}
    PallocPrev = {"null", "junk"}
SPECIFICATION Spec
INVARIANTS OneList PassOnTrack PassExcluded AlarmSet
PROPERTY RemovedNeverRuns
VIEW LiveState
\* A process that follows a junk pointer has no next step.
CHECK_DEADLOCK FALSE
