CONSTANTS
    MaxTimers = 2
    Seconds = {2}
    Ids = {1}
    Modules = {m1}
    NoModule = NoModule
    AlarmCap = 1
    MaxLag = 2
    MaxBlock = 0
    SlowCode = {"run", "callback", "sleep_check", "suspend"}
    PallocPrev = {"null"}
SPECIFICATION FairSpec
PROPERTIES SleepReturns TimerRuns
