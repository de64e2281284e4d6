SPECIFICATION Spec
CONSTANTS
    s1 = s1
    s2 = s2
    alice = alice
    bob = bob
    f1 = f1
    f2 = f2
    Sessions = {s1, s2}
    Users = {alice, bob}
    Files = {f1, f2}
    Logins <- AliceComes
    BytesAvail = 2
    FilesAvail = 2
    Configs <- Locked
    FirstTables <- Tables
    FirstFiles <- Disk
    MaxSize = 2
    MaxCommands = 2
    MaxRecords = 4
INVARIANTS TallyExact IdleClean HardLimitHolds
SYMMETRY Symmetry
CHECK_DEADLOCK FALSE
