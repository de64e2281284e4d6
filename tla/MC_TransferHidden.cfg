SPECIFICATION Spec
CONSTANTS
    MaxBlocks = 1
    HiddenStores = {TRUE}
    DeleteAborted = {"on"}
    RootRevoke = {FALSE}
PROPERTY KeepsRealFile
CHECK_DEADLOCK FALSE
