SPECIFICATION Spec
CONSTANTS
    MaxBlocks = 2
    HiddenStores = {TRUE, FALSE}
    DeleteAborted = {"unset", "on", "off"}
    RootRevoke = {TRUE, FALSE}
INVARIANTS SafeAbort HiddenGone
PROPERTIES Promise CleanLoop TransferEnds
CHECK_DEADLOCK FALSE
