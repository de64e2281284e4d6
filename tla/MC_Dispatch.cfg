SPECIFICATION Spec
CONSTANTS
    ANY = ANY
    NULL = NULL
    Table <- CmdTable
    Commands = {"RETR", "NOOP", "RNFR", "RNTO", "STAT", "SITE_HELP", "SITE_CHMOD", "USER", "OPTS", "XXXX"}
    EarlyCommands = {"PASS", "USER", "RETR", "OPTS", "SITE_HELP", "XXXX"}
    XferCommands = {"RETR", "NOOP", "RNFR", "OPTS", "SITE_CHMOD", "XXXX"}
    MaxCommands = 4
INVARIANTS OneReply OwnLines PoolsLive LogsRun RenameEnds LoggedAsAnswered
PROPERTY BackToLoop
CHECK_DEADLOCK FALSE
