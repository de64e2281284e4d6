------------------------------- MODULE Quota --------------------------------
(***************************************************************************)
(* The quotas of contrib/mod_quotatab.c, with tallies that are kept in a   *)
(* file (contrib/mod_quotatab_file.c) and shared by the sessions of a user.*)
(*                                                                         *)
(* Each session is a process.  It looks for its record at login, creates   *)
(* it if there is none, and from then on reads and writes the record at    *)
(* the position where the lookup left the table's descriptor; the locks    *)
(* are fcntl locks on the record at that position.  An attempt to lock is  *)
(* repeated up to QUOTA_MAX_LOCK_ATTEMPTS times and then given up, and     *)
(* every caller goes on without the lock.                                  *)
(*                                                                         *)
(* The limits are those on uploaded bytes and on uploaded files, which are *)
(* counted in bytes_in_used and files_in_used: b and f here.  The commands *)
(* are STOR and DELE.                                                      *)
(***************************************************************************)
EXTENDS Integers, Sequences, FiniteSets

CONSTANTS
    Sessions,
    Users,
    Logins,      \* the users that the sessions may log in as
    Files,       \* the files on disk
    BytesAvail,  \* sess_limit.bytes_in_avail of every user
    FilesAvail,  \* sess_limit.files_in_avail
    Configs,     \* the configurations: the limits are hard, QuotaLock is
                 \* set, DeleteAbortedStores is on
    FirstTables, \* the contents of the tally table to begin with
    FirstFiles,  \* and the files on disk, with their sizes and owners
    MaxSize,     \* bound: bytes in a file
    MaxCommands, \* bound: commands of all sessions together
    MaxRecords   \* bound: records in the table

Absent == -1

ASSUME QuotaAssumption ==
    /\ Logins \subseteq [Sessions -> Users]
    /\ Files # {}
    /\ {BytesAvail, FilesAvail, MaxSize} \subseteq Nat \ {0}
    /\ {MaxCommands, MaxRecords} \subseteq Nat
    /\ Configs \subseteq [hard : BOOLEAN, lock : BOOLEAN, delete : BOOLEAN]
    /\ FirstTables \subseteq
          {t \in Seq([user : Users, b : Nat, f : Nat]) : Len(t) <= MaxRecords}
    /\ FirstFiles \subseteq
          [Files -> [size : Nat \cup {Absent}, owner : Users]]

VARIABLES
    conf,   \* [hard, lock, delete]: the configuration, and who logs in: [user]
    table,  \* the records of the QuotaTallyTable
    locks,  \* the fcntl locks on its records
    mutex,  \* the sessions (none or one) that hold the lock on QuotaLock
    disk,   \* the size and the owner of each file
    ss,     \* the state of each session, see Session
    left,   \* bound: commands that may still be given
    due,    \* history: what each user's tally should be
    odd     \* history: events that the properties have to know of

vars == <<conf, table, locks, mutex, disk, ss, left, due, odd>>

UserOf == conf.user

Record == [user : Users, b : Nat, f : Nat]
Increment == [b : Int, f : {-1, 0, 1}]
Zero(u) == [user |-> u, b |-> 0, f |-> 0]

Places ==
    {"new", "lookup", "create", "append", "appended", "release", "idle",
     "off", "rlock", "read", "check", "open", "move", "post", "err", "wlock",
     "wwrite", "judge", "judge_err", "unlink", "post_dele",
     "dele_mutex", "dele_lookup", "ending", "gone"}

Session ==
    [pc : Places,
     pos : Nat,          \* the record at the table's file position
     tally : Record,     \* sess_tally
     rc : Nat, wc : Nat, \* rlock_count and wlock_count of the table
     upd : BOOLEAN,      \* have_quota_update is QUOTA_HAVE_WRITE_UPDATE
     quits : BOOLEAN,    \* the command is ended by the end of the session
     file : Files,       \* the argument of the command
     nb : Nat,           \* quotatab_disk_nbytes
     total : Nat,        \* session.xfer.total_bytes
     fd : BOOLEAN,       \* the file being written is still the one named
     owner : Users,      \* the owner of the file to be deleted
     st : BOOLEAN,       \* quotatab_have_dele_st
     inc : Increment,    \* store_bytes, and the increment to be written
     dele : BOOLEAN,     \* the tally to be written is dele_tally
     dtally : Record,    \* dele_tally
     then : Places]      \* where the caller of quotatab_write goes on

Fresh(s) ==
    [pc |-> "new", pos |-> 1, tally |-> Zero(UserOf[s]), rc |-> 0, wc |-> 0,
     upd |-> FALSE, quits |-> FALSE,
     file |-> CHOOSE f \in Files : TRUE, nb |-> 0,
     total |-> 0, fd |-> FALSE, owner |-> UserOf[s], st |-> FALSE,
     inc |-> [b |-> 0, f |-> 0], dele |-> FALSE,
     dtally |-> Zero(UserOf[s]), then |-> "idle"]

(* Waiting for the next command: what the last one left in the variables   *)
(* of the module is set again before it is used, except have_quota_update. *)
(* A session that is ending has no next command.                           *)
Idle(s, x) ==
    [Fresh(s) EXCEPT !.pc = IF x.quits THEN "ending" ELSE "idle",
                     !.pos = x.pos, !.tally = x.tally,
                     !.rc = x.rc, !.wc = x.wc, !.upd = x.upd]

Recorded(u) ==
    {i \in 1..Len(table) : table[i].user = u}
FirstRecord(u) ==
    CHOOSE i \in Recorded(u) : \A j \in Recorded(u) : i <= j

Init ==
    /\ conf \in {[hard |-> c.hard, lock |-> c.lock, delete |-> c.delete,
                  user |-> u] : c \in Configs, u \in Logins}
    /\ table \in FirstTables
    /\ disk \in FirstFiles
    /\ locks = {}
    /\ mutex = {}
    /\ ss = [s \in Sessions |-> Fresh(s)]
    /\ left = MaxCommands
    /\ due = [u \in Users |->
                IF Recorded(u) = {} THEN Zero(u) ELSE table[FirstRecord(u)]]
    /\ odd = {}

-----------------------------------------------------------------------------
(* Locks.  fcntl(F_SETLK) on a record replaces the lock that the process   *)
(* holds on it, and fails if another process holds one that conflicts.     *)

SetLock(s, i, mode) ==
    {l \in locks : l.by # s \/ l.at # i} \cup [by : {s}, at : {i}, mode : mode]

Conflict(s, mode) ==
    \E l \in locks : /\ l.by # s /\ l.at = ss[s].pos
                     /\ "w" \in {mode, l.mode}

(* The four operations count what is locked, and ask for a lock, or give   *)
(* it back, only for the first and the last: a tally that is read while it *)
(* is locked for writing stays locked.  Each is given the session as it is *)
(* without the lock, and as it goes on.                                    *)
quotatab_rlock(s, x) ==
    /\ locks' = IF ss[s].rc = 0 /\ ss[s].wc = 0
                THEN SetLock(s, ss[s].pos, {"r"}) ELSE locks
    /\ ss' = [ss EXCEPT ![s] = [x EXCEPT !.rc = @ + 1]]

\* Mutant: the lock is given back although it is held for writing too.
RunlockAlways(s, x) ==
    /\ locks' = IF ss[s].rc = 1 THEN SetLock(s, ss[s].pos, {}) ELSE locks
    /\ ss' = [ss EXCEPT ![s] = [x EXCEPT !.rc = IF @ > 0 THEN @ - 1 ELSE @]]

quotatab_runlock(s, x) ==
    /\ locks' = IF ss[s].rc = 1 /\ ss[s].wc = 0
                THEN SetLock(s, ss[s].pos, {}) ELSE locks
    /\ ss' = [ss EXCEPT ![s] = [x EXCEPT !.rc = IF @ > 0 THEN @ - 1 ELSE @]]

quotatab_wlock(s, x) ==
    /\ locks' = IF ss[s].wc = 0
                THEN SetLock(s, ss[s].pos, {"w"}) ELSE locks
    /\ ss' = [ss EXCEPT ![s] = [x EXCEPT !.wc = @ + 1]]

quotatab_wunlock(s, x) ==
    /\ locks' = IF ss[s].wc = 1
                THEN SetLock(s, ss[s].pos, IF ss[s].rc = 0 THEN {} ELSE {"r"})
                ELSE locks
    /\ ss' = [ss EXCEPT ![s] = [x EXCEPT !.wc = IF @ > 0 THEN @ - 1 ELSE @]]

(* A lock is asked for when none is held, and the attempt fails.           *)
CannotRead(s) == ss[s].rc = 0 /\ ss[s].wc = 0 /\ Conflict(s, "r")
CannotWrite(s) == ss[s].wc = 0 /\ Conflict(s, "w")

(* quotatab_mutex_lock: the lock on QuotaLock, if there is one.  When the  *)
(* attempts are used up the callers go on.                                 *)
quotatab_mutex_lock(s) ==
    mutex' = IF conf.lock /\ mutex \subseteq {s} THEN {s} ELSE mutex

At(s, place) == ss[s].pc = place
Goes(s, x) == ss' = [ss EXCEPT ![s] = x]
To(s, place) == [ss[s] EXCEPT !.pc = place]
Settled(s) == [ss[s] EXCEPT !.upd = FALSE]

(* quotatab_lookup, as filetab_lookup carries it out: the descriptor stays *)
(* at the record that is found, or at the end of the table.                *)
Found(u) == Recorded(u) # {}
Lookup(u) == IF Found(u) THEN FirstRecord(u) ELSE Len(table) + 1

-----------------------------------------------------------------------------
(* PASS: the record of the user is found, or is created, under QuotaLock.  *)

LoginLock(s) ==
    /\ At(s, "new")
    /\ quotatab_mutex_lock(s)
    /\ Goes(s, To(s, "lookup"))
    /\ odd' = IF mutex' = {s} THEN odd ELSE odd \cup {"unserialised"}
    /\ UNCHANGED <<conf, left, table, locks, disk, due>>

LoginLookup(s) ==
    LET u == UserOf[s] IN
    /\ At(s, "lookup")
    /\ Goes(s, [ss[s] EXCEPT
                  !.pc = IF Found(u) THEN "release" ELSE "create",
                  !.pos = Lookup(u),
                  !.tally = IF Found(u) THEN table[Lookup(u)] ELSE Zero(u)])
    /\ UNCHANGED <<conf, left, table, locks, mutex, disk, due, odd>>

(* quotatab_create: the record is locked where the lookup ended.  Without  *)
(* a record the session goes on with QuotaEngine off.                      *)
CreateLock(s) ==
    /\ At(s, "create")
    /\ ~CannotWrite(s)
    /\ quotatab_wlock(s, To(s, "append"))
    /\ UNCHANGED <<conf, left, table, mutex, disk, due, odd>>

CreateFails(s) ==
    /\ At(s, "create")
    /\ CannotWrite(s)
    /\ Goes(s, To(s, "off"))
    /\ mutex' = mutex \ {s}
    /\ UNCHANGED <<conf, left, table, locks, disk, due, odd>>

(* filetab_create writes at the end of the table and stays there.          *)
filetab_create(s) ==
    /\ At(s, "append")
    /\ Len(table) < MaxRecords
    /\ table' = Append(table, ss[s].tally)
    /\ Goes(s, [To(s, "appended") EXCEPT !.pos = Len(table) + 1])
    /\ UNCHANGED <<conf, left, locks, mutex, disk, due, odd>>

CreateUnlock(s) ==
    /\ At(s, "appended")
    /\ quotatab_wunlock(s, To(s, "release"))
    /\ UNCHANGED <<conf, left, table, mutex, disk, due, odd>>

LoginDone(s) ==
    /\ At(s, "release")
    /\ mutex' = mutex \ {s}
    /\ Goes(s, Idle(s, ss[s]))
    /\ UNCHANGED <<conf, left, table, locks, disk, due, odd>>

-----------------------------------------------------------------------------
(* quotatab_read, QUOTATAB_TALLY_READ: the tally of the session is read    *)
(* from the record at the table's position.  A tally that cannot be locked *)
(* or read stays as it was.  It is called before an upload, and again from *)
(* quotatab_write when the record is locked for writing.                   *)

Back(s) == IF ss[s].wc > 0 THEN "wwrite" ELSE "check"

ReadLock(s) ==
    /\ At(s, "rlock")
    /\ ~CannotRead(s)
    /\ quotatab_rlock(s, To(s, "read"))
    /\ UNCHANGED <<conf, left, table, mutex, disk, due, odd>>

ReadGivesUp(s) ==
    /\ At(s, "rlock")
    /\ CannotRead(s)
    /\ Goes(s, To(s, Back(s)))
    /\ UNCHANGED <<conf, left, table, locks, mutex, disk, due, odd>>

filetab_read(s) ==
    IF ss[s].pos <= Len(table) THEN table[ss[s].pos] ELSE ss[s].tally

quotatab_read(s) ==
    /\ At(s, "read")
    /\ quotatab_runlock(s, [To(s, Back(s)) EXCEPT !.tally = filetab_read(s)])
    /\ UNCHANGED <<conf, left, table, mutex, disk, due, odd>>

(* quotatab_write, QUOTATAB_TALLY_WRITE: the record is locked, read again, *)
(* changed and written.  The flag have_quota_update is cleared at the end, *)
(* also when nothing could be written.                                     *)

Writes(s, b, f, place) ==
    [ss[s] EXCEPT !.pc = "wlock", !.inc = [b |-> b, f |-> f], !.then = place]

(* Bytes below zero become zero, and no file is taken from none.           *)
Bumped(r, inc) ==
    [r EXCEPT !.b = IF @ + inc.b < 0 THEN 0 ELSE @ + inc.b,
              !.f = IF @ = 0 /\ inc.f < 0 THEN @ ELSE @ + inc.f]

WriteLock(s) ==
    /\ At(s, "wlock")
    /\ ~CannotWrite(s)
    /\ quotatab_wlock(s, To(s, "rlock"))
    /\ UNCHANGED <<conf, left, table, mutex, disk, due, odd>>

\* Mutant: have_quota_update is not cleared.
WrittenKeepsFlag(s, x) ==
    LET y == [x EXCEPT !.pc = ss[s].then]
    IN  IF ss[s].then = "idle" THEN Idle(s, y) ELSE y

Written(s, x) ==
    LET y == [x EXCEPT !.pc = ss[s].then, !.upd = FALSE]
    IN  IF ss[s].then = "idle" THEN Idle(s, y) ELSE y

WriteGivesUp(s) ==
    /\ At(s, "wlock")
    /\ CannotWrite(s)
    /\ Goes(s, Written(s, ss[s]))
    /\ odd' = odd \cup {"lost"}
    /\ UNCHANGED <<conf, left, table, locks, mutex, disk, due>>

(* filetab_write overwrites the record at the table's position, which may  *)
(* be its end.                                                             *)
filetab_write(s, r) ==
    IF ss[s].pos <= Len(table) THEN [table EXCEPT ![ss[s].pos] = r]
    ELSE Append(table, r)

(* It is sess_tally that is changed, and the tally given by the caller     *)
(* that is written: they differ in post_dele.                              *)
quotatab_write(s) ==
    LET tally == Bumped(ss[s].tally, ss[s].inc)
        u == IF ss[s].dele THEN ss[s].owner ELSE UserOf[s]
    IN  /\ At(s, "wwrite")
        /\ ss[s].pos <= MaxRecords
        /\ table' =
             filetab_write(s, IF ss[s].dele THEN ss[s].dtally ELSE tally)
        /\ quotatab_wunlock(s, Written(s, [ss[s] EXCEPT !.tally = tally]))
        /\ due' = [due EXCEPT ![u] = Bumped(@, ss[s].inc)]
        /\ UNCHANGED <<conf, left, mutex, disk, odd>>

-----------------------------------------------------------------------------
(* STOR *)

Exists(f) == disk[f].size # Absent
Size(f) == IF Exists(f) THEN disk[f].size ELSE 0

(* Others that have a file open keep writing to it when its name is gone.  *)
Unlinked(f, x) ==
    [t \in Sessions |->
        [x[t] EXCEPT !.fd = @ /\ x[t].file # f]]
Gone(f) == [disk EXCEPT ![f].size = Absent]

Stor(s) ==
    /\ At(s, "idle")
    /\ left > 0
    /\ left' = left - 1
    /\ \E f \in Files :
          Goes(s, [To(s, "rlock") EXCEPT !.file = f])
    /\ UNCHANGED <<conf, table, locks, mutex, disk, due, odd>>

(* quotatab_pre_stor, once the tally is refreshed: the command is denied,  *)
(* or the size of the file is kept for later.  A denied command goes to    *)
(* the POST_CMD_ERR handlers.                                              *)
Reached(r) == r.b >= BytesAvail \/ r.f >= FilesAvail

quotatab_pre_stor(s) ==
    /\ At(s, "check")
    /\ Goes(s, IF Reached(ss[s].tally) THEN To(s, "err")
               ELSE [To(s, "open") EXCEPT !.nb = Size(ss[s].file),
                                          !.upd = TRUE])
    /\ UNCHANGED <<conf, left, table, locks, mutex, disk, due, odd>>

(* mod_xfer opens and empties the file, or is refused.                     *)
StorOpens(s) ==
    LET f == ss[s].file IN
    /\ At(s, "open")
    /\ \/ /\ Goes(s, [To(s, "move") EXCEPT !.fd = TRUE])
          /\ disk' = [disk EXCEPT ![f] =
                        [size |-> 0, owner |-> IF Exists(f) THEN @.owner
                                               ELSE UserOf[s]]]
       \/ Goes(s, To(s, "err")) /\ UNCHANGED disk
    /\ UNCHANGED <<conf, left, table, locks, mutex, due, odd>>

(* stor_abort of mod_xfer, where x is the session as it goes on and d the  *)
(* files until then: with DeleteAbortedStores on the file is removed.      *)
stor_abort(s, x, d) ==
    LET f == ss[s].file
        y == [ss EXCEPT ![s] = x]
    IN  /\ disk' = IF conf.delete THEN [d EXCEPT ![f].size = Absent] ELSE d
        /\ ss' = IF conf.delete THEN Unlinked(f, y) ELSE y

(* quotatab_fsio_write: with a hard limit a write that exceeds it fails,   *)
(* by the tally as it was when the command began, after the data has been  *)
(* written.                                                                *)
quotatab_fsio_write(s) ==
    LET f == ss[s].file
        n == ss[s].total + 1
        x == [ss[s] EXCEPT !.total = n]
        grown == IF ss[s].fd /\ disk[f].size < n
                 THEN [disk EXCEPT ![f].size = n] ELSE disk
    IN  /\ At(s, "move")
        /\ n <= MaxSize
        /\ IF conf.hard /\ ss[s].upd /\ ss[s].tally.b + n > BytesAvail
           THEN stor_abort(s, [x EXCEPT !.pc = "err"], grown)
           ELSE Goes(s, x) /\ disk' = grown
        /\ UNCHANGED <<conf, left, table, locks, mutex, due, odd>>

(* The data connection is not made, or ends with an error; or all data is  *)
(* there, and the file is closed, with or without an error.                *)
StorEnds(s) ==
    /\ At(s, "move")
    /\ \/ stor_abort(s, To(s, "err"), disk)
       \/ \E place \in {"post", "err"} : Goes(s, To(s, place)) /\ UNCHANGED disk
    /\ UNCHANGED <<conf, left, table, locks, mutex, due, odd>>

(* An ABOR with DeleteAbortedStores on: mod_xfer removes the file, and the *)
(* handlers of this module leave the tally alone.                          *)
StorAborted(s) ==
    /\ At(s, "move")
    /\ conf.delete
    /\ stor_abort(s, Idle(s, Settled(s)), disk)
    /\ UNCHANGED <<conf, left, table, locks, mutex, due, odd>>

(* The difference in the size of the file, or 0 if it is not there.        *)
Growth(s) == IF Exists(ss[s].file) THEN disk[ss[s].file].size - ss[s].nb ELSE 0

quotatab_post_stor(s) ==
    /\ At(s, "post")
    /\ Goes(s, Writes(s, Growth(s), IF ss[s].nb # 0 THEN 0 ELSE 1, "judge"))
    /\ UNCHANGED <<conf, left, table, locks, mutex, disk, due, odd>>

quotatab_post_stor_err(s) ==
    /\ At(s, "err")
    /\ Goes(s, IF ss[s].total > 0 THEN Writes(s, Growth(s), 0, "judge_err")
               ELSE To(s, "judge_err"))
    /\ UNCHANGED <<conf, left, table, locks, mutex, disk, due, odd>>

\* Mutant: one byte too many is let pass.
ExceededLate(r) == r.b > BytesAvail + 1

Exceeded(r) == r.b > BytesAvail

(* What both do when the tally has been written: a hard limit that is      *)
(* exceeded removes the file, and the tally is written again.  After an    *)
(* error the tally is written again whatever the limit, and no file is     *)
(* taken off it; otherwise only if the file could be removed.              *)
Judge(s) ==
    LET f == ss[s].file
        over == Exceeded(ss[s].tally)
        removes == over /\ conf.hard /\ Exists(f)
        undoes == IF At(s, "judge") THEN removes ELSE over
    IN  /\ ss[s].pc \in {"judge", "judge_err"}
        /\ disk' = IF removes THEN Gone(f) ELSE disk
        /\ LET x == [ss EXCEPT ![s] =
                        IF undoes
                        THEN Writes(s, -ss[s].inc.b,
                                    IF At(s, "judge") THEN -1 ELSE 0, "idle")
                        ELSE Idle(s, Settled(s))]
           IN  ss' = IF removes THEN Unlinked(f, x) ELSE x
        /\ odd' = odd \cup
                   {e \in {"refund"} : undoes /\ ss[s].inc.b < 0} \cup
                   {e \in {"kept"} : over /\ conf.hard /\ ~undoes}
        /\ UNCHANGED <<conf, left, table, locks, mutex, due>>

-----------------------------------------------------------------------------
(* DELE: the size and the owner of the file are looked at before it is     *)
(* deleted, and the bytes are taken off the tally of its owner.            *)

quotatab_pre_dele(s) ==
    /\ At(s, "idle")
    /\ left > 0
    /\ left' = left - 1
    /\ \E f \in Files :
          Goes(s, [ss[s] EXCEPT !.pc = "unlink", !.file = f,
                                !.st = Exists(f), !.nb = Size(f),
                                !.owner = disk[f].owner,
                                !.upd = @ \/ Exists(f)])
    /\ UNCHANGED <<conf, table, locks, mutex, disk, due, odd>>

(* core_dele; when it fails, quotatab_post_dele_err clears the flag.       *)
Dele(s) ==
    LET f == ss[s].file IN
    /\ At(s, "unlink")
    /\ \/ /\ Exists(f)
          /\ disk' = Gone(f)
          /\ ss' = Unlinked(f, [ss EXCEPT ![s].pc = "post_dele"])
       \/ /\ Goes(s, Idle(s, Settled(s)))
          /\ UNCHANGED disk
    /\ UNCHANGED <<conf, left, table, locks, mutex, due, odd>>

Credits(s) == Writes(s, -ss[s].nb, -1, "idle")

quotatab_post_dele(s) ==
    /\ At(s, "post_dele")
    /\ Goes(s, IF ~ss[s].st THEN Idle(s, ss[s])
               ELSE IF ss[s].owner = UserOf[s] THEN Credits(s)
               ELSE To(s, "dele_mutex"))
    /\ UNCHANGED <<conf, left, table, locks, mutex, disk, due, odd>>

DeleMutex(s) ==
    /\ At(s, "dele_mutex")
    /\ quotatab_mutex_lock(s)
    /\ Goes(s, To(s, "dele_lookup"))
    /\ UNCHANGED <<conf, left, table, locks, disk, due, odd>>

(* The lookup moves the descriptor to the record of the owner, or to the   *)
(* end of the table, and nothing moves it back.                            *)
DeleLookup(s) ==
    LET u == ss[s].owner IN
    /\ At(s, "dele_lookup")
    /\ Goes(s, [Credits(s) EXCEPT
                  !.pos = Lookup(u),
                  !.dele = Found(u),
                  !.dtally = IF Found(u) THEN table[Lookup(u)] ELSE @])
    /\ mutex' = mutex \ {s}
    /\ odd' = odd \cup {"strayed"} \cup {e \in {"unfound"} : ~Found(u)}
    /\ UNCHANGED <<conf, left, table, locks, disk, due>>

-----------------------------------------------------------------------------
(* The end of a session.  It may end between commands, while data is       *)
(* moved, and whenever signals are handled because a lock is not to be had.*)

(* While data is moved, xfer_exit_ev comes before quotatab_exit_ev: it     *)
(* aborts the upload and has the POST_CMD_ERR handlers called, after which *)
(* there is no update left.                                                *)
xfer_exit_ev(s) ==
    /\ At(s, "move")
    /\ stor_abort(s, [To(s, "err") EXCEPT !.quits = TRUE], disk)
    /\ UNCHANGED <<conf, left, table, locks, mutex, due, odd>>

(* Elsewhere there is no transfer, also when the file is open and the data *)
(* connection is not: quotatab_exit_ev writes what has not been written.   *)
Interruptible(s) ==
    /\ ~ss[s].quits
    /\ \/ At(s, "idle")
       \/ At(s, "move") /\ ss[s].total = 0
       \/ At(s, "wlock") /\ ss[s].then # "ending" /\ CannotWrite(s)
       \/ At(s, "rlock") /\ CannotRead(s)
       \/ At(s, "create") /\ CannotWrite(s)
       \/ ss[s].pc \in {"new", "dele_mutex"} /\ conf.lock /\ ~(mutex \subseteq {s})

quotatab_exit_ev(s) ==
    LET x == IF ss[s].upd
             THEN [Writes(s, ss[s].total, 1, "ending")
                     EXCEPT !.upd = FALSE, !.dele = FALSE]
             ELSE To(s, "ending")
    IN  /\ Interruptible(s)
        /\ IF At(s, "move") THEN stor_abort(s, x, disk)
           ELSE Goes(s, x) /\ UNCHANGED disk
        /\ odd' = IF ss[s].upd \/ At(s, "wlock") THEN odd \cup {"exit"} ELSE odd
        /\ UNCHANGED <<conf, left, table, locks, mutex, due>>

(* The locks of a process go with it.  A process may also be killed.       *)
Ended(s) ==
    /\ Goes(s, [Fresh(s) EXCEPT !.pc = "gone"])
    /\ locks' = {l \in locks : l.by # s}
    /\ mutex' = mutex \ {s}
    /\ UNCHANGED <<conf, left, table, disk, due>>

Ends(s) == At(s, "ending") /\ Ended(s) /\ UNCHANGED odd

Killed(s) ==
    /\ ss[s].pc \notin {"new", "idle", "off", "ending", "gone"}
    /\ Ended(s)
    /\ odd' = odd \cup {"exit"}

Next ==
    \E s \in Sessions :
        \/ LoginLock(s) \/ LoginLookup(s) \/ LoginDone(s)
        \/ CreateLock(s) \/ CreateFails(s) \/ filetab_create(s)
        \/ CreateUnlock(s)
        \/ ReadLock(s) \/ ReadGivesUp(s) \/ quotatab_read(s)
        \/ WriteLock(s) \/ WriteGivesUp(s) \/ quotatab_write(s)
        \/ Stor(s) \/ quotatab_pre_stor(s) \/ StorOpens(s)
        \/ quotatab_fsio_write(s) \/ StorEnds(s) \/ StorAborted(s)
        \/ quotatab_post_stor(s) \/ quotatab_post_stor_err(s)
        \/ Judge(s)
        \/ quotatab_pre_dele(s) \/ Dele(s) \/ quotatab_post_dele(s)
        \/ DeleMutex(s) \/ DeleLookup(s)
        \/ xfer_exit_ev(s) \/ quotatab_exit_ev(s) \/ Ends(s) \/ Killed(s)

Spec == Init /\ [][Next]_vars

-----------------------------------------------------------------------------
(* Properties *)

(* The type invariant: the counts that quotatab_write and the lock         *)
(* counters keep never go below zero.                                      *)
TypeOK ==
    /\ conf \in [hard : BOOLEAN, lock : BOOLEAN, delete : BOOLEAN,
                 user : [Sessions -> Users]]
    /\ table \in Seq(Record) /\ Len(table) <= MaxRecords
    /\ locks \subseteq
          [by : Sessions, at : 1..MaxRecords + 1, mode : {"r", "w"}]
    /\ mutex \subseteq Sessions
    /\ disk \in [Files -> [size : Nat \cup {Absent}, owner : Users]]
    /\ ss \in [Sessions -> Session]
    /\ left \in Nat
    /\ due \in [Users -> Record]

(* No update of a tally is lost and none is made twice: each user has one  *)
(* record at most, with the sum of what the user's sessions have written,  *)
(* as long as every login held QuotaLock and no session has credited the   *)
(* owner of a file that it deleted.                                        *)
TallyExact ==
    odd \cap {"unserialised", "strayed"} = {} =>
        \A u \in Users :
            /\ Cardinality(Recorded(u)) <= 1
            /\ \A i \in Recorded(u) : table[i] = due[u]

(* A session between two commands holds no lock on a record, by the file   *)
(* and by its own counts, nor QuotaLock, and has no update left that its   *)
(* end would write once more; the exclusive lock is held whenever a record *)
(* is about to be written.  This is so unless a login went on without      *)
(* QuotaLock, or a session has credited an owner who has no record: then   *)
(* the table may grow between the lookup of a session and its lock, and    *)
(* the lock is not where quotatab_wunlock looks for it.                    *)
Serial == odd \cap {"unserialised", "unfound"} = {}

IdleClean ==
    Serial =>
        \A s \in Sessions :
            /\ ss[s].pc \in {"new", "idle", "gone"} =>
                  /\ \A l \in locks : l.by # s
                  /\ ss[s].rc = 0 /\ ss[s].wc = 0
                  /\ s \notin mutex
                  /\ ~ss[s].upd
            /\ At(s, "wwrite") =>
                  [by |-> s, at |-> ss[s].pos, mode |-> "w"] \in locks

(* A hard limit holds: once every session has finished its commands, the   *)
(* tally is within it, however their uploads overlapped.  This is so as    *)
(* long as the locks were obtained, no session ended on an update, and     *)
(* every upload beyond the limit could be removed and had made its file    *)
(* larger.                                                                 *)
HardLimitHolds ==
    (/\ conf.hard /\ odd = {}
     /\ \A s \in Sessions : ss[s].pc \in {"new", "idle", "gone"})
    => \A i \in 1..Len(table) : table[i].b <= BytesAvail

-----------------------------------------------------------------------------
(***************************************************************************)
(* The inductive invariant behind IdleClean.                               *)
(***************************************************************************)

(* What is counted as locked, and which updates are left, follows from     *)
(* where a session is: the record is locked for writing from quotatab_wlock*)
(* on and, inside that, for reading.                                       *)
Counts ==
    \A s \in Sessions :
        LET x == ss[s] IN
        /\ x.rc = IF x.pc = "read" THEN 1 ELSE 0
        /\ x.wc \in {0, 1}
        /\ x.pc \in {"append", "appended", "wwrite"} => x.wc = 1
        /\ x.wc = 1 => x.pc \in {"append", "appended", "wwrite", "rlock", "read"}
        /\ x.then \in {"idle", "judge", "judge_err", "ending"}

Flags ==
    \A s \in Sessions :
        LET x == ss[s] IN
        /\ x.upd => \/ x.pc \in {"open", "move", "post", "err", "judge_err",
                                 "unlink", "post_dele", "dele_mutex",
                                 "dele_lookup", "wlock"}
                    \/ x.wc = 1 /\ x.pc \in {"rlock", "read", "wwrite"}
        /\ x.pc \in {"unlink", "post_dele"} /\ x.upd => x.st

(* Locks on a record are shared or are one.                                *)
LocksAgree ==
    \A l, m \in locks :
        l.at = m.at /\ l # m => l.by # m.by /\ l.mode = "r" /\ m.mode = "r"

(* QuotaLock is held by one session, from the lookup on.                   *)
LoggingIn == {"lookup", "create", "append", "appended", "release"}

MutexHeld ==
    /\ \A s \in mutex : mutex = {s}
    /\ \A s \in mutex : ss[s].pc \in LoggingIn \cup {"dele_lookup", "ending"}
    /\ "unserialised" \notin odd =>
          \A s \in Sessions : ss[s].pc \in LoggingIn => s \in mutex

(* A session is at the end of the table until its record is appended, and  *)
(* at a record from then on.                                               *)
Recordless == {"new", "lookup", "create", "append", "off", "ending", "gone"}

Placed ==
    /\ \A s \in Sessions : ss[s].pos \in 1..Len(table) + 1
    /\ Serial =>
          \A s \in Sessions :
             /\ ss[s].pc \in {"create", "append"} => ss[s].pos = Len(table) + 1
             /\ ss[s].pc \notin Recordless => ss[s].pos <= Len(table)

(* A session has no lock but the one that it counts, which is on the       *)
(* record at the table's position.                                         *)
LocksCounted ==
    Serial =>
        /\ \A l \in locks : /\ l.at = ss[l.by].pos
                            /\ ss[l.by].rc + ss[l.by].wc > 0
        /\ \A s \in Sessions :
              ss[s].wc = 1 => [by |-> s, at |-> ss[s].pos, mode |-> "w"] \in locks

IInv ==
    /\ TypeOK /\ Counts /\ Flags /\ LocksAgree /\ MutexHeld /\ Placed
    /\ LocksCounted

-----------------------------------------------------------------------------
(***************************************************************************)
(* What TallyExact needs beyond it: a session that logs in without QuotaLock*)
(* or credits another user is not looked at.                               *)
(***************************************************************************)
Exact == odd \cap {"unserialised", "strayed"} = {}

(* To begin with, no user has two records.                                 *)
OneRecordEach ==
    \A t \in FirstTables :
        \A i, j \in 1..Len(t) : t[i].user = t[j].user => i = j

Tallies ==
    /\ \A i, j \in 1..Len(table) : table[i].user = table[j].user => i = j
    /\ \A i \in 1..Len(table) : table[i] = due[table[i].user]
    /\ \A u \in Users : Recorded(u) = {} => due[u] = Zero(u)

(* A session stands at the record of its user, and has just read it when   *)
(* it writes it.                                                           *)
OwnAt(s) ==
    LET x == ss[s] IN
    /\ ~x.dele
    /\ x.pc \in {"create", "append"} =>
          /\ x.tally = Zero(UserOf[s])
          /\ \A i \in 1..Len(table) : table[i].user # UserOf[s]
    /\ x.pc \notin Recordless => table[x.pos].user = UserOf[s]
    /\ x.pc = "wwrite" => x.tally = table[x.pos]

OwnRecord == \A s \in Sessions : OwnAt(s)

TallyInv ==
    /\ "unfound" \in odd => "strayed" \in odd
    /\ Exact => Tallies /\ OwnRecord

(***************************************************************************)
(* What HardLimitHolds needs beyond that: the limit is exceeded by no more *)
(* than the sum of what sessions have written and are going to take back.  *)
(* Sum gives that sum for every set of sessions.                           *)
(***************************************************************************)
WithinFirst == \A t \in FirstTables : \A i \in 1..Len(t) : t[i].b <= BytesAvail

Undoes(x) ==
    \/ x.pc \in {"judge", "judge_err"} /\ Exceeded(x.tally) /\ x.inc.b > 0
    \/ /\ x.then = "idle" /\ x.inc.b < 0
       /\ \/ x.pc = "wlock"
          \/ x.pc \in {"rlock", "read", "wwrite"} /\ x.wc = 1

TakesBack(x) ==
    IF ~Undoes(x) THEN 0 ELSE IF x.inc.b < 0 THEN -x.inc.b ELSE x.inc.b

Undoing(u) == {s \in Sessions : UserOf[s] = u /\ Undoes(ss[s])}

Sums(Sum) ==
    /\ Sum[{}] = 0
    /\ \A Q \in SUBSET Sessions : \A s \in Sessions \ Q :
           Sum[Q \cup {s}] = Sum[Q] + TakesBack(ss[s])

Exceeding(Sum) ==
    \A i \in 1..Len(table) :
        table[i].b <= BytesAvail + Sum[Undoing(table[i].user)]

(* What is written last adds nothing, but at the end of a session or when  *)
(* an upload had made its file smaller.                                    *)
Planned(s) ==
    /\ "exit" \notin odd => ss[s].then # "ending"
    /\ "refund" \notin odd /\ ss[s].then = "idle" => ss[s].inc.b <= 0

HardInv ==
    /\ \A s \in Sessions : Planned(s)
    /\ conf.hard /\ odd = {} =>
          \E Sum \in [SUBSET Sessions -> Nat] : Sums(Sum) /\ Exceeding(Sum)
=============================================================================
