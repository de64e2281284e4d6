# ProFTPD in TLA+

TLA+ models of the core of ProFTPD (the daemon, its session processes and the
facilities both are built on), TLC configurations that check them on small
instances, and TLAPS proofs of what holds for every instance.

Paths of the program are written from the directory above this one:
`src/src/timers.c` is the timer facility of the server.  `PROJECT.json` says for
every definition which lines it models.

## 1. The system

ProFTPD is a forking FTP server.  A master process listens; each connection gets
a session process of its own, which reads FTP commands and dispatches each to the
handlers of the loaded modules.  Within a process nothing is concurrent except
signal handlers, but the processes share the scoreboard file, its locks, pipes
and signals; and within a process modules call each other through callbacks
(events, timers, command handlers, pool cleanups) that may re-enter the facility
that called them.

### Inventory

| component | state | operations | what must hold |
|---|---|---|---|
| timers (`src/src/timers.c`, lists of `sets.c`) | three intrusive lists of timers, alarm(2), block and dispatch counters | add, remove, reset, block, unblock, sleep, SIGALRM, the pass that ages timers and runs callbacks | lists stay sound under callbacks that change them; a pass never nests; a removed timer never runs; no wakeup is lost |
| events (`event.c`) | a doubly linked list of handlers per event, a one-entry cache of the dispatch in progress | register, unregister, generate | order of modules; no cycle, no duplicate; a registered handler gets the event, also when others come and go meanwhile |
| privileges (`privs.c`) | two counters, ids of the session, ids of the process | setup, root, user, relinquish, revoke | the process acts as who it should, and without root for good after RootRevoke |
| master daemon (`main.c`, `child.c`, `signals.c`, `bindings.c`) | list of children with semaphore pipes, signal flags, schedules | the accept loop, fork, reaping, restart, shutdown message | exact child count, MaxInstances, no socket reopened while a child holds it, SIGTERM reaches all |
| scoreboard (`scoreboard.c`) with the limits of `mod_auth.c` | slots of a shared file, a mutex on a second file, each process's slot number and copy | add, update, read, delete, scrub; scan and count | one slot per session; limits hold; nothing is left of a dead session |
| command dispatch (`main.c`, `response.c`, `data.c`, command tables of the modules) | the commands in progress, two response lists, the response pool, the last code | the phases of a command, handlers, nested dispatch, poll_ctrl | one reply per command, of its own lines; every command is logged, and as answered |
| data transfer (`data.c`, `mod_xfer.c`, `mod_ls.c`, `mod_facts.c`) | the data connection, its stream, the flags and the record of the transfer, the file, the stall timer | PASV, PORT, EPSV, REST, RANG; open, transfer, abort, close, cleanup; SIGURG, ABOR, TimeoutStalled, the end of the session | one final reply, positive only for what was done; every path gives the connection, the file and the timer back; nothing acts on a stream that is gone |
| quotas (`contrib/mod_quotatab.c`, `mod_quotatab_file.c`) | a tally per user in a file that sessions share, record locks with counts, a lock on QuotaLock, the session's position in the file | lookup and creation at login, the checks and updates of STOR and DELE, the update at the end of a session | no update is lost or made twice; no lock is left; a hard limit holds |
| authentication (`auth.c`, `mod_auth.c`) | the module stack, id caches, login state, attempts | USER, PASS, the lookups | cached answers agree with the modules; attempts are limited |
| memory pools (`pool.c`), tables (`table.c`), stash (`stash.c`) | blocks, sub-pools, cleanups; hash chains and iterators | allocate, clear, destroy; add, get, remove, iterate | no block on two lists; cleanups once; iteration under change |
| bindings, network I/O, controls, configuration, virtual file system | see `PROJECT.json` | | |

How they interact: the master's loop runs schedules and handles signals by flags
that signal handlers set; a session's handlers run inside `_dispatch`, send
responses through `response.c`, and while they move data call `poll_ctrl`, which
reads and dispatches the next command on top.  Timers run callbacks from
`pr_signals_handle`, which is called from almost everywhere.  Events connect
modules with each other; `core.session-reinit` makes each of them unregister and
register handlers from within a handler.  All session processes and the daemon
meet in the scoreboard, and those of one user in the tally file of the quotas.
A transfer is interrupted in four ways (an urgent byte, a command found between
two blocks, a timer, the end of the session), each of which undoes in pieces what
the handler of the transfer has set up and will go on using.

The behaviours that are hard, and that the properties are aimed at, are listed
with their lines under "hazards" in `PROJECT.json`: signals between any two
statements, callbacks that re-enter, shared files counted without a common lock,
reused process ids, crashes, lock attempts that are used up, commands within
commands.

## 2. Modules

| module | models | composed with |
|---|---|---|
| `Timers`, `MC_Timers`, `TimersProofs` | `timers.c`, the lists of `sets.c` | |
| `Events`, `MC_Events`, `EventsProofs` | `event.c` | |
| `Privs`, `PrivsProofs` | `privs.c`, the credentials the kernel keeps | |
| `MasterDaemon`, `MC_Master`, `MasterDaemonProofs` | `daemon_loop`, `fork_server`, `restart_daemon`, `child.c`, signal flags of `signals.c` | the children's half of `fork_server` and the kernel |
| `Scoreboard`, `MC_Scoreboard`, `ScoreboardProofs` | `scoreboard.c`, `auth_scan_scoreboard`, `auth_count_scoreboard` | many sessions and the scrubbing daemon |
| `CommandTable` | command tables and handlers of six core modules, as data | |
| `CommandDispatch`, `MC_Dispatch` | `cmd_loop`, `_dispatch`, `pr_cmd_dispatch_phase`, `response.c`, `poll_ctrl` | extends `CommandTable` |
| `CommandInvariants`, `CommandDispatchProofs` | what the proofs assume of a table of handlers, and their invariants; the proofs | `MC_Dispatch` extends the first, so that TLC evaluates the assumptions |
| `Transfer` | what a client may rely on in a transfer (abstract) | |
| `DataTransfer`, `DataTransferProofs` | `data.c`, the transfer commands of `mod_xfer.c`, `mod_ls.c` and `mod_facts.c`, PASV, EPSV and PORT of `mod_core.c` | implements `Transfer` (`Promised == INSTANCE Transfer WITH ...`) |
| `Quota`, `MC_Quota`, `QuotaProofs` | `mod_quotatab.c` with the tables of `mod_quotatab_file.c` | sessions of one user and of several, the kernel's record locks |

Each module has a type invariant, `TypeOK`.  That of `CommandDispatch` was checked
with the run of its module and is not listed with it; the others are proved
(`Scoreboard` and `Quota` as a part of `IInv`).  The invariants of the proofs (`IInv`
and those that add to it) were checked with TLC on the instances of the runs before
they were proved.

**Timers.**  The variables are the static variables of `timers.c`; a struct is a
number and a list a sequence of numbers.  Wall-clock values are replaced by their
ages.  A pass is cut into steps at every place where code outside `timers.c`
runs or a signal may matter: `BeginPass`, `VisitTimer`, the callback (during
which every interface action that the code allows there may happen),
`CallbackDone` or `CallbackRestart`, `Resplice` of the recycled list, `EndPass`,
`FinishPass`.  `sig_alarm` may come between any two steps.  `palloc` leaves
anything in the prev pointer of a new struct (`PallocPrev`).

**Events.**  Pointers are modelled as written: structs that were unlinked stay,
and the dispatch loop follows their next pointers.  Activations of
`pr_event_generate` form a stack, `frames`; between its steps handlers may
register, unregister and generate.  The loop of `pr_event_unregister` over a list
is `UnlinkList`; the loops over the lists are put side by side in `UnlinkAll`, as
no struct is reached from two lists (a part of `TypeOK`).

**Privs.**  The system calls are modelled by what they do to real, effective and
saved ids, without checking for errors, as the code does.  Callers' brackets are
a stack of what they asked for, a history variable.

**MasterDaemon.**  `pc` is the place in `daemon_loop` or `restart_daemon`; a
signal handler may run between any two steps unless the signal is blocked.  A
signal that comes during select(2) ends it.  A child is as far as the master can
see it: it holds the listening sockets, no longer, has closed its pipe, is a
zombie, or is gone and its process id free again.

**Scoreboard.**  Each process has its own `pc`, slot number (`l_start`), copy of
its entry and scan.  `pr_lock_scoreboard` gets the lock when nobody is in the
way, or, where `LockFails`, gives up when somebody is.  wlock_entry passes
F_UNLCK, so entries are written without a lock, and so they are here.  `conf`
is the configuration, chosen once in `Init` from `Confs`, so that one run can
look at several.

**DataTransfer.**  The functions of `data.c` and the cleanup handlers are
operators on the record `st`, which holds what they share: the connection `d`,
`session.sf_flags`, `nstrm`, the handler of SIGURG, the stall timer, `session.xfer`,
the restart position, the error list, and of the file system the named file and
the hidden one.  Actions cut a command where the process can be interrupted or
waits: before the handler (`Refuse`), while the connection is opened
(`Connects`, `ConnectFails`), between two blocks (`PollNothing`, `PollPeeks`,
`PollDispatches`, `PollRest`, `Block`), at the end of the data, in the lingering
close of `pr_data_abort` (`Abandoned`) and of `pr_data_close2` (`Closed`).
SIGURG, TimeoutStalled and the end of the session may come at each.  An ABOR that
poll_ctrl dispatches is carried out whole within the transfer that it ends.
`torn` is a history variable: a store whose close or rename failed (section 6).

**Transfer.**  The abstract specification knows a phase, a kind of transfer, the
answer and the file.  The mapping computes `phase` from `pc`, `answer` from the
final replies sent, and `aborted` from SF_ABORT and an ABOR already read; two
replies to one command have no counterpart in `Transfer`, so that a second one
is a step it does not allow.

**Quota.**  Each session has its position in the table, its copy of the tally, its
two lock counts and the place in `quotatab_read`, `quotatab_write`, the login or the
handler it is at.  Locks are those of the kernel: per process and record, replaced
by a second one, released by any unlock.  `Logins` says whose sessions they are.
An upload that fails goes through `stor_abort` of `mod_xfer.c`, which removes the file
with DeleteAbortedStores.  A session that ends while data is moved goes through
`xfer_exit_ev`, which is called before `quotatab_exit_ev` because it was registered
later: the error handlers judge the upload, and the session then ends (`quits`)
without anything left to write.  `due` is a history variable with
the sum of the increments that were written for a user; `odd` collects what the
properties except (section 6).

**CommandDispatch.**  A handler is the set of what it may do, in calls; the
dispatcher is modelled whole: phases, C_ANY handlers before the command's own,
login checks, what a failure skips, the flush and the pools.  `poll_ctrl` pushes
a command of its own onto the stack.  Only the lines sent since `cmd_loop` read
its last command are kept.

## 3. Runs

| run | instance | shows |
|---|---|---|
| `timers_safety` | 3 structs, 1 or 2 seconds, one static number, one module | lists, passes, alarm; no removed timer runs |
| `timers_liveness` | 2 structs, 2 seconds | every timer runs; `pr_timer_sleep` returns |
| `events` | 2 events, 2 modules and the core, 4 structs, nesting 2 | lists and delivery |
| `events_complete` | 1 event, 2 structs | `Complete` is violated (section 6) |
| `privs` | 3 users and root, nesting 3 | who the process acts as |
| `master` | 3 process ids, MaxInstances 2, MaxConnectionRate 2, 1 SIGHUP, failing select | children, restart, SIGTERM |
| `master_liveness` | 2 process ids, MaxInstances 1, 1 SIGHUP, shutmsg, timers | restart ends, SIGTERM is handled, entries are purged |
| `scoreboard` | 2 sessions at a time, 2 or 3 in all: with a scrubbing daemon, HOST, crashes and used-up lock attempts; and with each limit at 1, from 1 or 2 hosts | slots, leftovers, scrubbing, limits |
| `dispatch` | 4 commands of ten kinds | replies, pools, logs, renames, progress |
| `transfer` | one session, 2 blocks, every configuration | `DataTransfer` implements `Transfer`; aborts are safe, nothing is left behind, transfers end |
| `transfer_hidden` | HiddenStores and DeleteAbortedStores on | `KeepsRealFile` is violated (section 6) |
| `quota` | 2 sessions of one user or of two, a new file and one of the second user's, limits of 2, 2 commands, QuotaLock set; hard limits with and without DeleteAbortedStores, soft ones without | tallies, locks, hard limits |

The bounds and why they are enough:

- *Timers.*  Three timers give a running one, one before and one after it.  Ages
  saturate at `MaxLag`, the longest interval, where every timer is expired
  anyway.  `AlarmCap` is 5 in the code; it is 2 in `timers_safety`, so that a list
  out of order shows in the alarm, and 1 in `timers_liveness`, where the cap cuts
  every interval.  `SlowCode` says in which places a second may
  pass; other places only multiply states.  `VIEW LiveState` leaves out dead
  data, as the module says.
- *Events.*  Four structs on a list make one with neighbours on both sides, and
  registering again after unregistering; nesting of 2 gives an inner dispatch of
  the same and of another event.
- *Privs.*  All brackets up to a nesting of 3; the counters are bounded by 1, so
  deeper nesting repeats counter values.  The proofs do not need the bound.
- *MasterDaemon.*  Two living children, and a third process id that may be new
  or have a dead entry.  One SIGHUP: a second one in the same round is a second
  schedule of the same function.  The shutdown message and alarms are in the
  liveness run, where they multiply fewer states.
- *Scoreboard.*  Two sessions compete for a slot, with the daemon as a third
  party; three in all, so that a slot or a process id is used again.  A limit of
  one is broken by two sessions that are logged in at the same time, and each
  limit has a configuration of its own.
- *CommandDispatch.*  PASS, a transfer, a command within it and one after it.
  The commands are one of each kind: with a handler that adds, fails, dispatches
  another, transfers, or does not exist.  RNTO and SITE CHMOD before the login,
  and STAT and SITE HELP within a transfer, are left out of the run because they
  break it (section 6).
- *DataTransfer.*  Two blocks give an interruption before, between and after data
  that moved; a third is the same step from the same state.  A session gives any number of commands, so that what one leaves
  behind meets the next; at most one ABOR is sent for each.  All 12
  configurations are looked at.
- *Quota.*  Two sessions race for a record and for the file; a limit of 2 with files
  of up to 2 bytes lets two uploads each fit and overrun it together.  Two
  commands are two uploads that overlap, an upload and its deletion, or an upload
  and the deletion of another user's file.  With sessions of two users the owner
  of the deleted file may be at work too.  `Locked` in `MC_Quota` has no
  configuration without QuotaLock: every login is then `unserialised`, which the
  properties except, and a login whose attempts are used up does the same.  Soft
  limits with DeleteAbortedStores are left out to keep the run short: each of the two is
  looked at without the other.  The proofs are for all configurations.

Deadlock is not checked in `timers_safety` (a process that follows a junk
pointer has no next step), in `transfer` (a closed session stays so), nor in `scoreboard`, `dispatch` and
`quota` (they stop at their bounds).  Symmetry is used only in runs without liveness properties.

Every property has a mutant in `PROJECT.json`: a changed definition, kept beside
the original and marked as a mutant, under which TLC finds it violated.

### Fairness

- `Timers!Fairness`: time passes (`SF` of `Tick`, as it passes only in
  `SlowCode`), a due SIGALRM is delivered, code runs on, the program calls
  `pr_signals_handle` again and again (its loops do, by convention) and leaves
  its critical sections.
- `MasterDaemon!Fairness`: the master runs, SIGCHLD is delivered, a child comes
  through its startup, and one that was sent a signal ends.  No client has to
  connect or leave, and select need not fail or time out in any particular way.
- `Scoreboard!Fairness`: processes run.  Weak fairness only: nobody is promised
  the mutex, so `StaleScrubbed` excludes clients that send HOST for ever.
- `DataTransfer!Fairness`: the process carries on with what does not depend on the
  client (`Works`), and TimeoutStalled goes off if its timer stays.  No client has
  to connect, send, read or close: that a transfer ends with such a client is what
  `TransferEnds` says of the timer, which TimeoutStalled 0 would turn off.
- `Quota`: none; its properties are safety.
- `CommandDispatch!Spec`: the process runs on, and a transfer ends, for which
  the stall timer sees.

## 4. Proofs

TLAPS proves the following for all values of the constants that satisfy the named
assumptions of the modules (`TimersAssumption`, `EventsAssumption` and so on: sizes
are natural numbers, process ids are finitely many, configurations are records
of the right kind, values that stand for "none" are not among the others).  Where a
theorem has a hypothesis of its own it is named below; each is met by the
instance of the run, or by a part of its configurations.

All safety properties that the runs check are proved, except those under "Only
model-checked".  None of them is inductive as it stands; each module has an
inductive invariant, `IInv`, and the proofs have one lemma per action over lemmas
on the operators the actions share.

**TimersProofs.**  `TypeCorrect`, `ListIntegrity` (`OneList`), `PassSound`
(`PassOnTrack`), `PassExclusion` (`PassExcluded`), `NoRunAfterRemove` (the
action property `RemovedNeverRuns`) and `NoLostWakeup` (`AlarmSet`).  That a struct is
on one list only depends on the walk staying on the main list while callbacks run;
that depends on removals being deferred during a pass, that is, on knowing when a pass
runs, which is what `PassExcluded` says.  Three supporting facts are added: members of
lists were allocated (`Allocated`), so that a new struct is on none; a removed
timer that is still on a list carries the mark (`GoneMarked`), which
`VisitTimer` honours; a pass has its activation record (`HasFrame`).  `AlarmSet` has an
invariant of its own on top of that, `AlarmInv`.  The counts on the main list are not
sorted while a pass is going on: those it has visited have had the elapsed time
subtracted, the others have not.  What remains of each, with the elapsed time taken
from those still to visit, is sorted at all times (`TimersSorted`); no timer but the
one whose callback runs has used up its time (`TimeLeft`); recycled timers are there
only while a pass is going on or is bound to come (`PassComes`); and when none is, the
alarm covers every timer (`Covered`).

**EventsProofs.**  `TypeCorrect`, `OrderHolds` (`DispatchOrder`),
`InOrderComplete` (`CompleteInOrder`) and `AllDelivered` (the action property
`Delivered`), for any events, handlers and nesting.  Wrong prev pointers are
reachable (section 6), so nothing can rest on prev being the inverse of next.  What
all pointers keep, also the wrong ones and those of structs no longer on a list, is
an order of the structs that never changes (`Before`: modules newest first, then the
core oldest first): `Ordered`.  Unlinking joins two pointers and the order is
transitive.  So no list has a cycle, every walk ends, and what is reached from a
struct comes after it.  Completeness needs the second invariant, `HeadsFirst`: while
only heads were unregistered, a head has no prev pointer, hence unregistering it
changes no next pointer, and what a dispatch owes stays ahead of it.  A list is
defined by a recursive function; the lemmas `RunExists` to `LinkedIs` derive from
it that the list is the least set that has its head and is closed under next, and
only that is used.

**PrivsProofs.**  `TypeCorrect` (the counters stay at 0 or 1), `LeastPrivilege`
(`ActsAsSession`), `RevokeIsFinal` (`NoRootAfterRevoke`), `RootStaysInReach`
(`CanReturn`) and `PlainBracketsHonoured` (`BracketsHonoured`).  The strengthening is
`OneIdentity`: after the revocation all six ids are those of the session, which is
why no later seteuid(2) can succeed; without it `NoRootAfterRevoke` would allow a
saved id to be restored.

**MasterDaemonProofs.**  `TypeCorrect`, `CountIsExact` (`CountExact`), `RebindWaits`
(`NoEarlyRebind`) and `TermReachesAll` (`NoOrphans`), for any set of process ids and
any limits.  `IInv` says which signals are blocked where (`Masked`), that the list
has exactly one living entry for each child that was not reaped, except between
fork(2) and `child_add` (`Listed`), that the count is the number of those
(`Counted`), which schedules can be there (`Scheduled`), and for each place in the
loops what the descriptor set and the entries say of the children's pipes
(`PipesTold`).  Fairness is not used.

**ScoreboardProofs.**  `SlotIsOwn` (`OwnSlot`) and `NothingLeft` (`NoLeftovers`)
under `DaemonScrubs`: no session scrubs, which a session of inetd does (section 6).
The invariant has the exclusion that the mutex gives (`Mutex`), how far each
process is (`Stages`), and that the slot about to be taken is free and the one about
to be erased is of a process without an entry (`Aims`); where nobody crashes, a
session that has ended without the lock has cleared its only slot (`OneSlot`).
`LimitsHold` (`WithinLimits`) under `AllCounted`: moreover no lock attempt is used
up, and names fit the file; section 6 has what happens otherwise.  What a session has
counted may be out of date when it decides, so no statement about counts alone is
inductive.  The invariant says instead that the sessions have ranks, larger for those
that announced themselves later, so that each has counted, or will yet count, all that
are below it and still there; then the one of the highest rank among those logged in
has counted all the others.

**QuotaProofs.**  `LocksGivenBack` (`IdleClean`) for any sessions, users and records.
`NoUpdateLost` (`TallyExact`) under `OneRecordEach`: no user has two records
to begin with.  From `IInv`, which says for each place which locks are held and
where the descriptor stands, follows that a session that writes has the record locked
since it read it; `Tallies` adds that each record is then the sum of the updates.
`LimitNotExceeded` (`HardLimitHolds`) under `OneRecordEach` and `WithinFirst`, that
no tally is beyond the limit to begin with: at any time a tally exceeds the limit by
no more than what the sessions that are about to undo an upload will take back.

**DataTransferProofs.**  `TypeCorrect`, `UrgentDataSafe` (`SafeAbort`),
`NoHiddenFileLeft` (`HiddenGone`), `NextCommandClean` (the action property
`CleanLoop`) and the refinement, `KeepsPromise` (`Promise`, that is, `DataTransfer`
implements `Transfer`), for every configuration and any number of blocks.  The
invariant says for each `pc` which of the connection, its stream, the file, the
flags and the record of the transfer are there (`Stages`), which replies were
sent (`Answers`) and what the named and the hidden file can be (`StoredFiles`).  The
refinement has one lemma per action, which names the step of `Transfer` that it is
or shows that it is none.

**CommandDispatchProofs.**  Handlers are data, so a theorem holds for any table of them
that meets named conditions.  Five are assumptions that TLC evaluates on the table of
the repository's handlers (`CommandInvariants`): `TableAssumption` (what a table is),
`LogAssumption` (log handlers for all commands need no login and do not return
`PR_HANDLED`, as those of `mod_log`, `mod_sql`, `mod_redis` and `mod_digest`),
`CodeAssumption` (the codes in it are reply codes, or `R_DUP` where a response is added),
`RenameAssumption` (only a handler of RNFR notes a rename, and it needs a login; one of
RNTO removes it in each log phase) and `AnswerAssumption` (see below).
`LogsReached` (`LogsRun`) rests on `IInv`: a command that has failed is in the phases
for that, and in a log phase the handlers up to the current row were called.
`RenameOver` (`RenameEnds`): with the note set, an RNTO has the handler that
removes it still before it (`RenameInv`); that RNFR needs a login is used where the
cleanup handler is refused for want of one.  `ResponsesLive` (`PoolsLive`)
is under a hypothesis, `OneSidedHandlers`: handlers of a command that may be
dispatched within another add responses only to the list that their result will have
flushed.  It holds for the commands of the run and not for STAT and SITE HELP, with
which `PoolsLive` fails (section 6).  `PoolInv` says that the pools set aside are
those of commands further out, that commands further in have larger numbers, and that
in an inner command the list that will not be flushed is empty, so that both are when
its pool goes.

The answers themselves are three theorems over one invariant: `AnsweredOnce`
(`OneReply`), `AnsweredByOwn` (`OwnLines`) and `LoggedRight` (`LoggedAsAnswered`).
`AnswerAssumption` is about one handler at a time.  A handler decides the command when
it fails in PRE_CMD or CMD or takes it in CMD; such a one gives exactly one answer
(`OneAnswer`): responses of one code in the list of the outcome, or the message of
`PR_ERROR_MSG`, or a final line that it sends itself, or a command that it dispatches
in its place.  One exception is allowed for: the CMD handler of an `Unanswered` command,
which is RETR, may fail without any of these (`Silent`; section 6).  The theorems then
say that such a command gets no line at all, is logged in LOG_CMD_ERR and with no
code, and that a command which is not in `Unanswered` always gets its reply.  All
other handlers are quiet, but for responses that a command like SITE HELP puts around those of its CMD handler (`Heads`).  After it has begun to answer, a handler
neither sends a line, nor moves data, nor dispatches, since that drops the lists
(`Orderly`).  Handlers of phases after CMD need no login if their command can come
before one, which leaves out RNTO and SITE CHMOD before the login; and commands that come
within others have no responses put around them and do not add to the wrong list,
which leaves out STAT and SITE HELP there (section 6).  `AnswerInv` says what each
command in progress still owes (`Owes`): before the decision nothing has been said;
after it exactly one of the four ways is under way, either in the list, in the calls that
the handler has still to make, or in the lines sent, or the command is a silent failure
and nothing is.  A command that waits for
another has said nothing (`Nested`), which is why it loses nothing when
`pr_cmd_dispatch` clears both lists; what it owes carries over to the moment it goes
on.  The step from a list to lines is a lemma on `pr_response_flush`: a list whose
responses have one code, filled in for `R_DUP` up to the first, is written as one reply
(`FlushOneCode`, by an explicit form of the recursive function; `InsertOneCode` says
that adding keeps such a list so).

`TypeCorrect` needs in addition the codes in the calls that the handlers in progress
have still to make (`TypeInv`).

Only model-checked:

- all liveness, which is out of the prover's reach (`timers_liveness`,
  `master_liveness`, `StaleScrubbed`, `TransferEnds`, and the progress of `dispatch`);
- what section 6 names as violated.

## 5. Plan

Proofs: those of all safety properties are there (section 4 has their hypotheses); further
models would bring theirs.

Models that would come next: authentication (`auth.c`: the module stack and the id
caches; USER and PASS with the attempts of `mod_auth.c`), `pool.c` (blocks,
sub-pools and cleanups) and `table.c` (chains and iteration, against a function as
reference), `netio.c`, `ctrls.c`, `bindings.c`, the statcache of `fsio.c`; and of the
contributed modules those that share state between sessions as the quotas do
(`mod_ban`, `mod_shaper`, `mod_delay`'s table).

## 6. Deviations met while modelling

Where the code does something else than its documentation or comments say, the
model follows the code.  Two of these are runs that end in a violation
(`events_complete`, `transfer_hidden`); the others are left out of the passing runs by the constant, the configuration or
the conjunct named here, and come back when that is changed.

**Timers**

- A timer may run early: the elapsed time is `_total_time` plus the age of
  `_alarmed_time` (`timers.c:281-285`), for a timer that was added during that
  time too.  `timers.h:30`: "Schedule a timer for the given amount of seconds."
  (`NotEarly`)
- The check for a number in use walks `timers` only (`timers.c:424`), not
  `recycled`, so a callback can add a number twice; the comment before it (422)
  says "Check to see that, if specified, the timerno is not already in use."
  (`UniqueTimerno`)
- `palloc` does not clear the struct (`timers.c:449`), `xaset_insert` sets the
  next pointer of the new member only (`sets.c:69-75`), and `xaset_remove`
  follows its prev pointer (`sets.c:172`).  A timer added in a callback goes to
  `recycled` "to prevent list corruption" (`timers.c:468-469`).
  (`NoListCorruption`, with "junk" in `PallocPrev`)

**Events**

- *Run `events_complete`.*  Registering before the head writes the wrong prev
  pointer (`event.c:164`); unregistering the old head then drops the handlers
  before it (251-253).  `CompleteInOrder` says what holds for callers that
  unregister in the order of the list (`in_order`).
- A handler that was unregistered during the dispatch may still be called: the
  loop goes on from a struct that is no longer linked (351).
  (`UnregisteredNotInvoked`)
- A nested dispatch clears the cache when it ends (381), so the next nested one
  of the same event starts at the head and comes to the listener that generates
  it; the comment at 352-354 (Bug#3619) rules that out.  (`NotReentered`)

**Privs** (`plain` restricts `BracketsHonoured` to brackets without these)

- A nested PRIVS_ROOT is not counted (`privs.c:160`), so the first
  PRIVS_RELINQUISH releases; the comment at 60-62 says "the last
  PRIVS_RELINQUISH call actually releases the privs".
- With both counters at 1 PRIVS_RELINQUISH does nothing and counts nothing
  (285): a PRIVS_ROOT within a PRIVS_USER is not released.
- Which counter is decremented depends on the effective uid (299): for a session
  of root, PRIVS_USER's release decrements the other one.
- `set_server_privs` and `mod_sftp` call PRIVS_SETUP right after a PRIVS_ROOT that is never
  relinquished (`main.c:1110-1115`, `mod_sftp/auth.c:539-540`).  PRIVS_SETUP clears the
  counters, so this closes the bracket, and is modelled so.

**MasterDaemon**

- A select that is interrupted goes round the loop without purging dead children
  (`main.c:1653`); `DeadPurged` therefore asks that select gets through.
- After a failed select the descriptor set is not what select returned, and a
  pipe may be taken for readable (1712), so that the restart reopens sockets a
  child still holds, which the pipe is there to prevent (1131-1136).
  (`NoEarlyRebind` without `select_failed`)
- A SIGTERM that comes before select is entered waits until select ends; without
  children, clients or timers nothing ends it (1698).  `ServingTerminates`
  therefore speaks of a master that goes on to accept connections.
- Once `shutting_down` is set the time to disconnect is not looked at again
  (1582): sessions that were told of the shutdown before that time stay,
  where `ftpshut.8.in:55-59` says that "existing ftp connections will be
  disconnected".
- The rate counts the entries of living children only (1722), so connections
  that ended do not count; `mod_core.html:1754-1755` speaks of "a maximum count
  of connections per time interval".
- `child_signal` signals the process ids of dead entries too (`child.c:108`).

**Scoreboard**

- A scan whose read lock fails ends early (`scoreboard.c:968`) and counts less:
  with `LockFails` the limits do not hold, where `mod_auth.html:478-479` says
  "Once the count limit is reached, additional clients attempting to
  authenticate will be disconnected."  (`WithinLimits`)
- A session of inetd that scrubs moves its own `entry_lock.l_start` (1453) and
  from then on writes and deletes another's slot; the comment at 1408-1409 says
  "It won't hurt if the process already has a descriptor opened on the
  scoreboard file."  (`Standalone = FALSE` with `Scrub`: `EntryKept`,
  `NoLeftovers`)
- "Count up unique hosts." (`mod_auth.c:2143`) counts sessions from other hosts,
  not hosts.  (`RefusedForHosts`)
- Names are truncated in the file, and 2140 compares the whole name: a user with
  a long name is never counted.  (`LongUsers`: `WithinLimits`;
  `mod_auth.html:590-591`)
- Sessions announce themselves before they count (1896), so two that log in at
  once can both be refused though one would have been within the limit.
  (`RefusedWhenFull`)

**CommandDispatch**

- A failed command leaves its lines on `resp_list` (`main.c:737` flushes the error
  list only).  Within a transfer they are in a pool that is destroyed
  (`data.c:1189`); STAT of a path that fails (`mod_ls.c:2948-2951`) is such a command.
  The comment at `main.c:647-652` tells of responses that outlive their pool.
  (`PoolsLive`, with STAT or SITE HELP in `XferCommands`)
- The login check sends 530 for every handler it refuses (`main.c:279`).  RNTO
  has a handler of its own in the logging phases (`mod_core.c:7178-7179`), and
  SITE CHMOD is checked again in `mod_site.c:548-550`: before the login each gets
  two replies.  (`OneReply`)
- Lines that STAT or SITE HELP add within a transfer come with the reply to the
  transfer (`main.c:719`).  (`OwnLines`)
- STAT of a path that fails is answered with 450, and logged as 211, 212 or 213
  (`mod_ls.c:2948-2952`); `mod_log.html:399` calls it "Numeric FTP response
  code".  OPTS of a command that fails is logged with the code of the inner
  command (`mod_core.c:6334`).  USER of a user who needs no password is logged
  with no code, or as a success though the PASS within it failed
  (`mod_auth.c:2473`).  (`Misreported` in `LoggedAsAnswered`)
- A RETR for which `pr_data_open` fails without adding a response (`data.c:260-264`,
  `533-536`, `542-545`) returns an error with an empty list (`mod_xfer.c:2810-2818`).
  The client gets no reply, where `doc/rfc/rfc0959.txt:1969` says "Every command must
  generate at least one reply", and the command is logged without a code.
  (`Unanswered` in `OneReply` and `LoggedAsAnswered`; without it both fail.  Which
  commands it befalls, and when, is modelled in `DataTransfer`.)

**DataTransfer**

- *Run `transfer_hidden`.*  `stor_abort` removes `session.xfer.path` whenever
  DeleteAbortedStores is on (`mod_xfer.c:1032`), also after a hidden upload, which
  has not touched that file; the comment at 994 says "remove only hidden file, not
  real one".
- A transfer command for which no data connection was set up (after EPSV ALL, after
  a PASV that failed, or in active mode with RootRevoke) gets no reply at all, where
  `doc/rfc/rfc0959.txt:1969` says "Every command must generate at least one reply".
  So does an MLSD whose abort is noticed only after its loop; a LIST that ABOR
  interrupts may too.  `Transfer!Fail` allows it for these.
- A store whose close or rename fails returns with SF_XFER (`proftpd.h:233`,
  "Transfer in progress"), `nstrm`, the stall timer and the handler of SIGURG still
  set (`mod_xfer.c:2209-2270`).  An urgent byte then aborts a stream that is gone,
  and TimeoutStalled cuts a session off that transfers nothing.  (`torn` in
  `SafeAbort` and `CleanLoop`)
- `xfer_err_cleanup` removes the hidden file also after the exclusive open of it
  failed because it was there, that is, another session's (3246-3262).  One session
  is modelled, which does not meet it.
- ABOR resets all flags of the session with `pr_data_reset` (`data.c:462-473`), that of
  EPSV ALL with them.
- LIST answers 226 though its last block could not be sent; REST and RANG are accepted
  during a transfer and speak of the next one.

**Quota** (`odd` holds the name in parentheses; the properties say which they except)

- A STOR that is denied before its handler goes to `quotatab_post_stor_err` too
  (`main.c:681-685`), which with a hard limit and a tally above it unlinks the named
  file, though nothing was uploaded; the comment (`mod_quotatab.c:3923-3943`) speaks
  of "the uploaded file".
- Deleting another user's file: "If have tally, update _that_ tally." (2562-2565), but
  `quotatab_write` adds to `sess_tally` and writes `dele_tally` as it was read; and
  the lookup leaves the descriptor at the owner's record, where the session's
  own updates go from then on.  (`strayed`)
- Without QuotaLock, or when the attempts to get it are used up, which the
  caller does not notice, two first logins of a user create two records, and a lock on
  a record may stay until the session ends.  The documentation calls QuotaLock
  "recommended, but not required".  (`unserialised`)
- Crediting an owner who has no record leaves the descriptor at the end of the table,
  and the update is written there without QuotaLock.  A login that found and locked
  that end then appends its record one further, and its unlock misses its lock,
  which stays until the session ends.  (`unfound`, excepted by `Serial` in `IdleClean`)
- A hard limit may be exceeded at rest: when a session is killed, or ends while it waits for
  a lock with an update still to be written or taken back, which `quotatab_exit_ev`
  writes without looking at the limit (`exit`), when an update is given up
  because the record stays locked (`lost`), when the file to be removed is no longer
  there (`kept`), and when undoing an upload that made its file smaller adds bytes
  (`refund`).  A session that ends while data is moved is not among these: `xfer_exit_ev`
  has its upload judged by `quotatab_post_stor_err`.
- `quotatab_exit_ev` adds one file whatever the command was: a session that ends while its
  DELE waits for a lock, or its STOR for the data connection, is counted as one more
  uploaded file.
- `quotatab_post_stor_err` takes the count back with a soft limit too, although the file
  stays; and takes one file back although an existing file had counted none.

## 7. Not modelled

`PROJECT.json` lists every part with the reason.  What stands next in the
plan are authentication, pools and tables, network I/O, controls and bindings.
Outside are the parsing of configuration files, logging and formatting, the
virtual file system's wrappers of system calls, the contributed modules other
than the quotas (SFTP and TLS, the two largest, drive cryptographic libraries that
are not part of the repository), the client tools of `utils/`, and vendored libraries: they are straight-line code or
I/O without state that other parts depend on.  Time is in whole seconds, and
memory is not exhausted.

In the data transfer, unlink(2) succeeds, SIGURG does not come while the session
ends, and TYPE with ASCII translation, NLST, sendfile, throttling and TimeoutIdle and
TimeoutNoTransfer are left out; TimeoutStalled is not 0.  In the quotas, the commands
are STOR and DELE, limits are on uploaded bytes and files of users and none is
unlimited; a session whose tally could not be created has its quotas turned off
and is not followed.  RETR, APPE, renames, directories, SITE COPY and SITE QUOTA,
per-session quotas, group, class and overall limits, ScanOnLogin and the SQL, LDAP and
RADIUS tables are left out.

In the dispatch of commands, the sub-command of OPTS lives as long as OPTS; in the code
its pool is made from `cmd->tmp_pool` (`mod_core.c:6309`) and is gone when `core_opts`
returns, after which nothing of it is used.  An ABOR that `poll_ctrl` dispatches is not in
the table of that model: it is part of `DataTransfer`.
