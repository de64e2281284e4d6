---------------------------- MODULE MasterDaemon ----------------------------
(***************************************************************************)
(* The standalone master process: the accept loop and the restart of       *)
(* src/main.c, the list of session processes of src/child.c, and the       *)
(* signals of src/signals.c that touch that list.  The session processes   *)
(* appear as the master sees them: they close the listening sockets they   *)
(* inherited, then their end of the semaphore pipe, and exit some time.    *)
(***************************************************************************)
EXTENDS Integers, Sequences, FiniteSets

CONSTANTS
    Pids,           \* process ids the kernel gives to children, and reuses
    MaxInstances,   \* ServerMaxInstances; 0 when it is not configured
    MaxConnects,    \* max_connects of MaxConnectionRate; 0 when not configured
    MaxHups,        \* bound: how many SIGHUPs the administrator sends
    UseShutmsg,     \* may the administrator run ftpshut?
    SelectFails,    \* may select(2) fail for a reason other than EINTR?
    Alarms          \* does a module run a timer in the master?

ASSUME MasterAssumption ==
    /\ IsFiniteSet(Pids)
    /\ MaxInstances \in Nat /\ MaxConnects \in Nat /\ MaxHups \in Nat
    /\ UseShutmsg \in BOOLEAN /\ SelectFails \in BOOLEAN /\ Alarms \in BOOLEAN

VARIABLES
    (* the kernel *)
    kids,               \* the state of each child process
    doomed,             \* children that were sent SIGTERM or SIGUSR1
    pending,            \* a SIGCHLD is pending for the master
    blocked,            \* the master's signal mask
    shut,               \* the shutmsg file: none, disconnect later, or due
    (* child.c and signals.c *)
    child_list,         \* the entries, the newest first
    child_listlen,
    have_dead_child,
    recvd_signal_flags,
    scheds,             \* how many restart_daemon calls are scheduled
    (* daemon_loop and restart_daemon *)
    pc,
    todo,               \* schedules this pass of run_schedule has still to run
    i,                  \* what select returned: ready, none or error
    readfds,            \* the fd_set given to select, and its result
    nconnects,
    shutting_down,
    pid,                \* what fork returned
    (* history *)
    hups,               \* SIGHUPs sent so far
    termed,             \* SIGTERM was sent to the master
    select_failed       \* select(2) failed once, and not with EINTR

kernel == <<kids, doomed, pending, blocked, shut>>
children == <<child_list, child_listlen, have_dead_child>>
loop == <<todo, i, readfds, nconnects, shutting_down, pid>>
history == <<hups, termed, select_failed>>
vars == <<kernel, children, recvd_signal_flags, scheds, pc, loop, history>>

LISTEN == 0     \* the listening socket, among the fds given to select
NoFd == -1      \* a ch_pipefd that was closed

KidStates ==    \* "new" still holds the listening sockets, "closed" no longer,
                \* and "up" has closed the semaphore pipe as well
    {"free", "new", "closed", "up", "zombie"}

Live == {"new", "closed", "up"}
Running == {p \in Pids : kids[p] \in Live}
Zombies == {p \in Pids : kids[p] = "zombie"}
Exited == {"terminated", "failed"}      \* values of pc: the master is gone

Child == [pid : Pids, fd : {NoFd} \cup (Nat \ {LISTEN}), dead : BOOLEAN,
          recent : BOOLEAN]

Init ==
    /\ kids = [p \in Pids |-> "free"] /\ doomed = {} /\ pending = FALSE
    /\ blocked = {} /\ shut = "none"
    /\ child_list = <<>> /\ child_listlen = 0 /\ have_dead_child = FALSE
    /\ recvd_signal_flags = {} /\ scheds = 0
    /\ pc = "top" /\ todo = 0 /\ i = "none" /\ readfds = {} /\ nconnects = 1
    /\ shutting_down = FALSE /\ pid \in Pids
    /\ hups = 0 /\ termed = FALSE /\ select_failed = FALSE
-----------------------------------------------------------------------------
(* child.c *)
Entries == DOMAIN child_list
OpenFds == {child_list[n].fd : n \in Entries} \ {NoFd}
LowestFd == CHOOSE f \in 1 .. Len(child_list) + 1 :
                /\ f \notin OpenFds
                /\ \A g \in 1 .. f - 1 : g \in OpenFds

child_add(p) ==
    /\ child_list' = <<[pid |-> p, fd |-> LowestFd, dead |-> FALSE,
                        recent |-> TRUE]>> \o child_list
    /\ child_listlen' = child_listlen + 1
    /\ UNCHANGED have_dead_child

(* child_remove for each process of zs: the first entry with its pid. *)
child_remove(zs) ==
    LET found == {n \in Entries : /\ child_list[n].pid \in zs
                                  /\ \A m \in 1 .. n - 1 :
                                        child_list[m].pid # child_list[n].pid}
    IN  /\ child_list' = [n \in Entries |->
              IF n \in found THEN [child_list[n] EXCEPT !.dead = TRUE]
              ELSE child_list[n]]
        /\ child_listlen' = child_listlen - Cardinality(found)
        /\ have_dead_child' = (have_dead_child \/ found # {})

(* kill(2) for every entry, also for one whose process was reaped. *)
child_signal(list, procs) ==
    LET pids == {list[n].pid : n \in DOMAIN list}
    IN  doomed' = doomed \cup {p \in pids : procs[p] \in Live}

(* The entries that are not dead, in their order. *)
Purged ==
    LET kept[n \in 0 .. Len(child_list)] ==
            IF n = 0 THEN <<>>
            ELSE IF child_list[n].dead THEN kept[n - 1]
            ELSE Append(kept[n - 1], child_list[n])
    IN  kept[Len(child_list)]

child_update ==
    /\ child_list' = Purged
    /\ child_listlen' = IF child_list' = <<>> THEN 0 ELSE child_listlen
-----------------------------------------------------------------------------
(* signals.c *)
handle_chld(zs) ==
    /\ kids' = [p \in Pids |-> IF p \in zs THEN "free" ELSE kids[p]]
    /\ child_remove(zs)

TerminateAlone(next) ==     \* mutant: the children are not signalled
    /\ pc' = "terminated" /\ recvd_signal_flags' = recvd_signal_flags \ {"TERM", "CHLD"}
    /\ UNCHANGED <<doomed, scheds>>

TerminateIfKids(next) ==    \* mutant: returns when there are no children
    /\ pc' = (IF child_listlen' > 0 THEN "terminated" ELSE next)
    /\ recvd_signal_flags' = recvd_signal_flags \ {"TERM", "CHLD"}
    /\ UNCHANGED <<doomed, scheds>>

handle_terminate_with_kids(next) ==
    /\ pc' = "terminated" /\ recvd_signal_flags' = recvd_signal_flags \ {"TERM", "CHLD"}
    /\ IF child_listlen' > 0
       THEN child_signal(child_list', kids')
       ELSE UNCHANGED doomed
    /\ UNCHANGED scheds

(* What pr_signals_handle does, and where the caller goes on. *)
pr_signals_handle(next) ==
    /\ handle_chld(IF "CHLD" \in recvd_signal_flags THEN Zombies ELSE {})
    /\ IF "TERM" \in recvd_signal_flags
       THEN handle_terminate_with_kids(next)
       ELSE /\ pc' = next /\ recvd_signal_flags' = {}
            /\ scheds' = scheds + (IF "HUP" \in recvd_signal_flags THEN 1 ELSE 0)
            /\ UNCHANGED doomed
    /\ UNCHANGED <<pending, blocked, shut, history>>

(* A step at which the code reaches no pr_signals_handle. *)
NoSignals(next) ==
    /\ pc' = next
    /\ UNCHANGED <<kernel, children, recvd_signal_flags, scheds, history>>

(* The semaphore pipes.  The read end of an entry is at its end of file    *)
(* once the child closed the write end, or died.                           *)
Eof(c) == c.dead \/ kids[c.pid] \notin {"new", "closed"}
AtEof == {child_list[n].fd : n \in {m \in Entries : Eof(child_list[m])}}

(* A handler that runs while select waits for its fds ends the wait. *)
Interrupted(at) ==
    IF readfds \cap AtEof # {} THEN at
    ELSE CASE at = "select" -> "eintr"
           [] at = "restart_select" -> "restart_fds"
           [] OTHER -> at

(* sig_child reaps at once; sig_terminate ignores further SIGTERMs. *)
Deliverable(sig) == pc \notin Exited /\ sig \notin blocked

sig_child ==
    /\ pending /\ Deliverable("CHLD")
    /\ pending' = FALSE
    /\ recvd_signal_flags' = recvd_signal_flags \cup {"CHLD"}
    /\ handle_chld(Zombies)
    /\ pc' = Interrupted(pc)
    /\ UNCHANGED <<doomed, blocked, shut, scheds, loop, history>>

sig_terminate ==
    /\ ~termed /\ Deliverable("TERM")
    /\ termed' = TRUE
    /\ recvd_signal_flags' = recvd_signal_flags \cup {"TERM"}
    /\ pc' = Interrupted(pc)
    /\ UNCHANGED <<kernel, children, scheds, loop, hups, select_failed>>

sig_alarm ==
    /\ Alarms /\ Deliverable("ALRM")
    /\ recvd_signal_flags' = recvd_signal_flags \cup {"ALRM"}
    /\ pc' = Interrupted(pc)
    /\ UNCHANGED <<kernel, children, scheds, loop, history>>

sig_restart ==
    /\ hups < MaxHups /\ Deliverable("HUP")
    /\ hups' = hups + 1
    /\ recvd_signal_flags' = recvd_signal_flags \cup {"HUP"}
    /\ pc' = Interrupted(pc)
    /\ UNCHANGED <<kernel, children, scheds, loop, termed, select_failed>>
-----------------------------------------------------------------------------
(* semaphore_fds, added to the set fds.  Only its loop handles signals. *)
semaphore_fds(fds, next) ==
    /\ readfds' = fds \cup (IF child_listlen > 0 THEN OpenFds ELSE {})
    /\ IF child_listlen > 0 THEN pr_signals_handle(next) ELSE NoSignals(next)

(* Close the semaphore pipes that select reported. *)
CloseReportedKeepFd ==  \* mutant: ch_pipefd is not reset
    UNCHANGED children

CloseAll ==             \* mutant: without the test of FD_ISSET
    /\ child_list' = [n \in Entries |-> [child_list[n] EXCEPT !.fd = NoFd]]
    /\ UNCHANGED <<child_listlen, have_dead_child>>

CloseReported ==
    /\ child_list' = [n \in Entries |->
            IF child_list[n].fd \in readfds
            THEN [child_list[n] EXCEPT !.fd = NoFd] ELSE child_list[n]]
    /\ UNCHANGED <<child_listlen, have_dead_child>>
-----------------------------------------------------------------------------
(* run_schedule, at the top of the loop. *)
RunSchedule ==
    /\ pc = "top"
    /\ todo' = scheds
    /\ i' = "none" /\ readfds' = {} /\ nconnects' = 1     \* not used any more
    /\ NoSignals("sched")
    /\ UNCHANGED <<shutting_down, pid>>

ScheduleDone ==
    /\ pc = "sched" /\ todo = 0
    /\ NoSignals("fds")
    /\ UNCHANGED loop

CallRestart ==
    /\ pc = "sched" /\ todo > 0
    /\ pr_signals_handle("restart_fds")
    /\ todo' = todo - 1
    /\ UNCHANGED <<i, readfds, nconnects, shutting_down, pid>>

(* restart_daemon: wait until every child has closed its pipe. *)
RestartFds ==
    /\ pc = "restart_fds"
    /\ semaphore_fds({}, "restart_test")
    /\ UNCHANGED <<todo, i, nconnects, shutting_down, pid>>

RestartTest ==
    /\ pc = "restart_test"
    /\ NoSignals(IF readfds = {} THEN "rebind" ELSE "restart_select")
    /\ UNCHANGED loop

RestartSelect ==
    /\ pc = "restart_select" /\ readfds \cap AtEof # {}
    /\ readfds' = readfds \cap AtEof
    /\ NoSignals("restart_close")
    /\ UNCHANGED <<todo, i, nconnects, shutting_down, pid>>

RestartClose ==
    /\ pc = "restart_close"
    /\ CloseReported
    /\ pc' = "restart_fds"
    /\ UNCHANGED <<kernel, recvd_signal_flags, scheds, loop, history>>

(* free_bindings to init_bindings; a bad configuration ends the daemon. *)
Rebind ==
    /\ pc = "rebind"
    /\ pc' = "sched" /\ scheds' = scheds - 1
    /\ UNCHANGED <<kernel, children, recvd_signal_flags, loop, history>>

RebindFails ==
    /\ pc = "rebind"
    /\ NoSignals("failed")
    /\ UNCHANGED loop
-----------------------------------------------------------------------------
(* daemon_loop up to select. *)
ListenFds ==
    /\ pc = "fds"
    /\ semaphore_fds({LISTEN}, "shut")
    /\ UNCHANGED <<todo, i, nconnects, shutting_down, pid>>

(* check_shutmsg, and disc_children when the file is seen first. *)
disc_children ==
    IF shut = "due" /\ child_listlen > 0
    THEN child_signal(child_list, kids)
    ELSE UNCHANGED doomed

CheckShutmsg ==
    /\ pc = "shut"
    /\ shutting_down' = (shut # "none")
    /\ IF shut # "none" /\ ~shutting_down THEN disc_children
       ELSE UNCHANGED doomed
    /\ pc' = "select"
    /\ UNCHANGED <<kids, pending, blocked, shut, children, recvd_signal_flags,
                   scheds, todo, i, readfds, nconnects, pid, history>>

(* The outcomes of select: sockets are ready, nothing happened in time, or *)
(* an error, which leaves the fd_set as it was.                            *)
Select ==
    /\ pc = "select"
    /\ \/ /\ \E client \in BOOLEAN :
                readfds' = readfds \cap (AtEof \cup IF client THEN {LISTEN} ELSE {})
          /\ i' = (IF readfds' # {} THEN "ready" ELSE "none")
          /\ UNCHANGED select_failed
       \/ /\ SelectFails /\ i' = "error" /\ UNCHANGED readfds
          /\ select_failed' = TRUE
    /\ pc' = "update"
    /\ UNCHANGED <<kernel, children, recvd_signal_flags, scheds, hups, termed,
                   todo, nconnects, shutting_down, pid>>

SelectInterrupted ==
    /\ pc = "eintr"
    /\ pr_signals_handle("top")
    /\ UNCHANGED loop

(* Purge the entries of dead children. *)
UpdateIfReady ==    \* mutant: a timeout goes back to the top first
    /\ pc = "update"
    /\ IF have_dead_child /\ i # "none" THEN child_update /\ have_dead_child' = FALSE
       ELSE UNCHANGED children
    /\ pc' = (IF i = "none" THEN "top" ELSE "pipes")
    /\ UNCHANGED <<kernel, recvd_signal_flags, scheds, loop, history>>

UpdateChildren ==
    /\ pc = "update"
    /\ IF have_dead_child THEN child_update /\ have_dead_child' = FALSE
       ELSE UNCHANGED children
    /\ \/ pc' = (IF i = "none" THEN "top" ELSE "pipes")
       \/ i = "error" /\ pc' = "failed"     \* select(2) failing repeatedly
    /\ UNCHANGED <<kernel, recvd_signal_flags, scheds, loop, history>>

(* Close the pipes that signalled, and count the recent connections. *)
ClosePipes ==
    /\ pc = "pipes"
    /\ IF child_listlen > 0
       THEN /\ CloseReported
            /\ nconnects' = 1 + Cardinality({n \in Entries : child_list[n].recent})
       ELSE nconnects' = 1 /\ UNCHANGED children
    /\ pc' = "handle"
    /\ UNCHANGED <<kernel, recvd_signal_flags, scheds, todo, i, readfds,
                   shutting_down, pid, history>>

HandleSignals ==
    /\ pc = "handle"
    /\ pr_signals_handle(IF i = "error" THEN "top" ELSE "accept")
    /\ UNCHANGED loop

(* pr_ipbind_accept_conn, which handles signals for each listener. *)
Accept ==
    /\ pc = "accept"
    /\ \/ LISTEN \in readfds /\ pr_signals_handle("decide")
       \/ pr_signals_handle("top")      \* no client, or accept failed
    /\ UNCHANGED loop

(* MaxInstances and MaxConnectionRate. *)
AtLimit == MaxInstances > 0 /\ child_listlen >= MaxInstances
TooFast == MaxConnects > 0 /\ nconnects > MaxConnects

Decide ==
    /\ pc = "decide"
    /\ NoSignals(IF AtLimit \/ TooFast THEN "top" ELSE "fork")
    /\ UNCHANGED loop

(* fork_server in the parent: the signals are blocked from before the fork *)
(* until the child is recorded.                                            *)
ForkMaskTerm == {"TERM"}        \* mutant: SIGCHLD is not blocked
ForkMask == {"TERM", "CHLD"}

Fork ==
    /\ pc = "fork"
    /\ \E p \in Pids :
          /\ kids[p] = "free"
          /\ kids' = [kids EXCEPT ![p] = "new"]
          /\ pid' = p
    /\ blocked' = ForkMask
    /\ pc' = "add"
    /\ UNCHANGED <<doomed, pending, shut, children, recvd_signal_flags, scheds,
                   todo, i, readfds, nconnects, shutting_down, history>>

ForkFails ==    \* or pipe(2) does
    /\ pc = "fork"
    /\ NoSignals("top")
    /\ UNCHANGED loop

RecordChild ==
    /\ pc = "add"
    /\ child_add(pid)
    /\ blocked' = {} /\ pc' = "top"
    /\ UNCHANGED <<kids, doomed, pending, shut, recvd_signal_flags, scheds, loop,
                   history>>
-----------------------------------------------------------------------------
(* The child's half of fork_server, and the end of a session. *)
ChildClosesListeners(p) ==
    /\ kids[p] = "new"
    /\ kids' = [kids EXCEPT ![p] = "closed"]
    /\ UNCHANGED <<doomed, pending, blocked, shut, children, recvd_signal_flags,
                   scheds, pc, loop, history>>

ChildClosesPipe(p) ==
    /\ kids[p] = "closed"
    /\ kids' = [kids EXCEPT ![p] = "up"]
    /\ UNCHANGED <<doomed, pending, blocked, shut, children, recvd_signal_flags,
                   scheds, pc, loop, history>>

ChildExits(p) ==
    /\ p \in Running
    /\ kids' = [kids EXCEPT ![p] = "zombie"]
    /\ doomed' = doomed \ {p}
    /\ pending' = (pc \notin Exited)
    /\ UNCHANGED <<blocked, shut, children, recvd_signal_flags, scheds, pc, loop,
                   history>>

(* ftpshut writes the file, the time to disconnect comes, or it is removed. *)
Shutmsg ==
    /\ UseShutmsg
    /\ shut' \in {"none", "later", "due"} \ {shut}
    /\ ~(shut = "due" /\ shut' = "later")
    /\ UNCHANGED <<kids, doomed, pending, blocked, children, recvd_signal_flags,
                   scheds, pc, loop, history>>

(* More than max_connect_interval seconds pass. *)
Interval ==
    /\ MaxConnects > 0
    /\ child_list' = [n \in Entries |-> [child_list[n] EXCEPT !.recent = FALSE]]
    /\ UNCHANGED <<kernel, child_listlen, have_dead_child, recvd_signal_flags,
                   scheds, pc, loop, history>>

(* The master is gone, and nothing has to happen any more. *)
Gone == pc \in Exited /\ UNCHANGED vars

Restart == RestartFds \/ RestartTest \/ RestartSelect \/ RestartClose
Loop ==
    \/ RunSchedule \/ ScheduleDone \/ CallRestart \/ ListenFds \/ CheckShutmsg
    \/ Select \/ SelectInterrupted \/ UpdateChildren \/ ClosePipes
    \/ HandleSignals \/ Accept \/ Decide \/ RecordChild
Forking == Fork \/ ForkFails
Rebinding == Rebind \/ RebindFails
Signal == sig_child \/ sig_terminate \/ sig_alarm \/ sig_restart
ChildStarts(p) == ChildClosesListeners(p) \/ ChildClosesPipe(p)
Master == Restart \/ Loop \/ Forking \/ Rebinding

Next ==
    \/ Master \/ Signal \/ Shutmsg \/ Interval \/ Gone
    \/ \E p \in Pids : ChildStarts(p) \/ ChildExits(p)

(* The master runs, signals are delivered, children come through their     *)
(* startup, and a signal that ends a process does so.                      *)
Fairness ==
    /\ WF_vars(Master) /\ WF_vars(sig_child)
    /\ \A p \in Pids : /\ WF_vars(ChildStarts(p))
                       /\ WF_vars(p \in doomed /\ ChildExits(p))

Spec == Init /\ [][Next]_vars /\ Fairness
-----------------------------------------------------------------------------
Pcs == {"top", "sched", "restart_fds", "restart_test", "restart_select",
        "restart_close", "rebind", "fds", "shut", "select", "eintr", "update",
        "pipes", "handle", "accept", "decide", "fork", "add"} \cup Exited

(* Every variable stays within its type; no pipe has the number of the    *)
(* listening socket, and two entries with a pipe have two.                *)
TypeOK ==
    /\ kids \in [Pids -> KidStates] /\ doomed \in SUBSET Running
    /\ pending \in BOOLEAN /\ blocked \in SUBSET {"TERM", "CHLD"}
    /\ shut \in {"none", "later", "due"}
    /\ child_list \in Seq(Child)
    /\ \A m, n \in Entries : m # n /\ child_list[m].fd = child_list[n].fd
                                => child_list[m].fd = NoFd
    /\ child_listlen \in Nat /\ have_dead_child \in BOOLEAN
    /\ recvd_signal_flags \in SUBSET {"TERM", "CHLD", "HUP", "ALRM"}
    /\ scheds \in 0 .. MaxHups /\ todo \in 0 .. scheds
    /\ pc \in Pcs /\ i \in {"none", "ready", "error"}
    /\ readfds \in SUBSET Nat /\ nconnects \in Nat \ {0}
    /\ shutting_down \in BOOLEAN /\ pid \in Pids
    /\ hups \in 0 .. MaxHups /\ termed \in BOOLEAN 
    /\ select_failed \in BOOLEAN

(* child_count() is the number of session processes that were not reaped:  *)
(* no death is missed or counted twice, also when a child dies before      *)
(* fork_server recorded it or when its pid was used before.  So there are  *)
(* never more of them than MaxInstances allows.                            *)
Kids == {p \in Pids : kids[p] # "free"}

CountExact ==
    /\ blocked = {} => child_listlen = Cardinality(Kids)
    /\ MaxInstances > 0 => Cardinality(Kids) <= MaxInstances

(* restart_daemon reopens the listening sockets only when no child holds   *)
(* them any more.  (A select that fails leaves an fd_set that says nothing,*)
(* and daemon_loop takes all pipes in it for signalled.)                   *)
NoEarlyRebind ==
    pc = "rebind" /\ ~select_failed => \A p \in Pids : kids[p] # "new"

(* A master that ends on SIGTERM leaves no session process behind that was *)
(* not told to end.                                                        *)
NoOrphans == pc = "terminated" => Running \subseteq doomed

(* An entry marked dead is purged, together with its pipe, after a while:  *)
(* unless signals interrupt select time and again, after which daemon_loop *)
(* goes back to its top.                                                   *)
DeadPurged ==
    \/ []<>(pc = "eintr")
    \/ []<>(pc \in Exited \/ \A n \in Entries : ~child_list[n].dead)

(* The wait for the children within restart_daemon ends, although select   *)
(* is called there without a timeout.                                      *)
RestartEnds ==
    pc = "restart_fds" ~> pc \in Exited \cup {"rebind"}

(* A daemon that goes on to accept connections has handled every SIGTERM,  *)
(* wherever in the loop it came.                                           *)
ServingTerminates == ~(<>termed /\ []<>(pc = "accept"))
-----------------------------------------------------------------------------
(***************************************************************************)
(* The inductive invariant from which the three invariants are proved.     *)
(***************************************************************************)

(* The children the list should know: all that were forked and not reaped, *)
(* but for the one that fork_server is about to record.                    *)
Known == IF pc = "add" THEN Kids \ {pid} ELSE Kids

(* SIGCHLD waits from fork to child_add, and only then. *)
Masked ==
    /\ blocked = (IF pc = "add" THEN ForkMask ELSE {})
    /\ pc = "add" => kids[pid] # "free"

(* Each of them has an entry that is not dead.  Entries of reaped children *)
(* with the same pid are dead, and come after it: child_remove finds the   *)
(* right one.                                                              *)
Listed ==
    /\ \A n \in Entries : ~child_list[n].dead => child_list[n].pid \in Known
    /\ \A p \in Known : \E n \in Entries : /\ child_list[n].pid = p
                                          /\ ~child_list[n].dead
    /\ \A m, n \in Entries : m < n /\ child_list[m].pid = child_list[n].pid
                                  => child_list[n].dead

(* child_listlen counts them, and Decide left room for one more. *)
Counted ==
    /\ child_listlen = Cardinality(Known)
    /\ MaxInstances > 0 => /\ Cardinality(Kids) <= MaxInstances
                           /\ pc = "fork" => child_listlen < MaxInstances

(* A restart that has begun is still on the schedule, and every scheduled  *)
(* or pending one is that of a SIGHUP.                                     *)
Restarting == {"restart_fds", "restart_test", "restart_select", "restart_close",
               "rebind"}
Scheduled ==
    /\ pc \in Restarting => todo < scheds
    /\ scheds + (IF "HUP" \in recvd_signal_flags THEN 1 ELSE 0) <= hups

(* Unless a select failed: the pipe of a child that has not closed its end *)
(* is open; what select reported is at its end of file and stays so; and   *)
(* restart_daemon has put all pipes that are not into its fd_set.          *)
PipesTold ==
    ~select_failed =>
    /\ \A n \in Entries : ~Eof(child_list[n]) => child_list[n].fd # NoFd
    /\ pc \in {"update", "pipes", "restart_close"} =>
          \A n \in Entries : child_list[n].fd \in readfds => Eof(child_list[n])
    /\ pc = "restart_test" =>
          \A n \in Entries : ~Eof(child_list[n]) => child_list[n].fd \in readfds
    /\ pc = "rebind" => \A p \in Pids : kids[p] \notin {"new", "closed"}

IInv ==
    TypeOK /\ Masked /\ Listed /\ Counted /\ Scheduled /\ PipesTold /\ NoOrphans
=============================================================================
