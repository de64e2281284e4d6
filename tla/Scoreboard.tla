----------------------------- MODULE Scoreboard -----------------------------
(***************************************************************************)
(* The scoreboard file that the session processes and the daemon share     *)
(* (src/scoreboard.c), and the limits that mod_auth enforces by counting   *)
(* its entries (auth_scan_scoreboard and auth_count_scoreboard of          *)
(* modules/mod_auth.c).                                                    *)
(*                                                                         *)
(* The file is a header, left out here, followed by slots of one entry     *)
(* each.  Its mutex is an fcntl lock on a second file, which the kernel    *)
(* releases when its holder dies.  wlock_entry passes F_UNLCK to fcntl, so *)
(* no entry is ever locked and an update only writes the slot; what is     *)
(* left of the struct flock entry_lock is l_start, the offset write_entry  *)
(* writes to.                                                              *)
(***************************************************************************)
EXTENDS Integers, Sequences, FiniteSets

CONSTANTS
    Pids,           \* process ids of sessions, reused by the kernel
    Master,         \* the standalone daemon
    Hosts, Users,   \* the clients' addresses and login names
    LongUsers,      \* names that do not fit into sce_user
    NULL,
    Standalone,     \* ServerType standalone, or inetd
    Confs           \* the configurations and environments to look at

Limits == {"MaxConnectionsPerHost", "MaxClientsPerHost", "MaxClientsPerUser",
           "MaxClients", "MaxHostsPerUser"}
Switches == {"Scrub", "Hosting", "LockFails", "Crashes"}

ASSUME ScoreboardAssumption ==
    /\ IsFiniteSet(Pids) /\ Master \notin Pids
    /\ LongUsers \subseteq Users
    /\ NULL \notin Pids \cup {Master} \cup Hosts \cup Users
    /\ Standalone \in BOOLEAN
    /\ \A c \in Confs :
          /\ DOMAIN c = Limits \cup Switches \cup {"MaxStarts", "From"}
          /\ c.From \subseteq Hosts
          /\ \A l \in Limits \cup {"MaxStarts"} : c[l] \in Nat
          /\ \A w \in Switches : c[w] \in BOOLEAN

VARIABLES
    file,       \* the slots of the scoreboard file
    writer,     \* the process with the write lock on the mutex file, or NULL
    readers,    \* the processes with a read lock on it
    pc,         \* where each process is
    host,       \* the address of each session's client
    user,       \* the name it logged in with
    have_entry,
    l_start,    \* entry_lock.l_start, as a slot number
    entry,      \* each process's copy of its own entry
    pos,        \* the slot at the offset of the descriptor being read
    seen,       \* the entries pr_scoreboard_entry_read returned in this scan
    starts,     \* sessions started so far
    conf        \* the configuration, which stays as it is

locks == <<writer, readers>>
private == <<host, user, have_entry, l_start, entry>>
fixed == <<starts, conf>>
vars == <<file, locks, pc, private, pos, seen, fixed>>

MaxConnectionsPerHost == conf.MaxConnectionsPerHost     \* 0: not configured
MaxClientsPerHost == conf.MaxClientsPerHost
MaxClientsPerUser == conf.MaxClientsPerUser
MaxClients == conf.MaxClients
MaxHostsPerUser == conf.MaxHostsPerUser
Scrub == conf.Scrub             \* ScoreboardScrub on
Hosting == conf.Hosting         \* clients may send HOST
LockFails == conf.LockFails     \* the attempts to take the mutex may be used up
Crashes == conf.Crashes         \* sessions may die without cleaning up
MaxStarts == conf.MaxStarts     \* bound: how many sessions are started
From == conf.From               \* the hosts that clients connect from

Procs == Pids \cup {Master}
None == "(none)"        \* sce_user until the client has logged in
Truncated == "trunc"    \* what is left of a name of LongUsers

Entries ==
    [sce_pid : Pids \cup {NULL},
     sce_user : Users \cup {None, Truncated, NULL},
     sce_client_addr : Hosts \cup {NULL}]
Free == [sce_pid |-> NULL, sce_user |-> NULL, sce_client_addr |-> NULL]

Steps == {"dead", "other", "add", "adding", "write", "announce", "scan",
          "scanning", "scrub", "scrubbing", "erase", "idle", "count",
          "counting", "in", "refused", "del", "zero"}

Init ==
    /\ conf \in Confs
    /\ file = <<>>
    /\ writer = NULL /\ readers = {}
    /\ pc = [p \in Procs |->
                IF p = Master /\ Standalone /\ Scrub THEN "scrub" ELSE "dead"]
    /\ host = [p \in Procs |-> NULL]
    /\ user = [p \in Procs |-> NULL]
    /\ have_entry = [p \in Procs |-> FALSE]
    /\ l_start = [p \in Procs |-> 0]
    /\ entry = [p \in Procs |-> Free]
    /\ pos = [p \in Procs |-> 1]
    /\ seen = [p \in Procs |-> {}]
    /\ starts = 0

Goto(p, step) == pc' = [pc EXCEPT ![p] = step]
Rewind(p) == pos' = [pos EXCEPT ![p] = 1] /\ seen' = [seen EXCEPT ![p] = {}]

-----------------------------------------------------------------------------
(***************************************************************************)
(* The mutex.  pr_lock_scoreboard tries F_SETLK ten times, a few           *)
(* milliseconds apart: a caller gets the lock at a moment when nobody has  *)
(* a conflicting one, or gives up while somebody has.                      *)
(***************************************************************************)
Blocked(p, conflicts) == conflicts \ {p, NULL} # {}

wlock_scoreboard(p) ==
    /\ ~Blocked(p, readers \cup {writer})
    /\ writer' = p
    /\ UNCHANGED readers

wlock_fails(p) ==
    /\ LockFails
    /\ Blocked(p, readers \cup {writer})
    /\ UNCHANGED locks

rlock_scoreboard(p) ==
    /\ ~Blocked(p, {writer})
    /\ readers' = readers \cup {p}
    /\ UNCHANGED writer

rlock_fails(p) ==
    /\ LockFails
    /\ Blocked(p, {writer})
    /\ UNCHANGED locks

unlock_scoreboard(p) ==
    /\ writer' = IF writer = p THEN NULL ELSE writer
    /\ readers' = readers \ {p}

(* pwrite(2) at l_start, which is at most the end of the file. *)
write_entry(p, e) ==
    file' = IF l_start[p] > Len(file) THEN Append(file, e)
            ELSE [file EXCEPT ![l_start[p]] = e]

-----------------------------------------------------------------------------
(***************************************************************************)
(* A session begins, by a fork of the daemon or of inetd: auth_sess_init   *)
(* opens the scoreboard and adds its entry.  A failure to add it is only   *)
(* logged.                                                                 *)
(***************************************************************************)
Start(p, h) ==
    /\ pc[p] = "dead" /\ starts < MaxStarts
    /\ starts' = starts + 1
    /\ Goto(p, "add")
    /\ host' = [host EXCEPT ![p] = h]
    /\ UNCHANGED <<file, locks, user, have_entry, l_start, entry, pos, seen,
                   conf>>

AddLock(p) ==
    /\ pc[p] = "add"
    /\ wlock_scoreboard(p)
    /\ Goto(p, "adding")
    /\ UNCHANGED <<file, private, pos, seen, fixed>>

(* Mutant: an add that goes on without the mutex. *)
AddUnlocked(p) ==
    /\ pc[p] = "add"
    /\ wlock_fails(p)
    /\ Goto(p, "adding")
    /\ UNCHANGED <<file, private, pos, seen, fixed>>

AddFails(p) ==
    /\ pc[p] = "add"
    /\ wlock_fails(p)
    /\ Goto(p, "announce")
    /\ UNCHANGED <<file, private, pos, seen, fixed>>

(* A slot that is in use is skipped; a free one, or the end, is taken. *)
Usable(i) == i > Len(file) \/ file[i].sce_pid = NULL

AddRead(p) ==
    /\ pc[p] = "adding"
    /\ IF Usable(pos[p])
       THEN /\ l_start' = [l_start EXCEPT ![p] = pos[p]]
            /\ Goto(p, "write")
            /\ UNCHANGED pos
       ELSE /\ pos' = [pos EXCEPT ![p] = @ + 1]
            /\ UNCHANGED <<pc, l_start>>
    /\ UNCHANGED <<file, locks, host, user, have_entry, entry, seen, fixed>>

AddWrite(p) ==
    /\ pc[p] = "write"
    /\ entry' = [entry EXCEPT ![p] = [Free EXCEPT !.sce_pid = p]]
    /\ write_entry(p, entry'[p])
    /\ have_entry' = [have_entry EXCEPT ![p] = TRUE]
    /\ unlock_scoreboard(p)
    /\ Goto(p, "announce")
    /\ UNCHANGED <<host, user, l_start, pos, seen, fixed>>

(***************************************************************************)
(* pr_scoreboard_entry_update changes fields of the process's copy and     *)
(* writes the whole of it.  It takes no lock, and a session without an     *)
(* entry is left alone.                                                    *)
(***************************************************************************)
pr_scoreboard_entry_update(p, e) ==
    IF have_entry[p]
    THEN /\ entry' = [entry EXCEPT ![p] = e]
         /\ write_entry(p, e)
    ELSE UNCHANGED <<entry, file>>

sce_user(u) == IF u \in LongUsers THEN Truncated ELSE u

(* The rest of auth_sess_init up to the scan; after HOST only the server's *)
(* label is updated, which leaves these fields as they are.                *)
Announce(p) ==
    /\ pc[p] = "announce"
    /\ pr_scoreboard_entry_update(p,
            [entry[p] EXCEPT !.sce_user = None, !.sce_client_addr = host[p]])
    /\ Goto(p, "scan")
    /\ Rewind(p)
    /\ UNCHANGED <<locks, host, user, have_entry, l_start, fixed>>

(***************************************************************************)
(* pr_scoreboard_entry_read, called for as long as it returns an entry:    *)
(* each call takes the read lock, reads on to the next slot in use and     *)
(* unlocks.  It returns NULL at the end of the file, and when it cannot    *)
(* take the lock.                                                          *)
(***************************************************************************)
ScanStep(step) == CASE step = "scan" -> "scanning" [] step = "count" -> "counting"

ReadLock(p) ==
    /\ pc[p] \in {"scan", "count"}
    /\ rlock_scoreboard(p)
    /\ Goto(p, ScanStep(pc[p]))
    /\ UNCHANGED <<file, private, pos, seen, fixed>>

InUse(i) == {j \in i .. Len(file) : file[j].sce_pid # NULL}

(* The first slot in use from pos on, or one past the end of the file. *)
NextSlot(p) ==
    IF InUse(pos[p]) = {} THEN Len(file) + 1
    ELSE CHOOSE j \in InUse(pos[p]) : \A k \in InUse(pos[p]) : j <= k

ReadEntry(p, next) ==
    /\ pc[p] = ScanStep(next)
    /\ NextSlot(p) <= Len(file)
    /\ seen' = [seen EXCEPT ![p] = @ \cup {<<NextSlot(p), file[NextSlot(p)]>>}]
    /\ pos' = [pos EXCEPT ![p] = NextSlot(p) + 1]
    /\ unlock_scoreboard(p)
    /\ Goto(p, next)
    /\ UNCHANGED <<file, private, fixed>>

(* The call that returns NULL ends the scan. *)
ScanEnds(p, step) ==
    \/ /\ pc[p] = ScanStep(step)
       /\ NextSlot(p) > Len(file)
       /\ unlock_scoreboard(p)
    \/ /\ pc[p] = step
       /\ rlock_fails(p)

(* What mod_auth counts are entries that it read.  One without addresses   *)
(* is not one of this server's.                                            *)
ThisServer(p) == {s \in seen[p] : s[2].sce_client_addr # NULL}
Authenticated(p) == {s \in ThisServer(p) : s[2].sce_user # None}
SameHost(p) == {s \in ThisServer(p) : s[2].sce_client_addr = host[p]}
SameUser(p) == {s \in Authenticated(p) : s[2].sce_user = user[p]}
Exceeds(n, max) == max # 0 /\ n > max

TooManyConnections(p) ==
    Exceeds(Cardinality(SameHost(p)), MaxConnectionsPerHost)

(* A session that is within its limits goes on; one that is not is         *)
(* disconnected.                                                           *)
Decide(p, refuse, next) ==
    /\ Goto(p, IF refuse THEN "refused" ELSE next)
    /\ IF refuse THEN UNCHANGED <<pos, seen>> ELSE Rewind(p)
    /\ UNCHANGED <<file, private, fixed>>

(* After auth_sess_init comes core_sess_init, where inetd sessions scrub. *)
auth_scan_scoreboard(p) ==
    /\ ScanEnds(p, "scan")
    /\ Decide(p, TooManyConnections(p),
              IF ~Standalone /\ Scrub THEN "scrub" ELSE "idle")

(* The client sends HOST and the server changes: auth_sess_init and        *)
(* core_sess_init run again.                                               *)
Host(p) ==
    /\ Hosting
    /\ pc[p] = "idle"
    /\ Goto(p, "announce")
    /\ UNCHANGED <<file, locks, private, pos, seen, fixed>>

(***************************************************************************)
(* The client logs in: setup_env writes the name into the entry, and       *)
(* auth_post_pass counts the entries, its own among them.                  *)
(***************************************************************************)
have_client_limits ==
    {MaxClientsPerHost, MaxClientsPerUser, MaxClients, MaxHostsPerUser} # {0}

(* Mutant: the client is announced only after it was counted. *)
LoginUnannounced(p, u) ==
    /\ pc[p] = "idle"
    /\ user' = [user EXCEPT ![p] = u]
    /\ Rewind(p)
    /\ Goto(p, IF have_client_limits THEN "count" ELSE "in")
    /\ UNCHANGED <<file, locks, host, have_entry, l_start, entry, fixed>>

Login(p, u) ==
    /\ pc[p] = "idle"
    /\ pr_scoreboard_entry_update(p, [entry[p] EXCEPT !.sce_user = sce_user(u)])
    /\ user' = [user EXCEPT ![p] = u]
    /\ Rewind(p)
    /\ Goto(p, IF have_client_limits THEN "count" ELSE "in")
    /\ UNCHANGED <<locks, host, have_entry, l_start, fixed>>

cur(p) == Cardinality(Authenticated(p))
hcur(p) == Cardinality(Authenticated(p) \cap SameHost(p))
usersessions(p) == Cardinality(SameUser(p))
hostsperuser(p) == 1 + Cardinality(SameUser(p) \ SameHost(p))

OverLimit(p) ==
    \/ Exceeds(hcur(p), MaxClientsPerHost)
    \/ Exceeds(usersessions(p), MaxClientsPerUser)
    \/ Exceeds(cur(p), MaxClients)
    \/ Exceeds(hostsperuser(p), MaxHostsPerUser)

auth_count_scoreboard(p) ==
    /\ ScanEnds(p, "count")
    /\ Decide(p, OverLimit(p), "in")

(* A command of a session updates its entry: the working directory, the    *)
(* command, the bytes transferred, none of which the limits look at.       *)
Update(p) ==
    /\ pc[p] \in {"idle", "in"}
    /\ pr_scoreboard_entry_update(p, entry[p])
    /\ UNCHANGED <<locks, pc, host, user, have_entry, l_start, pos, seen, fixed>>

(***************************************************************************)
(* The end of a session, because its client leaves or at a SIGTERM, which  *)
(* pr_signals_handle acts on wherever it is called: sess_cleanup deletes   *)
(* the entry.  A mutex it cannot take does not keep it from writing.       *)
(***************************************************************************)
SignalsHandled ==
    {"add", "announce", "scan", "scrub", "scrubbing", "idle", "count", "in"}

(* The process is gone, and the locks it had with it. *)
Exit(p) ==
    /\ Goto(p, "dead")
    /\ unlock_scoreboard(p)
    /\ host' = [host EXCEPT ![p] = NULL]
    /\ user' = [user EXCEPT ![p] = NULL]
    /\ have_entry' = [have_entry EXCEPT ![p] = FALSE]
    /\ l_start' = [l_start EXCEPT ![p] = 0]
    /\ entry' = [entry EXCEPT ![p] = Free]
    /\ Rewind(p)
    /\ UNCHANGED fixed

pr_session_end(p, at) ==
    /\ pc[p] \in at
    /\ UNCHANGED file
    /\ IF have_entry[p]
       THEN Goto(p, "del") /\ UNCHANGED <<locks, private, pos, seen, fixed>>
       ELSE Exit(p)

(* Mutant: a session that cannot take the mutex leaves its entry behind. *)
DelGivesUp(p) ==
    /\ pc[p] = "del"
    /\ \/ /\ wlock_scoreboard(p)
          /\ entry' = [entry EXCEPT ![p] = Free]
          /\ Goto(p, "zero")
          /\ UNCHANGED <<file, host, user, have_entry, l_start, pos, seen, fixed>>
       \/ wlock_fails(p) /\ Exit(p) /\ UNCHANGED file

DelLock(p) ==
    /\ pc[p] = "del"
    /\ wlock_scoreboard(p) \/ wlock_fails(p)
    /\ entry' = [entry EXCEPT ![p] = Free]
    /\ Goto(p, "zero")
    /\ UNCHANGED <<file, host, user, have_entry, l_start, pos, seen, fixed>>

DelWrite(p) ==
    /\ pc[p] = "zero"
    /\ write_entry(p, entry[p])
    /\ Exit(p)

(* kill -9, or any other end without cleanup. *)
Crash(p) ==
    /\ Crashes
    /\ pc[p] \notin {"dead", "other"}
    /\ Exit(p)
    /\ UNCHANGED file

(* A process that has nothing to do with proftpd gets the process id. *)
OtherStart(p) ==
    /\ Crashes
    /\ pc[p] = "dead"
    /\ Goto(p, "other")
    /\ UNCHANGED <<file, locks, private, pos, seen, fixed>>

OtherExit(p) ==
    /\ pc[p] = "other"
    /\ Goto(p, "dead")
    /\ UNCHANGED <<file, locks, private, pos, seen, fixed>>

-----------------------------------------------------------------------------
(***************************************************************************)
(* pr_scoreboard_scrub, called by a timer of the standalone daemon and by  *)
(* the sessions of inetd.  It holds the mutex, and uses entry_lock.l_start *)
(* for the slot it is at.                                                  *)
(***************************************************************************)
AfterScrub(p) == IF p = Master THEN "scrub" ELSE "idle"

ScrubLock(p) ==
    /\ pc[p] = "scrub"
    /\ wlock_scoreboard(p)
    /\ l_start' = [l_start EXCEPT ![p] = 1]
    /\ Goto(p, "scrubbing")
    /\ UNCHANGED <<file, host, user, have_entry, entry, pos, seen, fixed>>

ScrubFails(p) ==
    /\ pc[p] = "scrub"
    /\ wlock_fails(p)
    /\ Goto(p, AfterScrub(p))
    /\ UNCHANGED <<file, private, pos, seen, fixed>>

(* kill(pid, 0) finds a process, and a standalone daemon finds it in its   *)
(* own process group.                                                      *)
(* Mutant: any process will do. *)
valid_pid_any_group(p) == pc[p] # "dead"
scoreboard_valid_pid(p) == pc[p] # "dead" /\ (Standalone => pc[p] # "other")

ScrubRead(p) ==
    /\ pc[p] = "scrubbing" /\ l_start[p] <= Len(file)
    /\ LET pid == file[l_start[p]].sce_pid
       IN  IF pid # NULL /\ ~scoreboard_valid_pid(pid)
           THEN Goto(p, "erase") /\ UNCHANGED l_start
           ELSE l_start' = [l_start EXCEPT ![p] = @ + 1] /\ UNCHANGED pc
    /\ UNCHANGED <<file, locks, host, user, have_entry, entry, pos, seen, fixed>>

ScrubErase(p) ==
    /\ pc[p] = "erase"
    /\ file' = [file EXCEPT ![l_start[p]] = Free]
    /\ l_start' = [l_start EXCEPT ![p] = @ + 1]
    /\ Goto(p, "scrubbing")
    /\ UNCHANGED <<locks, host, user, have_entry, entry, pos, seen, fixed>>

ScrubEnds(p) ==
    /\ pc[p] = "scrubbing" /\ l_start[p] > Len(file)
    /\ unlock_scoreboard(p)
    /\ Goto(p, AfterScrub(p))
    /\ UNCHANGED <<file, private, pos, seen, fixed>>

-----------------------------------------------------------------------------
(* What a process does by itself once it has begun. *)
Work(p) ==
    \/ AddLock(p) \/ AddFails(p) \/ AddRead(p) \/ AddWrite(p)
    \/ Announce(p)
    \/ ReadLock(p)
    \/ \E next \in {"scan", "count"} : ReadEntry(p, next)
    \/ auth_scan_scoreboard(p) \/ auth_count_scoreboard(p)
    \/ pr_session_end(p, {"refused"}) \/ DelLock(p) \/ DelWrite(p)
    \/ ScrubLock(p) \/ ScrubFails(p) \/ ScrubRead(p) \/ ScrubErase(p)
    \/ ScrubEnds(p)

(* What its client, the administrator or the kernel makes it do. *)
Environment(p) ==
    \/ \E h \in From : Start(p, h)
    \/ Host(p)
    \/ \E u \in Users : Login(p, u)
    \/ Update(p)
    \/ pr_session_end(p, SignalsHandled)
    \/ Crash(p)
    \/ OtherStart(p) \/ OtherExit(p)

Next ==
    \/ \E p \in Procs : Work(p)
    \/ \E p \in Pids : Environment(p)

Fairness == \A p \in Procs : WF_vars(Work(p))

Spec == Init /\ [][Next]_vars /\ Fairness

-----------------------------------------------------------------------------
(* The type invariant: the mutex has one writer or some readers, and a     *)
(* process never writes behind the end of the file.                        *)
TypeOK ==
    /\ file \in Seq(Entries)
    /\ writer \in Procs \cup {NULL} /\ readers \subseteq Procs
    /\ writer # NULL => readers = {}
    /\ pc \in [Procs -> Steps]
    /\ host \in [Procs -> Hosts \cup {NULL}]
    /\ user \in [Procs -> Users \cup {NULL}]
    /\ have_entry \in [Procs -> BOOLEAN]
    /\ entry \in [Procs -> Entries]
    /\ l_start \in [Procs -> 0 .. Len(file) + 1]
    /\ pos \in [Procs -> 1 .. Len(file) + 1]
    /\ seen \in [Procs -> SUBSET ((1 .. Len(file)) \X Entries)]
    /\ conf \in Confs /\ starts \in 0 .. MaxStarts

Listed(p) == \E i \in 1 .. Len(file) : file[i].sce_pid = p

(* Every session that has an entry finds it in its own slot, as it wrote   *)
(* it last: no other session was given the slot (pr_scoreboard_entry_add), *)
(* the scrubber did not take its owner for dead (pr_scoreboard_scrub), and *)
(* nobody wrote over it.  A session in "zero" is about to erase it.        *)
OwnSlot ==
    \A p \in Pids : have_entry[p] =>
        /\ l_start[p] \in 1 .. Len(file)
        /\ file[l_start[p]].sce_pid = p
        /\ pc[p] # "zero" => file[l_start[p]] = entry[p]

(* Where sessions do not crash, a slot in use belongs to a running         *)
(* session: pr_scoreboard_entry_del, called by sess_cleanup, always clears *)
(* what a session that ends has in the file.                               *)
NoLeftovers ==
    ~Crashes => \A i \in 1 .. Len(file) :
        file[i].sce_pid # NULL => have_entry[file[i].sce_pid]

(* The sessions that passed auth_count_scoreboard and still run. *)
LoggedIn == {p \in Pids : pc[p] = "in"}

(* Those that passed auth_scan_scoreboard. *)
Connected == {p \in Pids : pc[p] \in {"idle", "count", "counting", "in"}}

Within(n, max) == max = 0 \/ n <= max

(* The limits of mod_auth hold at all times: MaxClients for all clients    *)
(* logged in, MaxClientsPerHost, MaxClientsPerUser and MaxHostsPerUser for *)
(* those of each host and user, and MaxConnectionsPerHost for the sessions *)
(* that auth_scan_scoreboard let pass, logged in or not.  Sessions that    *)
(* come at the same time announce themselves before they count, so the     *)
(* last of them sees all.  (This takes that all of them get the lock:      *)
(* LockFails is FALSE.)                                                    *)
WithinLimits ==
    /\ Within(Cardinality(LoggedIn), MaxClients)
    /\ \A h \in Hosts :
           LET its == {p \in Pids : host[p] = h}
           IN  /\ Within(Cardinality(its \cap LoggedIn), MaxClientsPerHost)
               /\ Within(Cardinality(its \cap Connected), MaxConnectionsPerHost)
    /\ \A u \in Users :
           LET its == {p \in LoggedIn : user[p] = u}
           IN  /\ Within(Cardinality(its), MaxClientsPerUser)
               /\ Within(Cardinality({host[p] : p \in its}), MaxHostsPerUser)

(* The entry of a process that died without deleting it is removed by the  *)
(* scrubber of the daemon, unless a new session gets its process id.       *)
(* (Clients that send HOST for ever could keep a read lock whenever the    *)
(* daemon tries, which pr_lock_scoreboard does not wait for.)              *)
StaleScrubbed ==
    \A p \in Pids :
        Listed(p) /\ pc[p] = "dead" /\ ~Hosting
            ~> ~Listed(p) \/ pc[p] \notin {"dead", "other"}
-----------------------------------------------------------------------------
(***************************************************************************)
(* What the documentation or a comment says and the code does not keep;    *)
(* README.md has the behaviours that show it.                              *)
(***************************************************************************)

(* A session that has an entry is in the file: nobody wrote over it.       *)
EntryKept == \A p \in Pids : have_entry[p] /\ pc[p] # "zero" => Listed(p)

(* Where MaxHostsPerUser is the only limit: a client that was refused came *)
(* from one host too many, as the comment "Count up unique hosts" of       *)
(* auth_count_scoreboard has it.                                           *)
RefusedForHosts ==
    \A p \in Pids : pc[p] = "refused" =>
        Cardinality({host[p]} \cup
                    {s[2].sce_client_addr : s \in
                        {t \in seen[p] : t[2].sce_user = user[p]}})
            > MaxHostsPerUser

(* Where MaxClients is the only limit: of the clients counted when one is  *)
(* refused, MaxClients are logged in, or one of them has left since.       *)
RefusedWhenFull ==
    [][\A p \in Pids : pc[p] # "refused" /\ pc'[p] = "refused" =>
           LET others == {s[2].sce_pid : s \in seen[p]} \ {p}
           IN  \/ Cardinality(others \cap LoggedIn) >= MaxClients
               \/ \E q \in others : pc[q] \in {"dead", "other", "del", "zero"}
      ]_vars
-----------------------------------------------------------------------------
(***************************************************************************)
(* The inductive invariant behind OwnSlot and NoLeftovers, for the case    *)
(* that no session scrubs: pr_scoreboard_scrub is called by the daemon or  *)
(* not at all.                                                             *)
(***************************************************************************)
DaemonScrubs == Standalone \/ \A c \in Confs : ~c.Scrub

(* Who is between lock and unlock has the lock.  A process that deletes    *)
(* its entry may have it.                                                  *)
Exclusive == {"adding", "write", "scrubbing", "erase"}
Mutex ==
    /\ readers = {p \in Procs : pc[p] \in {"scanning", "counting"}}
    /\ \A p \in Procs : pc[p] \in Exclusive => writer = p
    /\ writer # NULL => pc[writer] \in Exclusive \cup {"zero"}

(* How far a process has come, by its place: the daemon only scrubs, and a *)
(* session has an entry after it was added and until it is zeroed.         *)
Stages ==
    /\ pc[Master] \in {"dead", "scrub", "scrubbing", "erase"}
    /\ ~have_entry[Master]
    /\ \A p \in Pids :
          /\ pc[p] \notin {"scrub", "scrubbing", "erase"}
          /\ pc[p] \in {"del", "zero"} => have_entry[p]
          /\ pc[p] \in {"dead", "other", "add", "adding", "write"}
                => ~have_entry[p]
          /\ pc[p] = "zero" => entry[p] = Free

(* The slot that is about to be taken is free, and stays so while others   *)
(* update theirs; the slot about to be erased is of a process that had no  *)
(* entry when it was looked at, and cannot add one before the unlock.      *)
Aims ==
    /\ \A p \in Pids :
          pc[p] = "write" => l_start[p] >= 1 /\ Usable(l_start[p])
    /\ pc[Master] \in {"scrubbing", "erase"} => l_start[Master] >= 1
    /\ pc[Master] = "erase" =>
          /\ l_start[Master] <= Len(file)
          /\ file[l_start[Master]].sce_pid \in Pids
          /\ ~have_entry[file[l_start[Master]].sce_pid]

(* Where sessions do not crash, each slot in use is the slot of its owner, *)
(* so that clearing that one leaves nothing behind.                        *)
OneSlot ==
    ~Crashes => \A i \in 1 .. Len(file) :
        file[i].sce_pid # NULL =>
            have_entry[file[i].sce_pid] /\ l_start[file[i].sce_pid] = i

IInv == TypeOK /\ Mutex /\ Stages /\ Aims /\ OwnSlot /\ OneSlot

-----------------------------------------------------------------------------
(***************************************************************************)
(* The invariant behind WithinLimits, for names that sce_user can hold and *)
(* for sessions that get the mutex.  What a session reads of the others    *)
(* may be out of date when it decides; but of any two sessions the one     *)
(* that announced itself later has seen the other.  The order in which     *)
(* they did so is not in the state, so the invariant says that there is    *)
(* one: a rank for each session, larger for a later one.                   *)
(***************************************************************************)
AllCounted ==
    /\ DaemonScrubs /\ \A c \in Confs : ~c.LockFails
    /\ LongUsers = {} /\ None \notin Users

CountedSteps == {"count", "counting", "in"}
PresentSteps == {"scan", "scanning", "idle", "count", "counting", "in"}

(* Every session has an entry once it is announced, and what the others    *)
(* count is in it.                                                         *)
Entered ==
    \A p \in Pids :
        /\ pc[p] \notin {"dead", "other", "add", "adding", "write"}
              => have_entry[p]
        /\ pc[p] \notin {"dead", "other"} => host[p] \in Hosts
        /\ pc[p] \in PresentSteps => entry[p].sce_client_addr = host[p]
        /\ pc[p] \in CountedSteps =>
              user[p] \in Users /\ entry[p].sce_user = user[p]
        /\ IsFiniteSet(seen[p])

(* The scan of p has come upon q, as it is.                                *)
Saw(p, q) ==
    \E s \in seen[p] : s[1] = l_start[q] /\ s[2].sce_client_addr = host[q]
SawUser(p, q) ==
    \E s \in seen[p] : /\ s[1] = l_start[q] /\ s[2].sce_client_addr = host[q]
                       /\ s[2].sce_user = user[q]

(* Those in certain steps that are not later than p.                       *)
NotLater(rank, steps, p) ==
    {q \in Pids : pc[q] \in steps /\ rank[q] <= rank[p]}

Ranks(rank) ==
    rank \in [Pids -> Nat] /\ \E n \in Nat : \A p \in Pids : rank[p] < n

(* Those before p, of all, of its host and of its user, are within the     *)
(* limits that auth_count_scoreboard and auth_scan_scoreboard enforce.     *)
CountFits(rank, p) ==
    LET others == NotLater(rank, CountedSteps, p)
        same_host == {q \in others : host[q] = host[p]}
        same_user == {q \in others : user[q] = user[p]}
    IN  /\ Within(Cardinality(others), MaxClients)
        /\ Within(Cardinality(same_host), MaxClientsPerHost)
        /\ Within(Cardinality(same_user), MaxClientsPerUser)
        /\ Within(Cardinality({host[q] : q \in same_user}), MaxHostsPerUser)

ScanFits(rank, p) ==
    LET others == NotLater(rank, PresentSteps, p)
    IN  Within(Cardinality({q \in others : host[q] = host[p]}),
               MaxConnectionsPerHost)

(* A session that counts has seen everybody before it whose slot it has    *)
(* passed, and they fit when it is logged in.                              *)
CountOrder(rank) ==
    /\ Ranks(rank)
    /\ \A p \in Pids : pc[p] \in {"count", "counting"} =>
          \A q \in NotLater(rank, CountedSteps, p) :
              l_start[q] < pos[p] => SawUser(p, q)
    /\ \A p \in LoggedIn : CountFits(rank, p)

(* The same for the scan at the beginning.                                 *)
ScanOrder(rank) ==
    /\ Ranks(rank)
    /\ \A p \in Pids : pc[p] \in {"scan", "scanning"} =>
          \A q \in NotLater(rank, PresentSteps, p) :
              l_start[q] < pos[p] => Saw(p, q)
    /\ \A p \in Connected : ScanFits(rank, p)

LimitInv ==
    /\ Entered
    /\ \E rank \in [Pids -> Nat] : CountOrder(rank)
    /\ \E rank \in [Pids -> Nat] : ScanOrder(rank)
=============================================================================
