-------------------------- MODULE ScoreboardProofs --------------------------
(***************************************************************************)
(* Proofs about Scoreboard, for any number of session processes, hosts and *)
(* users and for every configuration in which no session scrubs.           *)
(***************************************************************************)
EXTENDS Scoreboard, WellFoundedInduction, FiniteSetTheorems, TLAPS

(* What pwrite(2) does to the file: slot k holds e, and it is the only     *)
(* slot that changes.                                                      *)
Rewrites(k, e) ==
    /\ file' \in Seq(Entries)
    /\ Len(file') >= Len(file)
    /\ k <= Len(file) => Len(file') = Len(file)
    /\ k <= Len(file')
    /\ file'[k] = e
    /\ \A i \in 1 .. Len(file) : i # k => file'[i] = file[i]
    /\ \A i \in 1 .. Len(file') : i = k \/ i <= Len(file)

(* pwrite(2) of write_entry at the slot of p rewrites that slot.           *)
LEMMA WriteRewrites ==
  ASSUME TypeOK, NEW p \in Procs, NEW e \in Entries, l_start[p] >= 1,
         write_entry(p, e)
  PROVE  Rewrites(l_start[p], e)
<1> PICK k : k = l_start[p]
  OBVIOUS
<1>1. file \in Seq(Entries) /\ k \in 1 .. Len(file) + 1 /\ Len(file) \in Nat
  BY DEF TypeOK
<1>2. CASE k > Len(file)
  <2>1. file' = Append(file, e) /\ k = Len(file) + 1
    BY <1>1, <1>2 DEF write_entry
  <2> QED BY <1>1, <2>1 DEF Rewrites
<1>3. CASE k <= Len(file)
  <2>1. file' = [file EXCEPT ![k] = e] /\ k \in 1 .. Len(file)
    BY <1>1, <1>3 DEF write_entry
  <2>2. file' \in Seq(Entries) /\ Len(file') = Len(file)
    BY <1>1, <2>1
  <2> QED BY <1>1, <2>1, <2>2 DEF Rewrites
<1> QED BY <1>1, <1>2, <1>3

(* The entries that are written are entries.                               *)
LEMMA EntryTypes ==
  /\ Free \in Entries
  /\ \A p \in Pids : [Free EXCEPT !.sce_pid = p] \in Entries
  /\ \A e \in Entries, h \in Hosts \cup {NULL} :
        [e EXCEPT !.sce_user = None, !.sce_client_addr = h] \in Entries
  /\ \A e \in Entries, u \in Users :
        [e EXCEPT !.sce_user = sce_user(u)] \in Entries
BY DEF Free, Entries, sce_user

(* The processes are told apart from each other and from no process.       *)
LEMMA Constants ==
  /\ \A p \in Pids : p # Master /\ p # NULL /\ p \in Procs
  /\ Master # NULL /\ Master \in Procs
  /\ NULL \notin Hosts \cup Users
BY ScoreboardAssumption DEF Procs

(* The invariant holds where nothing was written yet.                      *)
LEMMA InitInvariant ==
  ASSUME Init  PROVE IInv
<1>1. TypeOK
  <2>1. seen = [p \in Procs |-> {}] /\ file = <<>> /\ file \in Seq(Entries) /\ Len(file) = 0
    BY DEF Init
  <2>2. pc \in [Procs -> Steps]
    BY DEF Init, Steps
  <2>3. entry \in [Procs -> Entries]
    BY EntryTypes DEF Init
  <2>4. conf \in Confs /\ starts \in 0 .. MaxStarts
    BY ScoreboardAssumption DEF Init, MaxStarts
  <2>5. have_entry \in [Procs -> BOOLEAN]
    BY Zenon DEF Init
  <2> QED BY <2>1, <2>2, <2>3, <2>4, <2>5 DEF Init, TypeOK
<1>2. Mutex
  BY DEF Init, Mutex, Exclusive
<1>3. Stages
  BY Constants DEF Init, Stages
<1>4. Aims
  BY Constants DEF Init, Aims
<1>5. OwnSlot /\ OneSlot
  BY Constants DEF Init, OwnSlot, OneSlot
<1> QED BY <1>1, <1>2, <1>3, <1>4, <1>5 DEF IInv


(* The slot of a session that has one is a slot of the file.               *)
LEMMA SlotTypes ==
  ASSUME TypeOK
  PROVE  \A i \in 1 .. Len(file) :
            file[i] \in Entries /\ file[i].sce_pid \in Pids \cup {NULL}
<1>1. \A i \in 1 .. Len(file) : file[i] \in Entries
  BY DEF TypeOK
<1> QED BY <1>1 DEF Entries

(* Where a process is tells whether it is the daemon.                      *)
LEMMA WhoIsWhere ==
  ASSUME IInv, NEW p \in Procs
  PROVE  /\ pc[p] \in {"dead", "scrub", "scrubbing", "erase"} \/ p \in Pids
         /\ pc[p] \in {"scrub", "scrubbing", "erase"} => p = Master
BY Constants DEF IInv, Stages, Procs

(* A write lock is granted when nobody has a lock.                         *)
LEMMA WriteLockTaken ==
  ASSUME IInv, NEW p \in Procs, pc[p] \notin {"scanning", "counting"},
         wlock_scoreboard(p)
  PROVE  readers = {} /\ readers' = {} /\ writer \in {p, NULL} /\ writer' = p
<1>1. readers \subseteq Procs /\ p \notin readers /\ NULL \notin Procs
  BY Constants DEF IInv, TypeOK, Mutex, Procs
<1>2. (readers \cup {writer}) \ {p, NULL} = {}
  BY DEF wlock_scoreboard, Blocked
<1> QED BY <1>1, <1>2 DEF wlock_scoreboard

(* Where nobody else has a lock, taking the write lock keeps the lock      *)
(* exclusive.                                                              *)
LEMMA WriteLockMutex ==
  ASSUME IInv, NEW p \in Procs, pc[p] \notin {"scanning", "counting"},
         wlock_scoreboard(p), NEW step \in Exclusive \cup {"zero"}, Goto(p, step)
  PROVE  Mutex' /\ writer' \in Procs \cup {NULL} /\ readers' \subseteq Procs
         /\ (writer' # NULL => readers' = {})
<1>1. readers = {} /\ readers' = {} /\ writer \in {p, NULL} /\ writer' = p
  BY WriteLockTaken
<1>2. pc \in [Procs -> Steps] /\ pc' = [pc EXCEPT ![p] = step]
  BY DEF Goto, IInv, TypeOK
<1>3. \A q \in Procs : pc[q] \notin {"scanning", "counting"}
  BY <1>1 DEF IInv, Mutex
<1>4. \A q \in Procs : pc[q] \in Exclusive => q = p
  BY <1>1, Constants DEF IInv, Mutex, Procs
<1>5. \A q \in Procs : q # p => pc'[q] = pc[q]
  BY <1>2
<1>6. pc'[p] = step
  BY <1>2
<1>7. readers' = {q \in Procs : pc'[q] \in {"scanning", "counting"}}
  BY <1>1, <1>3, <1>5, <1>6 DEF Exclusive
<1> QED BY <1>1, <1>4, <1>5, <1>6, <1>7, Constants DEF Mutex

(* A read lock is granted when nobody has the write lock.                  *)
LEMMA ReadLockTaken ==
  ASSUME IInv, NEW p \in Procs, pc[p] \in {"scan", "count"},
         rlock_scoreboard(p)
  PROVE  writer = NULL /\ writer' = NULL /\ readers' = readers \cup {p}
<1>1. writer # p
  BY Constants DEF IInv, Mutex, Exclusive, Procs
<1>2. {writer} \ {p, NULL} = {}
  BY DEF rlock_scoreboard, Blocked
<1> QED BY <1>1, <1>2 DEF rlock_scoreboard

(* The file never becomes shorter, so what is within its bounds stays so.  *)
LEMMA FileGrows ==
  ASSUME TypeOK, file' \in Seq(Entries), Len(file') >= Len(file)
  PROVE  /\ l_start \in [Procs -> 0 .. Len(file') + 1]
         /\ pos \in [Procs -> 1 .. Len(file') + 1]
         /\ seen \in [Procs -> SUBSET ((1 .. Len(file')) \X Entries)]
<1>1. Len(file) \in Nat /\ Len(file') \in Nat
  BY DEF TypeOK
<1>2. /\ 0 .. Len(file) + 1 \subseteq 0 .. Len(file') + 1
      /\ 1 .. Len(file) + 1 \subseteq 1 .. Len(file') + 1
      /\ 1 .. Len(file) \subseteq 1 .. Len(file')
  BY <1>1
<1>3. (1 .. Len(file)) \X Entries \subseteq (1 .. Len(file')) \X Entries
  BY <1>2
<1> QED BY <1>2, <1>3 DEF TypeOK

(* A session that writes its own slot disturbs nobody.                     *)
LEMMA OwnWrite ==
  ASSUME IInv, NEW p \in Pids, have_entry[p], pc[p] # "zero",
         NEW e \in Entries, e.sce_pid = p, write_entry(p, e),
         entry' = [entry EXCEPT ![p] = e],
         UNCHANGED <<have_entry, l_start, conf>>,
         NEW step \in Steps \ {"write", "zero", "scrubbing", "erase"},
         pc' = [pc EXCEPT ![p] = step]
  PROVE  Rewrites(l_start[p], e) /\ Aims' /\ OwnSlot' /\ OneSlot'
<1>1. p \in Procs /\ p # NULL /\ TypeOK
  BY Constants DEF IInv
<1>2. l_start[p] \in 1 .. Len(file) /\ file[l_start[p]].sce_pid = p
  BY DEF IInv, OwnSlot
<1>3. Rewrites(l_start[p], e)
  BY <1>1, <1>2, WriteRewrites
<1>4. \A q \in Procs : q # p => pc'[q] = pc[q] /\ entry'[q] = entry[q]
  BY <1>1 DEF TypeOK
<1>5. pc'[p] = step /\ entry'[p] = e
  BY <1>1 DEF TypeOK
<1>6. Len(file') = Len(file) /\ Len(file) \in Nat
  BY <1>1, <1>2, <1>3 DEF Rewrites, TypeOK
<1>7. \A i \in 1 .. Len(file) : i # l_start[p] => file'[i] = file[i]
  BY <1>3 DEF Rewrites
<1>8. file'[l_start[p]] = e
  BY <1>3 DEF Rewrites
<1>9. Aims'
  <2>1. ASSUME NEW q \in Pids, pc'[q] = "write"
        PROVE  l_start[q] >= 1 /\ Usable(l_start[q])'
    <3>1. q # p /\ pc[q] = "write" /\ q \in Procs
      BY <2>1, <1>4, <1>5, Constants
    <3>2. l_start[q] >= 1 /\ Usable(l_start[q]) /\ l_start[q] \in 0 .. Len(file) + 1
      BY <3>1, <1>1 DEF IInv, Aims, TypeOK
    <3>3. l_start[q] # l_start[p]
      BY <3>2, <1>2, <1>1 DEF Usable
    <3> QED BY <3>2, <3>3, <1>6, <1>7 DEF Usable
  <2>2. pc'[Master] = pc[Master]
    BY <1>4, Constants
  <2>3. ASSUME pc[Master] = "erase"
        PROVE  /\ l_start[Master] <= Len(file)
               /\ file'[l_start[Master]].sce_pid \in Pids
               /\ ~have_entry[file'[l_start[Master]].sce_pid]
    <3>1. /\ l_start[Master] \in 1 .. Len(file)
          /\ file[l_start[Master]].sce_pid \in Pids
          /\ ~have_entry[file[l_start[Master]].sce_pid]
      BY <2>3, <1>1, Constants DEF IInv, Aims, TypeOK
    <3>2. l_start[Master] # l_start[p]
      BY <3>1, <1>2
    <3> QED BY <3>1, <3>2, <1>7
  <2> QED BY <2>1, <2>2, <2>3, <1>6 DEF IInv, Aims
<1>10. OwnSlot'
  <2> SUFFICES ASSUME NEW q \in Pids, have_entry[q]
               PROVE  /\ l_start[q] \in 1 .. Len(file')
                      /\ file'[l_start[q]].sce_pid = q
                      /\ pc'[q] # "zero" => file'[l_start[q]] = entry'[q]
    BY DEF OwnSlot
  <2>1. /\ l_start[q] \in 1 .. Len(file) /\ file[l_start[q]].sce_pid = q
        /\ pc[q] # "zero" => file[l_start[q]] = entry[q]
    BY DEF IInv, OwnSlot
  <2>2. CASE q = p
    BY <2>1, <2>2, <1>5, <1>6, <1>8
  <2>3. CASE q # p
    <3>1. l_start[q] # l_start[p]
      BY <2>1, <2>3, <1>2
    <3> QED BY <2>1, <2>3, <3>1, <1>4, <1>6, <1>7, Constants
  <2> QED BY <2>2, <2>3
<1>11. OneSlot'
  <2> SUFFICES ASSUME ~Crashes, NEW i \in 1 .. Len(file), file'[i].sce_pid # NULL
               PROVE  have_entry[file'[i].sce_pid] /\ l_start[file'[i].sce_pid] = i
    BY <1>6 DEF OneSlot, Crashes
  <2>1. CASE i = l_start[p]
    BY <2>1, <1>8
  <2>2. CASE i # l_start[p]
    BY <2>2, <1>7 DEF IInv, OneSlot
  <2> QED BY <2>1, <2>2
<1> QED BY <1>3, <1>9, <1>10, <1>11

-----------------------------------------------------------------------------
(* Every action keeps the invariant: the steps that write no slot of       *)
(* others.                                                                 *)

(* A session that starts keeps the invariant.                              *)
LEMMA StartPreserves ==
  ASSUME IInv, NEW p \in Pids, NEW h \in From, Start(p, h)
  PROVE  IInv'
<1> USE Constants DEF Start, Goto, private, fixed
<1>1. TypeOK'
  <2>1. starts' \in 0 .. MaxStarts' /\ conf' \in Confs
    BY ScoreboardAssumption DEF IInv, TypeOK, MaxStarts
  <2>2. h \in Hosts
    BY ScoreboardAssumption DEF IInv, TypeOK, From
  <2>3. pc' \in [Procs -> Steps] /\ host' \in [Procs -> Hosts \cup {NULL}]
    BY <2>2 DEF IInv, TypeOK, Steps
  <2> QED BY <2>1, <2>3, Zenon DEF IInv, TypeOK, locks
<1>2. Mutex'
  BY DEF IInv, TypeOK, Mutex, Exclusive, Stages, locks
<1>3. Stages'
  BY DEF IInv, TypeOK, Stages
<1>4. Aims'
  BY DEF IInv, TypeOK, Mutex, Exclusive, Stages, Aims, Usable
<1>5. OwnSlot'
  BY DEF IInv, TypeOK, Stages, OwnSlot
<1>6. OneSlot'
  BY SlotTypes DEF IInv, TypeOK, Stages, OwnSlot, OneSlot, Crashes
<1> QED BY <1>1, <1>2, <1>3, <1>4, <1>5, <1>6 DEF IInv

(* The lock of pr_scoreboard_entry_add keeps the invariant.                *)
LEMMA AddLockPreserves ==
  ASSUME IInv, NEW p \in Procs, AddLock(p)
  PROVE  IInv'
<1> USE Constants DEF AddLock, Goto, private, fixed
<1>1. TypeOK'
  BY WriteLockMutex DEF IInv, TypeOK, MaxStarts, Steps, Exclusive
<1>2. Mutex'
  BY WriteLockMutex DEF Exclusive
<1>3. Stages'
  BY DEF IInv, TypeOK, Stages
<1>4. Aims'
  BY DEF IInv, TypeOK, Mutex, Exclusive, Stages, Aims, Usable
<1>5. OwnSlot'
  BY DEF IInv, TypeOK, Stages, OwnSlot
<1>6. OneSlot'
  BY SlotTypes DEF IInv, TypeOK, Stages, OwnSlot, OneSlot, Crashes
<1> QED BY <1>1, <1>2, <1>3, <1>4, <1>5, <1>6 DEF IInv

(* A lock that is given up keeps the invariant.                            *)
LEMMA AddFailsPreserves ==
  ASSUME IInv, NEW p \in Procs, AddFails(p)
  PROVE  IInv'
<1> USE Constants DEF AddFails, wlock_fails, locks, Goto, private, fixed
<1>1. TypeOK'
  BY EntryTypes, ScoreboardAssumption DEF IInv, TypeOK, MaxStarts, From, Steps
<1>2. Mutex'
  BY DEF IInv, TypeOK, Mutex, Exclusive, Stages
<1>3. Stages'
  BY DEF IInv, TypeOK, Stages
<1>4. Aims'
  BY DEF IInv, TypeOK, Mutex, Exclusive, Stages, Aims, Usable
<1>5. OwnSlot'
  BY DEF IInv, TypeOK, Stages, OwnSlot
<1>6. OneSlot'
  BY SlotTypes DEF IInv, TypeOK, Stages, OwnSlot, OneSlot, Crashes
<1> QED BY <1>1, <1>2, <1>3, <1>4, <1>5, <1>6 DEF IInv

(* The search for a free slot keeps the invariant.                         *)
LEMMA AddReadPreserves ==
  ASSUME IInv, NEW p \in Procs, AddRead(p)
  PROVE  IInv'
<1> USE Constants DEF AddRead, locks, Goto, private, fixed
<1>1. TypeOK'
  <2>1. file \in Seq(Entries) /\ Len(file) \in Nat /\ pos[p] \in 1 .. Len(file) + 1
    BY DEF IInv, TypeOK
  <2>2. l_start' \in [Procs -> 0 .. Len(file) + 1]
    <3>1. l_start' = l_start \/ l_start' = [l_start EXCEPT ![p] = pos[p]]
      OBVIOUS
    <3>2. l_start \in [Procs -> 0 .. Len(file) + 1]
          /\ pos[p] \in 0 .. Len(file) + 1
      BY <2>1 DEF IInv, TypeOK
    <3> QED BY ONLY <3>1, <3>2
  <2>3. pos' \in [Procs -> 1 .. Len(file) + 1]
    <3>1. \/ pos' = pos
          \/ pos' = [pos EXCEPT ![p] = @ + 1] /\ pos[p] <= Len(file)
      BY <2>1 DEF Usable
    <3>2. pos \in [Procs -> 1 .. Len(file) + 1]
          /\ (pos[p] <= Len(file) => pos[p] + 1 \in 1 .. Len(file) + 1)
      BY <2>1 DEF IInv, TypeOK
    <3> QED BY ONLY <3>1, <3>2
  <2>4. pc' \in [Procs -> Steps]
    <3>1. pc' = pc \/ pc' = [pc EXCEPT ![p] = "write"]
      OBVIOUS
    <3>2. pc \in [Procs -> Steps] /\ "write" \in Steps
      BY DEF IInv, TypeOK, Steps
    <3> QED BY ONLY <3>1, <3>2
  <2> QED BY <2>2, <2>3, <2>4 DEF IInv, TypeOK, MaxStarts
<1>2. Mutex'
  BY DEF IInv, TypeOK, Mutex, Exclusive, Stages
<1>3. Stages'
  BY DEF IInv, TypeOK, Stages
<1>4. Aims'
  <2>1. p \in Pids /\ pos[p] \in Nat /\ pos[p] >= 1
    <3>1. pos[p] \in 1 .. Len(file) + 1
      BY DEF IInv, TypeOK
    <3>2. p \in Pids
      BY WhoIsWhere
    <3> QED BY <3>1, <3>2
  <2>2. \A q \in Procs : q # p => pc'[q] = pc[q] /\ l_start'[q] = l_start[q]
    BY DEF IInv, TypeOK
  <2>3. pc'[p] = "write" => l_start'[p] = pos[p] /\ Usable(pos[p])
    BY DEF IInv, TypeOK
  <2> QED BY <2>1, <2>2, <2>3 DEF IInv, Aims, Usable
<1>5. OwnSlot'
  BY DEF IInv, TypeOK, Stages, OwnSlot
<1>6. OneSlot'
  <2>1. ~have_entry[p] /\ \A q \in Procs : q # p => l_start'[q] = l_start[q]
    BY WhoIsWhere DEF IInv, TypeOK, Stages
  <2> QED BY <2>1, SlotTypes DEF IInv, TypeOK, OneSlot, Crashes
<1> QED BY <1>1, <1>2, <1>3, <1>4, <1>5, <1>6 DEF IInv

(* The read lock of a scan keeps the invariant.                            *)
LEMMA ReadLockPreserves ==
  ASSUME IInv, NEW p \in Procs, ReadLock(p)
  PROVE  IInv'
<1> USE Constants DEF ReadLock, ScanStep, Goto, private, fixed
<1>1. TypeOK'
  <2>1. writer' = NULL /\ readers' = readers \cup {p}
    BY ReadLockTaken
  <2> QED BY <2>1 DEF IInv, TypeOK, MaxStarts, Steps
<1>2. Mutex'
  <2>1. writer = NULL /\ writer' = NULL /\ readers' = readers \cup {p}
    BY ReadLockTaken
  <2> QED BY <2>1 DEF IInv, TypeOK, Mutex, Exclusive
<1>3. Stages'
  BY DEF IInv, TypeOK, Stages
<1>4. Aims'
  BY DEF IInv, TypeOK, Mutex, Exclusive, Stages, Aims, Usable
<1>5. OwnSlot'
  BY DEF IInv, TypeOK, Stages, OwnSlot
<1>6. OneSlot'
  BY SlotTypes DEF IInv, TypeOK, Stages, OwnSlot, OneSlot, Crashes
<1> QED BY <1>1, <1>2, <1>3, <1>4, <1>5, <1>6 DEF IInv

(* HOST keeps the invariant.                                               *)
LEMMA HostPreserves ==
  ASSUME IInv, NEW p \in Pids, Host(p)
  PROVE  IInv'
<1> USE Constants DEF Host, locks, Goto, private, fixed
<1>1. TypeOK'
  BY EntryTypes, ScoreboardAssumption DEF IInv, TypeOK, MaxStarts, From, Steps
<1>2. Mutex'
  BY DEF IInv, TypeOK, Mutex, Exclusive, Stages
<1>3. Stages'
  BY DEF IInv, TypeOK, Stages
<1>4. Aims'
  BY DEF IInv, TypeOK, Mutex, Exclusive, Stages, Aims, Usable
<1>5. OwnSlot'
  BY DEF IInv, TypeOK, Stages, OwnSlot
<1>6. OneSlot'
  BY SlotTypes DEF IInv, TypeOK, Stages, OwnSlot, OneSlot, Crashes
<1> QED BY <1>1, <1>2, <1>3, <1>4, <1>5, <1>6 DEF IInv

(* The lock of pr_scoreboard_entry_del keeps the invariant.                *)
LEMMA DelLockPreserves ==
  ASSUME IInv, NEW p \in Procs, DelLock(p)
  PROVE  IInv'
<1> USE Constants DEF DelLock, Goto, private, fixed
<1>1. TypeOK'
  <2>1. /\ writer' \in Procs \cup {NULL} /\ readers' \subseteq Procs
        /\ writer' # NULL => readers' = {}
    BY WriteLockMutex DEF wlock_fails, locks, IInv, TypeOK
  <2>2. entry' \in [Procs -> Entries]
    BY EntryTypes DEF IInv, TypeOK
  <2> QED BY <2>1, <2>2 DEF IInv, TypeOK, MaxStarts, Steps
<1>2. Mutex'
  <2>1. CASE wlock_scoreboard(p)
    BY <2>1, WriteLockMutex
  <2>2. CASE wlock_fails(p)
    BY <2>2 DEF wlock_fails, locks, IInv, TypeOK, Mutex, Exclusive
  <2> QED BY <2>1, <2>2
<1>3. Stages'
  BY WhoIsWhere DEF IInv, TypeOK, Stages
<1>4. Aims'
  BY DEF IInv, TypeOK, Mutex, Exclusive, Stages, Aims, Usable
<1>5. OwnSlot'
  BY DEF IInv, TypeOK, Stages, OwnSlot
<1>6. OneSlot'
  BY SlotTypes DEF IInv, TypeOK, Stages, OwnSlot, OneSlot, Crashes
<1> QED BY <1>1, <1>2, <1>3, <1>4, <1>5, <1>6 DEF IInv

(* A pid taken by another program keeps the invariant.                     *)
LEMMA OtherStartPreserves ==
  ASSUME IInv, NEW p \in Pids, OtherStart(p)
  PROVE  IInv'
<1> USE Constants DEF OtherStart, locks, Goto, private, fixed
<1>1. TypeOK'
  BY EntryTypes, ScoreboardAssumption DEF IInv, TypeOK, MaxStarts, From, Steps
<1>2. Mutex'
  BY DEF IInv, TypeOK, Mutex, Exclusive, Stages
<1>3. Stages'
  BY DEF IInv, TypeOK, Stages
<1>4. Aims'
  BY DEF IInv, TypeOK, Mutex, Exclusive, Stages, Aims, Usable
<1>5. OwnSlot'
  BY DEF IInv, TypeOK, Stages, OwnSlot
<1>6. OneSlot'
  BY SlotTypes DEF IInv, TypeOK, Stages, OwnSlot, OneSlot, Crashes
<1> QED BY <1>1, <1>2, <1>3, <1>4, <1>5, <1>6 DEF IInv

(* Another program that ends keeps the invariant.                          *)
LEMMA OtherExitPreserves ==
  ASSUME IInv, NEW p \in Pids, OtherExit(p)
  PROVE  IInv'
<1> USE Constants DEF OtherExit, locks, Goto, private, fixed
<1>1. TypeOK'
  BY EntryTypes, ScoreboardAssumption DEF IInv, TypeOK, MaxStarts, From, Steps
<1>2. Mutex'
  BY DEF IInv, TypeOK, Mutex, Exclusive, Stages
<1>3. Stages'
  BY DEF IInv, TypeOK, Stages
<1>4. Aims'
  BY DEF IInv, TypeOK, Mutex, Exclusive, Stages, Aims, Usable
<1>5. OwnSlot'
  BY DEF IInv, TypeOK, Stages, OwnSlot
<1>6. OneSlot'
  BY SlotTypes DEF IInv, TypeOK, Stages, OwnSlot, OneSlot, Crashes
<1> QED BY <1>1, <1>2, <1>3, <1>4, <1>5, <1>6 DEF IInv

(* The lock of pr_scoreboard_scrub keeps the invariant.                    *)
LEMMA ScrubLockPreserves ==
  ASSUME IInv, NEW p \in Procs, ScrubLock(p)
  PROVE  IInv'
<1> USE Constants DEF ScrubLock, Goto, private, fixed
<1>1. TypeOK'
  <2>1. file \in Seq(Entries) /\ 1 \in 0 .. Len(file) + 1
    BY DEF IInv, TypeOK
  <2> QED BY <2>1, WriteLockMutex DEF IInv, TypeOK, MaxStarts, Steps, Exclusive
<1>2. Mutex'
  BY WriteLockMutex DEF Exclusive
<1>3. Stages'
  BY DEF IInv, TypeOK, Stages
<1>4. Aims'
  BY DEF IInv, TypeOK, Mutex, Exclusive, Stages, Aims, Usable
<1>5. OwnSlot'
  BY DEF IInv, TypeOK, Stages, OwnSlot
<1>6. OneSlot'
  <2>1. p = Master /\ \A q \in Pids : l_start'[q] = l_start[q]
    BY WhoIsWhere DEF IInv, TypeOK
  <2> QED BY <2>1, SlotTypes DEF IInv, TypeOK, OneSlot, Crashes
<1> QED BY <1>1, <1>2, <1>3, <1>4, <1>5, <1>6 DEF IInv

(* A scrub without the lock keeps the invariant.                           *)
LEMMA ScrubFailsPreserves ==
  ASSUME IInv, NEW p \in Procs, ScrubFails(p)
  PROVE  IInv'
<1> USE Constants DEF ScrubFails, wlock_fails, locks, AfterScrub, Goto, private, fixed
<1>1. TypeOK'
  BY EntryTypes, ScoreboardAssumption DEF IInv, TypeOK, MaxStarts, From, Steps
<1>2. Mutex'
  BY DEF IInv, TypeOK, Mutex, Exclusive, Stages
<1>3. Stages'
  BY DEF IInv, TypeOK, Stages
<1>4. Aims'
  BY DEF IInv, TypeOK, Mutex, Exclusive, Stages, Aims, Usable
<1>5. OwnSlot'
  BY DEF IInv, TypeOK, Stages, OwnSlot
<1>6. OneSlot'
  BY SlotTypes DEF IInv, TypeOK, Stages, OwnSlot, OneSlot, Crashes
<1> QED BY <1>1, <1>2, <1>3, <1>4, <1>5, <1>6 DEF IInv

(* A slot that the scrub looks at keeps the invariant.                     *)
LEMMA ScrubReadPreserves ==
  ASSUME IInv, NEW p \in Procs, ScrubRead(p)
  PROVE  IInv'
<1> USE Constants DEF ScrubRead, locks, Goto, private, fixed
<1>1. TypeOK'
  <2>1. file \in Seq(Entries) /\ Len(file) \in Nat
        /\ l_start[p] + 1 \in 0 .. Len(file) + 1
    BY DEF IInv, TypeOK
  <2>2. l_start' \in [Procs -> 0 .. Len(file) + 1]
    BY <2>1 DEF IInv, TypeOK
  <2>3. pc' \in [Procs -> Steps]
    <3>1. pc' = pc \/ pc' = [pc EXCEPT ![p] = "erase"]
      OBVIOUS
    <3>2. pc \in [Procs -> Steps] /\ "erase" \in Steps
      BY DEF IInv, TypeOK, Steps
    <3> QED BY ONLY <3>1, <3>2
  <2> QED BY <2>2, <2>3 DEF IInv, TypeOK, MaxStarts
<1>2. Mutex'
  BY DEF IInv, TypeOK, Mutex, Exclusive, Stages
<1>3. Stages'
  BY DEF IInv, TypeOK, Stages
<1>4. Aims'
  <2>1. p = Master /\ file \in Seq(Entries) /\ Len(file) \in Nat
        /\ l_start[p] \in 1 .. Len(file)
    BY WhoIsWhere DEF IInv, TypeOK, Aims
  <2>2. \A q \in Pids : l_start'[q] = l_start[q] /\ pc'[q] = pc[q]
    BY <2>1 DEF IInv, TypeOK
  <2>3. l_start'[p] \in {l_start[p], l_start[p] + 1}
    BY DEF IInv, TypeOK
  <2>4. ASSUME pc'[p] = "erase"
        PROVE  /\ l_start'[p] = l_start[p] /\ file[l_start[p]].sce_pid \in Pids
               /\ ~have_entry[file[l_start[p]].sce_pid]
    <3>1. /\ file[l_start[p]].sce_pid # NULL
          /\ pc[file[l_start[p]].sce_pid] \in {"dead", "other"}
          /\ l_start' = l_start
      BY <2>4 DEF scoreboard_valid_pid, IInv, TypeOK
    <3>2. file[l_start[p]].sce_pid \in Pids
      BY <3>1, <2>1, SlotTypes DEF IInv
    <3> QED BY <3>1, <3>2 DEF IInv, Stages
  <2> QED BY <2>1, <2>2, <2>3, <2>4 DEF IInv, Aims, Usable
<1>5. OwnSlot'
  BY DEF IInv, TypeOK, Stages, OwnSlot
<1>6. OneSlot'
  <2>1. p = Master /\ \A q \in Pids : l_start'[q] = l_start[q]
    BY WhoIsWhere DEF IInv, TypeOK
  <2> QED BY <2>1, SlotTypes DEF IInv, TypeOK, OneSlot, Crashes
<1> QED BY <1>1, <1>2, <1>3, <1>4, <1>5, <1>6 DEF IInv

(* The end of the scrub keeps the invariant.                               *)
LEMMA ScrubEndsPreserves ==
  ASSUME IInv, NEW p \in Procs, ScrubEnds(p)
  PROVE  IInv'
<1> USE Constants DEF ScrubEnds, unlock_scoreboard, AfterScrub, Goto, private, fixed
<1>1. TypeOK'
  BY EntryTypes, ScoreboardAssumption DEF IInv, TypeOK, MaxStarts, From, Steps
<1>2. Mutex'
  BY DEF IInv, TypeOK, Mutex, Exclusive, Stages
<1>3. Stages'
  BY DEF IInv, TypeOK, Stages
<1>4. Aims'
  BY DEF IInv, TypeOK, Mutex, Exclusive, Stages, Aims, Usable
<1>5. OwnSlot'
  BY DEF IInv, TypeOK, Stages, OwnSlot
<1>6. OneSlot'
  BY SlotTypes DEF IInv, TypeOK, Stages, OwnSlot, OneSlot, Crashes
<1> QED BY <1>1, <1>2, <1>3, <1>4, <1>5, <1>6 DEF IInv

(* The update that announces a session keeps the invariant.                *)
LEMMA AnnouncePreserves ==
  ASSUME IInv, NEW p \in Procs, Announce(p)
  PROVE  IInv'
<1> USE Constants DEF Announce, locks, Goto, private, fixed
<1>0. TypeOK /\ p \in Pids /\ p \in Procs
  BY WhoIsWhere DEF IInv
<1> DEFINE e == [entry[p] EXCEPT !.sce_user = None, !.sce_client_addr = host[p]]
<1>1. e \in Entries
  BY <1>0, EntryTypes DEF TypeOK
<1>2. e.sce_pid = entry[p].sce_pid /\ entry[p] \in Entries
  BY <1>0 DEF TypeOK, Entries
<1> HIDE DEF e
<1>3. CASE have_entry[p]
  <2>1. e.sce_pid = p
    BY <1>2, <1>3, <1>0 DEF IInv, OwnSlot, Stages
  <2>2. entry' = [entry EXCEPT ![p] = e] /\ write_entry(p, e)
    BY <1>3 DEF e, pr_scoreboard_entry_update
  <2>3. pc' = [pc EXCEPT ![p] = "scan"]
    BY <1>0 DEF TypeOK, Goto
  <2>4. "scan" \in Steps \ {"write", "zero", "scrubbing", "erase"}
    BY DEF Steps
  <2>5. Rewrites(l_start[p], e) /\ Aims' /\ OwnSlot' /\ OneSlot'
    BY <1>0, <1>1, <1>3, <2>1, <2>2, <2>3, <2>4, OwnWrite
  <2>6. /\ l_start' \in [Procs -> 0 .. Len(file') + 1]
        /\ pos \in [Procs -> 1 .. Len(file') + 1]
        /\ seen \in [Procs -> SUBSET ((1 .. Len(file')) \X Entries)]
        /\ file' \in Seq(Entries)
    BY <1>0, <2>5, FileGrows DEF Rewrites
  <2>7. 1 \in 1 .. Len(file') + 1
    BY <2>6
  <2>8. entry' \in [Procs -> Entries]
    BY <1>0, <1>1, <2>2 DEF TypeOK
  <2>9. TypeOK'
    <3>1. pos' \in [Procs -> 1 .. Len(file') + 1]
      BY <2>6, <2>7 DEF Rewind
    <3>2. seen' \in [Procs -> SUBSET ((1 .. Len(file')) \X Entries)]
      BY <1>0, <2>6 DEF Rewind, TypeOK
    <3>3. conf' \in Confs /\ starts' \in 0 .. MaxStarts'
      BY DEF IInv, TypeOK, MaxStarts
    <3> QED BY <1>0, <2>4, <2>6, <2>8, <3>1, <3>2, <3>3 DEF TypeOK, Steps
  <2>10. Mutex'
    BY <1>0 DEF IInv, TypeOK, Mutex, Exclusive, Stages
  <2>11. Stages'
    BY <1>0, <2>2, <2>3 DEF IInv, TypeOK, Stages
  <2> QED BY <2>5, <2>9, <2>10, <2>11 DEF IInv
<1>4. CASE ~have_entry[p]
  <2>1. UNCHANGED <<entry, file>>
    BY <1>4 DEF pr_scoreboard_entry_update
  <2> USE <1>0, <1>4, <2>1
  <2>2. TypeOK'
    BY ScoreboardAssumption DEF IInv, TypeOK, MaxStarts, Steps, Rewind
  <2>3. Mutex'
    BY DEF IInv, TypeOK, Mutex, Exclusive, Stages
  <2>4. Stages'
    BY DEF IInv, TypeOK, Stages
  <2>5. Aims'
    BY DEF IInv, TypeOK, Mutex, Exclusive, Stages, Aims, Usable
  <2>6. OwnSlot'
    BY DEF IInv, TypeOK, Stages, OwnSlot
  <2>7. OneSlot'
    BY DEF IInv, TypeOK, Stages, OneSlot, Crashes
  <2> QED BY <2>2, <2>3, <2>4, <2>5, <2>6, <2>7 DEF IInv
<1> QED BY <1>3, <1>4

(* Pr_scoreboard_entry_update keeps the invariant.                         *)
LEMMA UpdatePreserves ==
  ASSUME IInv, NEW p \in Pids, Update(p)
  PROVE  IInv'
<1> USE Constants DEF Update, locks, Goto, private, fixed
<1>0. TypeOK /\ p \in Pids /\ p \in Procs
  BY WhoIsWhere DEF IInv
<1> DEFINE e == entry[p]
<1>1. e \in Entries
  BY <1>0, EntryTypes DEF TypeOK
<1>2. e.sce_pid = entry[p].sce_pid /\ entry[p] \in Entries
  BY <1>0 DEF TypeOK, Entries
<1> HIDE DEF e
<1>3. CASE have_entry[p]
  <2>1. e.sce_pid = p
    BY <1>2, <1>3, <1>0 DEF IInv, OwnSlot, Stages
  <2>2. entry' = [entry EXCEPT ![p] = e] /\ write_entry(p, e)
    BY <1>3 DEF e, pr_scoreboard_entry_update
  <2>3. pc' = [pc EXCEPT ![p] = pc[p]]
    BY <1>0 DEF TypeOK, Goto
  <2>4. pc[p] \in Steps \ {"write", "zero", "scrubbing", "erase"}
    BY DEF Steps
  <2>5. Rewrites(l_start[p], e) /\ Aims' /\ OwnSlot' /\ OneSlot'
    BY <1>0, <1>1, <1>3, <2>1, <2>2, <2>3, <2>4, OwnWrite
  <2>6. /\ l_start' \in [Procs -> 0 .. Len(file') + 1]
        /\ pos \in [Procs -> 1 .. Len(file') + 1]
        /\ seen \in [Procs -> SUBSET ((1 .. Len(file')) \X Entries)]
        /\ file' \in Seq(Entries)
    BY <1>0, <2>5, FileGrows DEF Rewrites
  <2>7. 1 \in 1 .. Len(file') + 1
    BY <2>6
  <2>8. entry' \in [Procs -> Entries]
    BY <1>0, <1>1, <2>2 DEF TypeOK
  <2>9. TypeOK'
    <3>1. pos' \in [Procs -> 1 .. Len(file') + 1]
      BY <2>6, <2>7 DEF Rewind
    <3>2. seen' \in [Procs -> SUBSET ((1 .. Len(file')) \X Entries)]
      BY <1>0, <2>6 DEF Rewind, TypeOK
    <3>3. conf' \in Confs /\ starts' \in 0 .. MaxStarts'
      BY DEF IInv, TypeOK, MaxStarts
    <3> QED BY <1>0, <2>4, <2>6, <2>8, <3>1, <3>2, <3>3 DEF TypeOK, Steps
  <2>10. Mutex'
    BY <1>0 DEF IInv, TypeOK, Mutex, Exclusive, Stages
  <2>11. Stages'
    BY <1>0, <2>2, <2>3 DEF IInv, TypeOK, Stages
  <2> QED BY <2>5, <2>9, <2>10, <2>11 DEF IInv
<1>4. CASE ~have_entry[p]
  <2>1. UNCHANGED <<entry, file>>
    BY <1>4 DEF pr_scoreboard_entry_update
  <2> USE <1>0, <1>4, <2>1
  <2>2. TypeOK'
    BY ScoreboardAssumption DEF IInv, TypeOK, MaxStarts, Steps, Rewind
  <2>3. Mutex'
    BY DEF IInv, TypeOK, Mutex, Exclusive, Stages
  <2>4. Stages'
    BY DEF IInv, TypeOK, Stages
  <2>5. Aims'
    BY DEF IInv, TypeOK, Mutex, Exclusive, Stages, Aims, Usable
  <2>6. OwnSlot'
    BY DEF IInv, TypeOK, Stages, OwnSlot
  <2>7. OneSlot'
    BY DEF IInv, TypeOK, Stages, OneSlot, Crashes
  <2> QED BY <2>2, <2>3, <2>4, <2>5, <2>6, <2>7 DEF IInv
<1> QED BY <1>3, <1>4

(* The update that names the user keeps the invariant.                     *)
LEMMA LoginPreserves ==
  ASSUME IInv, NEW p \in Pids, NEW u \in Users, Login(p, u)
  PROVE  IInv'
<1> USE Constants DEF Login, locks, Goto, private, fixed
<1>0. TypeOK /\ p \in Pids /\ p \in Procs
  BY WhoIsWhere DEF IInv
<1> DEFINE e == [entry[p] EXCEPT !.sce_user = sce_user(u)]
<1>1. e \in Entries
  BY <1>0, EntryTypes DEF TypeOK
<1>2. e.sce_pid = entry[p].sce_pid /\ entry[p] \in Entries
  BY <1>0 DEF TypeOK, Entries
<1> HIDE DEF e
<1>3. CASE have_entry[p]
  <2>1. e.sce_pid = p
    BY <1>2, <1>3, <1>0 DEF IInv, OwnSlot, Stages
  <2>2. entry' = [entry EXCEPT ![p] = e] /\ write_entry(p, e)
    BY <1>3 DEF e, pr_scoreboard_entry_update
  <2>3. pc' = [pc EXCEPT ![p] = (IF have_client_limits THEN "count" ELSE "in")]
    BY <1>0 DEF TypeOK, Goto
  <2>4. (IF have_client_limits THEN "count" ELSE "in") \in Steps \ {"write", "zero", "scrubbing", "erase"}
    BY DEF Steps
  <2>5. Rewrites(l_start[p], e) /\ Aims' /\ OwnSlot' /\ OneSlot'
    BY <1>0, <1>1, <1>3, <2>1, <2>2, <2>3, <2>4, OwnWrite
  <2>6. /\ l_start' \in [Procs -> 0 .. Len(file') + 1]
        /\ pos \in [Procs -> 1 .. Len(file') + 1]
        /\ seen \in [Procs -> SUBSET ((1 .. Len(file')) \X Entries)]
        /\ file' \in Seq(Entries)
    BY <1>0, <2>5, FileGrows DEF Rewrites
  <2>7. 1 \in 1 .. Len(file') + 1
    BY <2>6
  <2>8. entry' \in [Procs -> Entries]
    BY <1>0, <1>1, <2>2 DEF TypeOK
  <2>9. TypeOK'
    <3>1. pos' \in [Procs -> 1 .. Len(file') + 1]
      BY <2>6, <2>7 DEF Rewind
    <3>2. seen' \in [Procs -> SUBSET ((1 .. Len(file')) \X Entries)]
      BY <1>0, <2>6 DEF Rewind, TypeOK
    <3>3. conf' \in Confs /\ starts' \in 0 .. MaxStarts'
      BY DEF IInv, TypeOK, MaxStarts
    <3> QED BY <1>0, <2>4, <2>6, <2>8, <3>1, <3>2, <3>3 DEF TypeOK, Steps
  <2>10. Mutex'
    BY <1>0 DEF IInv, TypeOK, Mutex, Exclusive, Stages
  <2>11. Stages'
    BY <1>0, <2>2, <2>3 DEF IInv, TypeOK, Stages
  <2> QED BY <2>5, <2>9, <2>10, <2>11 DEF IInv
<1>4. CASE ~have_entry[p]
  <2>1. UNCHANGED <<entry, file>>
    BY <1>4 DEF pr_scoreboard_entry_update
  <2> USE <1>0, <1>4, <2>1
  <2>2. TypeOK'
    BY ScoreboardAssumption DEF IInv, TypeOK, MaxStarts, Steps, Rewind
  <2>3. Mutex'
    BY DEF IInv, TypeOK, Mutex, Exclusive, Stages
  <2>4. Stages'
    BY DEF IInv, TypeOK, Stages
  <2>5. Aims'
    BY DEF IInv, TypeOK, Mutex, Exclusive, Stages, Aims, Usable
  <2>6. OwnSlot'
    BY DEF IInv, TypeOK, Stages, OwnSlot
  <2>7. OneSlot'
    BY DEF IInv, TypeOK, Stages, OneSlot, Crashes
  <2> QED BY <2>2, <2>3, <2>4, <2>5, <2>6, <2>7 DEF IInv
<1> QED BY <1>3, <1>4

-----------------------------------------------------------------------------
(* The steps that write a slot for the first time, erase one, or leave     *)
(* one.                                                                    *)

(* The first write of the slot found keeps the invariant.                  *)
LEMMA AddWritePreserves ==
  ASSUME IInv, NEW p \in Procs, AddWrite(p)
  PROVE  IInv'
<1> DEFINE e == [Free EXCEPT !.sce_pid = p]
<1>1. /\ p \in Pids /\ p # NULL /\ TypeOK /\ writer = p /\ readers = {}
      /\ pc[p] = "write" /\ ~have_entry[p]
  BY WhoIsWhere, Constants
     DEF AddWrite, IInv, Mutex, Exclusive, TypeOK, Stages
<1>2. e \in Entries /\ e.sce_pid = p
  BY <1>1, EntryTypes DEF Free
<1> HIDE DEF e
<1>3. /\ entry' = [entry EXCEPT ![p] = e] /\ entry'[p] = e
      /\ pc' = [pc EXCEPT ![p] = "announce"]
      /\ have_entry' = [have_entry EXCEPT ![p] = TRUE]
      /\ writer' = NULL /\ readers' = {}
      /\ UNCHANGED <<host, user, l_start, pos, seen, starts, conf>>
  BY <1>1 DEF AddWrite, Goto, unlock_scoreboard, fixed, e, TypeOK
<1>4. l_start[p] >= 1 /\ Usable(l_start[p])
  BY <1>1 DEF IInv, Aims
<1>5. Rewrites(l_start[p], e)
  BY <1>1, <1>2, <1>3, <1>4, WriteRewrites DEF AddWrite
<1>6. Len(file) \in Nat /\ Len(file') \in Nat /\ l_start[p] \in 1 .. Len(file')
  BY <1>1, <1>4, <1>5 DEF TypeOK, Rewrites
<1>7. /\ \A i \in 1 .. Len(file) : i # l_start[p] => file'[i] = file[i]
      /\ file'[l_start[p]] = e /\ Len(file') >= Len(file)
      /\ \A i \in 1 .. Len(file') : i = l_start[p] \/ i <= Len(file)
  BY <1>5 DEF Rewrites
<1>8. \A q \in Procs : q # p => /\ pc'[q] = pc[q] /\ entry'[q] = entry[q]
                                /\ have_entry'[q] = have_entry[q]
  BY <1>1, <1>3 DEF TypeOK
<1>9. pc'[p] = "announce" /\ have_entry'[p]
  BY <1>1, <1>3 DEF TypeOK
<1>10. \A q \in Procs : q # p => pc[q] \notin Exclusive
  BY <1>1 DEF IInv, Mutex
<1>11. TypeOK'
  <2>1. /\ l_start' \in [Procs -> 0 .. Len(file') + 1]
        /\ pos' \in [Procs -> 1 .. Len(file') + 1]
        /\ seen' \in [Procs -> SUBSET ((1 .. Len(file')) \X Entries)]
        /\ file' \in Seq(Entries)
    BY <1>1, <1>3, <1>5, FileGrows DEF Rewrites
  <2>2. conf' \in Confs /\ starts' \in 0 .. MaxStarts'
    BY <1>1, <1>3 DEF TypeOK, MaxStarts
  <2>3. pc' \in [Procs -> Steps] /\ entry' \in [Procs -> Entries]
    BY <1>1, <1>2, <1>3 DEF TypeOK, Steps
  <2> QED BY <1>1, <1>3, <2>1, <2>2, <2>3 DEF TypeOK
<1>12. Mutex'
  BY <1>1, <1>3, <1>8, <1>9, <1>10, Constants DEF IInv, Mutex, Exclusive, TypeOK
<1>13. Stages'
  BY <1>1, <1>3, <1>8, <1>9, Constants DEF IInv, Stages
<1>14. Aims'
  BY <1>1, <1>8, <1>9, <1>10, Constants DEF IInv, Aims, Exclusive
<1>15. OwnSlot'
  <2> SUFFICES ASSUME NEW q \in Pids, have_entry'[q]
               PROVE  /\ l_start'[q] \in 1 .. Len(file')
                      /\ file'[l_start'[q]].sce_pid = q
                      /\ pc'[q] # "zero" => file'[l_start'[q]] = entry'[q]
    BY DEF OwnSlot
  <2>1. CASE q = p
    BY <2>1, <1>2, <1>3, <1>6, <1>7
  <2>2. CASE q # p
    <3>1. /\ l_start[q] \in 1 .. Len(file) /\ file[l_start[q]].sce_pid = q
          /\ pc[q] # "zero" => file[l_start[q]] = entry[q]
      BY <2>2, <1>8, Constants DEF IInv, OwnSlot
    <3>2. l_start[q] # l_start[p]
      BY <3>1, <1>4, Constants DEF Usable
    <3> QED BY <2>2, <3>1, <3>2, <1>3, <1>6, <1>7, <1>8, Constants
  <2> QED BY <2>1, <2>2
<1>16. OneSlot'
  <2> SUFFICES ASSUME ~Crashes, NEW i \in 1 .. Len(file'), file'[i].sce_pid # NULL
               PROVE  /\ have_entry'[file'[i].sce_pid]
                      /\ l_start[file'[i].sce_pid] = i
    BY <1>3 DEF OneSlot, Crashes
  <2>1. CASE i = l_start[p]
    BY <2>1, <1>2, <1>7, <1>9
  <2>2. CASE i # l_start[p]
    <3>1. i \in 1 .. Len(file) /\ file'[i] = file[i]
      BY <2>2, <1>6, <1>7
    <3>2. file[i].sce_pid \in Pids
      BY <3>1, <1>1, SlotTypes
    <3>3. have_entry[file[i].sce_pid] /\ l_start[file[i].sce_pid] = i
      BY <3>1 DEF IInv, OneSlot
    <3> QED BY <3>1, <3>2, <3>3, <1>8, <1>9, Constants
  <2> QED BY <2>1, <2>2
<1> QED BY <1>11, <1>12, <1>13, <1>14, <1>15, <1>16 DEF IInv

(* A slot that the scrub erases keeps the invariant.                       *)
LEMMA ScrubErasePreserves ==
  ASSUME IInv, NEW p \in Procs, ScrubErase(p)
  PROVE  IInv'
<1>1. p = Master /\ TypeOK /\ writer = p /\ readers = {} /\ pc[p] = "erase"
  BY WhoIsWhere, Constants DEF ScrubErase, IInv, Mutex, Exclusive, TypeOK
<1> PICK k : k = l_start[p]
  OBVIOUS
<1>2. /\ Len(file) \in Nat /\ k \in 1 .. Len(file) /\ file[k].sce_pid \in Pids
      /\ ~have_entry[file[k].sce_pid]
  BY <1>1, Constants DEF IInv, Aims, TypeOK
<1>3. /\ file' = [file EXCEPT ![k] = Free]
      /\ l_start' = [l_start EXCEPT ![p] = k + 1]
      /\ pc' = [pc EXCEPT ![p] = "scrubbing"]
      /\ UNCHANGED <<writer, readers, host, user, have_entry, entry, pos, seen,
                     starts, conf>>
  BY DEF ScrubErase, Goto, locks, fixed
<1>4. file' \in Seq(Entries) /\ Len(file') = Len(file)
  <2>1. file \in Seq(Entries) /\ Free \in Entries
    BY <1>1, EntryTypes DEF TypeOK
  <2> QED BY <1>2, <1>3, <2>1
<1>5. file'[k] = Free /\ \A i \in 1 .. Len(file) : i # k => file'[i] = file[i]
  BY <1>1, <1>2, <1>3 DEF TypeOK
<1>6. \A q \in Pids : pc'[q] = pc[q] /\ l_start'[q] = l_start[q]
  BY <1>1, <1>3, Constants DEF TypeOK
<1>7. pc'[p] = "scrubbing" /\ l_start'[p] = k + 1
  BY <1>1, <1>3 DEF TypeOK
<1>8. TypeOK'
  <2>1. /\ pos' \in [Procs -> 1 .. Len(file') + 1]
        /\ seen' \in [Procs -> SUBSET ((1 .. Len(file')) \X Entries)]
    BY <1>1, <1>3, <1>4 DEF TypeOK
  <2>2. conf' \in Confs /\ starts' \in 0 .. MaxStarts'
    BY <1>1, <1>3 DEF TypeOK, MaxStarts
  <2>3. pc' \in [Procs -> Steps] /\ l_start' \in [Procs -> 0 .. Len(file') + 1]
    BY <1>1, <1>2, <1>3, <1>4 DEF TypeOK, Steps
  <2> QED BY <1>1, <1>3, <1>4, <2>1, <2>2, <2>3 DEF TypeOK
<1>9. Mutex'
  BY <1>1, <1>3 DEF IInv, TypeOK, Mutex, Exclusive
<1>10. Stages'
  BY <1>1, <1>3, <1>6, <1>7 DEF IInv, Stages
<1>11. Aims'
  <2>1. \A q \in Pids : pc[q] # "write"
    BY <1>1, Constants DEF IInv, Mutex, Exclusive
  <2> QED BY <1>1, <1>2, <1>6, <1>7, <2>1 DEF Aims
<1>12. OwnSlot'
  <2> SUFFICES ASSUME NEW q \in Pids, have_entry[q]
               PROVE  /\ l_start[q] \in 1 .. Len(file')
                      /\ file'[l_start[q]].sce_pid = q
                      /\ pc[q] # "zero" => file'[l_start[q]] = entry[q]
    BY <1>3, <1>6 DEF OwnSlot
  <2>1. /\ l_start[q] \in 1 .. Len(file) /\ file[l_start[q]].sce_pid = q
        /\ pc[q] # "zero" => file[l_start[q]] = entry[q]
    BY DEF IInv, OwnSlot
  <2>2. l_start[q] # k
    BY <2>1, <1>2
  <2> QED BY <2>1, <2>2, <1>4, <1>5
<1>13. OneSlot'
  <2> SUFFICES ASSUME ~Crashes, NEW i \in 1 .. Len(file), file'[i].sce_pid # NULL
               PROVE  /\ have_entry[file'[i].sce_pid]
                      /\ l_start'[file'[i].sce_pid] = i
    BY <1>3, <1>4 DEF OneSlot, Crashes
  <2>1. i # k /\ file'[i] = file[i]
    BY <1>5 DEF Free
  <2>2. file[i].sce_pid \in Pids
    BY <2>1, <1>1, SlotTypes
  <2> QED BY <2>1, <2>2, <1>6 DEF IInv, OneSlot
<1> QED BY <1>8, <1>9, <1>10, <1>11, <1>12, <1>13 DEF IInv

(* A process that is gone and whose slot, if it had one, is free, or may   *)
(* stay as it is where sessions crash.                                     *)
LEMMA ExitPreserves ==
  ASSUME IInv, NEW p \in Pids, Exit(p),
         \/ UNCHANGED file /\ (Crashes \/ ~have_entry[p])
         \/ have_entry[p] /\ Rewrites(l_start[p], Free)
  PROVE  IInv'
<1> DEFINE k == l_start[p]
<1>1. p \in Procs /\ p # Master /\ p # NULL /\ TypeOK
  BY Constants DEF IInv
<1>2. /\ pc' = [pc EXCEPT ![p] = "dead"]
      /\ have_entry' = [have_entry EXCEPT ![p] = FALSE]
      /\ l_start' = [l_start EXCEPT ![p] = 0]
      /\ entry' = [entry EXCEPT ![p] = Free]
      /\ host' = [host EXCEPT ![p] = NULL] /\ user' = [user EXCEPT ![p] = NULL]
      /\ pos' = [pos EXCEPT ![p] = 1] /\ seen' = [seen EXCEPT ![p] = {}]
      /\ starts' = starts /\ conf' = conf
      /\ writer' = (IF writer = p THEN NULL ELSE writer)
      /\ readers' = readers \ {p}
  BY DEF Exit, Goto, Rewind, unlock_scoreboard, fixed
<1>3. \A q \in Procs : q # p =>
         /\ pc'[q] = pc[q] /\ have_entry'[q] = have_entry[q]
         /\ l_start'[q] = l_start[q] /\ entry'[q] = entry[q]
  BY <1>1, <1>2 DEF TypeOK
<1>4. pc'[p] = "dead" /\ ~have_entry'[p] /\ entry'[p] = Free
  BY <1>1, <1>2 DEF TypeOK
<1>5. have_entry[p] => k \in 1 .. Len(file) /\ file[k].sce_pid = p
  BY DEF IInv, OwnSlot
<1>6. /\ file' \in Seq(Entries) /\ Len(file') = Len(file) /\ Len(file) \in Nat
      /\ \A i \in 1 .. Len(file) :
            \/ file'[i] = file[i]
            \/ have_entry[p] /\ i = k /\ file'[i] = Free
  BY <1>1, <1>5 DEF TypeOK, Rewrites
<1> HIDE DEF k
<1>7. TypeOK'
  <2>1. /\ l_start' \in [Procs -> 0 .. Len(file') + 1]
        /\ pos' \in [Procs -> 1 .. Len(file') + 1]
    BY <1>1, <1>2, <1>6 DEF TypeOK
  <2>2. seen' \in [Procs -> SUBSET ((1 .. Len(file')) \X Entries)]
    BY <1>1, <1>2, <1>6 DEF TypeOK
  <2>3. conf' \in Confs /\ starts' \in 0 .. MaxStarts'
    BY <1>1, <1>2 DEF TypeOK, MaxStarts
  <2>4. pc' \in [Procs -> Steps] /\ entry' \in [Procs -> Entries]
        /\ host' \in [Procs -> Hosts \cup {NULL}]
        /\ user' \in [Procs -> Users \cup {NULL}]
    BY <1>1, <1>2, EntryTypes DEF TypeOK, Steps
  <2>5. have_entry' \in [Procs -> BOOLEAN]
    BY <1>1, <1>2 DEF TypeOK
  <2> QED BY <1>1, <1>2, <1>6, <2>1, <2>2, <2>3, <2>4, <2>5 DEF TypeOK
<1>8. Mutex'
  BY <1>1, <1>2, <1>3, <1>4, Constants DEF IInv, TypeOK, Mutex, Exclusive
<1>9. Stages'
  BY <1>1, <1>3, <1>4, Constants DEF IInv, Stages
<1>10. Aims'
  <2>1. ASSUME NEW q \in Pids, pc'[q] = "write"
        PROVE  l_start'[q] >= 1 /\ Usable(l_start[q])'
    <3>1. q # p /\ q \in Procs
      BY <2>1, <1>4, Constants
    <3>2. l_start[q] >= 1 /\ Usable(l_start[q]) /\ l_start[q] \in Nat
          /\ l_start'[q] = l_start[q]
      BY <3>1, <2>1, <1>1, <1>3 DEF IInv, Aims, TypeOK
    <3> QED BY <3>2, <1>6 DEF Usable, Free
  <2>2. pc'[Master] = pc[Master] /\ l_start'[Master] = l_start[Master]
        /\ l_start[Master] \in Nat
    BY <1>1, <1>3, Constants DEF TypeOK
  <2>3. ASSUME pc[Master] = "erase"
        PROVE  /\ l_start[Master] <= Len(file')
               /\ file'[l_start[Master]].sce_pid \in Pids
               /\ ~have_entry'[file'[l_start[Master]].sce_pid]
    <3>1. /\ l_start[Master] \in 1 .. Len(file)
          /\ file[l_start[Master]].sce_pid \in Pids
          /\ ~have_entry[file[l_start[Master]].sce_pid]
      BY <2>3, <1>1, Constants DEF IInv, Aims, TypeOK
    <3>2. file'[l_start[Master]] = file[l_start[Master]]
      BY <3>1, <1>5, <1>6
    <3> QED BY <3>1, <3>2, <1>3, <1>4, <1>6, Constants
  <2> QED BY <2>1, <2>2, <2>3 DEF IInv, Aims
<1>11. OwnSlot'
  <2> SUFFICES ASSUME NEW q \in Pids, have_entry'[q]
               PROVE  /\ l_start'[q] \in 1 .. Len(file')
                      /\ file'[l_start'[q]].sce_pid = q
                      /\ pc'[q] # "zero" => file'[l_start'[q]] = entry'[q]
    BY DEF OwnSlot
  <2>1. q # p /\ q \in Procs /\ have_entry[q]
    BY <1>3, <1>4, Constants
  <2>2. /\ l_start[q] \in 1 .. Len(file) /\ file[l_start[q]].sce_pid = q
        /\ pc[q] # "zero" => file[l_start[q]] = entry[q]
    BY <2>1 DEF IInv, OwnSlot
  <2>3. file'[l_start[q]] = file[l_start[q]]
    BY <2>1, <2>2, <1>5, <1>6
  <2> QED BY <2>1, <2>2, <2>3, <1>3, <1>6
<1>12. OneSlot'
  <2> SUFFICES ASSUME ~Crashes, NEW i \in 1 .. Len(file), file'[i].sce_pid # NULL
               PROVE  /\ have_entry'[file'[i].sce_pid]
                      /\ l_start'[file'[i].sce_pid] = i
    BY <1>2, <1>6 DEF OneSlot, Crashes
  <2>1. file'[i] = file[i]
    BY <1>6 DEF Free
  <2>2. have_entry[file[i].sce_pid] /\ l_start[file[i].sce_pid] = i
    BY <2>1 DEF IInv, OneSlot
  <2>3. file[i].sce_pid \in Pids
    BY <2>1, <1>1, SlotTypes
  <2>4. file[i].sce_pid # p
    <3>1. CASE ~have_entry[p]
      BY <3>1, <2>2
    <3>2. CASE have_entry[p]
      <4>1. file'[k] = Free
        BY <3>2, <1>5 DEF Rewrites, k
      <4>2. i # k
        BY <4>1 DEF Free
      <4> QED BY <4>2, <2>2 DEF k
    <3> QED BY <3>1, <3>2
  <2> QED BY <2>1, <2>2, <2>3, <2>4, <1>3, Constants
<1> QED BY <1>7, <1>8, <1>9, <1>10, <1>11, <1>12 DEF IInv

(* Every set of naturals has a smallest one.                               *)
LEMMA LeastNatural ==
  ASSUME NEW T \in SUBSET Nat, T # {}
  PROVE  \E n \in T : \A m \in T : n <= m
<1>1. \E x \in T : \A y \in T : ~(<<y, x>> \in OpToRel(<, Nat))
  BY NatLessThanWellFounded, WFMin
<1>2. PICK x \in T : \A y \in T : ~(<<y, x>> \in OpToRel(<, Nat))
  BY <1>1
<1>3. \A y \in T : ~(y < x)
  BY <1>2 DEF OpToRel
<1> QED BY <1>3

(* sess_cleanup, with or without an entry to delete.                       *)
LEMMA SessionEndPreserves ==
  ASSUME IInv, NEW p \in Procs, NEW at, at \subseteq SignalsHandled \cup {"refused"},
         p \in Pids \/ at = {"refused"}, pr_session_end(p, at)
  PROVE  IInv'
<1>1. p \in Pids /\ p \in Procs /\ pc[p] \in SignalsHandled \cup {"refused"}
  BY WhoIsWhere, Constants DEF pr_session_end
<1>2. CASE have_entry[p]
  <2> USE <1>1, <1>2, Constants
      DEF pr_session_end, Goto, locks, private, fixed, SignalsHandled
  <2>1. TypeOK'
    BY DEF IInv, TypeOK, MaxStarts, Steps
  <2>2. Mutex'
    <3>1. pc[p] \notin {"scanning", "counting", "zero"} \cup Exclusive
      BY DEF IInv, Stages, Exclusive
    <3>2. pc'[p] = "del" /\ \A q \in Procs : q # p => pc'[q] = pc[q]
      BY DEF IInv, TypeOK
    <3>3. "del" \notin {"scanning", "counting", "zero"} \cup Exclusive
      BY DEF Exclusive
    <3> QED BY <3>1, <3>2, <3>3 DEF IInv, TypeOK, Mutex
  <2>3. Stages'
    BY DEF IInv, TypeOK, Stages
  <2>4. Aims'
    BY DEF IInv, TypeOK, Stages, Aims, Usable
  <2>5. OwnSlot'
    <3>1. \A q \in Pids : pc'[q] # "zero" => pc[q] # "zero"
      BY DEF IInv, TypeOK
    <3> QED BY <3>1 DEF IInv, OwnSlot
  <2>6. OneSlot'
    BY DEF IInv, OneSlot, Crashes
  <2> QED BY <2>1, <2>2, <2>3, <2>4, <2>5, <2>6 DEF IInv
<1>3. CASE ~have_entry[p]
  BY <1>1, <1>3, ExitPreserves DEF pr_session_end
<1> QED BY <1>2, <1>3

(* The zeroes that pr_scoreboard_entry_del writes.                         *)
LEMMA DelWritePreserves ==
  ASSUME IInv, NEW p \in Procs, DelWrite(p)
  PROVE  IInv'
<1>1. p \in Pids /\ have_entry[p] /\ entry[p] = Free
  BY WhoIsWhere DEF DelWrite, IInv, Stages
<1>2. l_start[p] >= 1
  BY <1>1 DEF IInv, OwnSlot, TypeOK
<1>3. Rewrites(l_start[p], Free)
  BY <1>1, <1>2, WriteRewrites, EntryTypes DEF DelWrite, IInv
<1> QED BY <1>1, <1>3, ExitPreserves DEF DelWrite

(* A session that is killed.                                               *)
LEMMA CrashPreserves ==
  ASSUME IInv, NEW p \in Pids, Crash(p)
  PROVE  IInv'
BY ExitPreserves DEF Crash

(* Unlocking and going on, where the file and the session's own data stay  *)
(* as they are.                                                            *)
LEMMA UnlockPreserves ==
  ASSUME IInv, NEW p \in Procs, p \in Pids, unlock_scoreboard(p) \/ UNCHANGED locks,
         pc[p] \in {"scan", "count", "scanning", "counting"},
         pc[p] \in {"scanning", "counting"} => unlock_scoreboard(p),
         NEW step \in {"scan", "count", "idle", "in", "refused"},
         pc' = [pc EXCEPT ![p] = step],
         UNCHANGED <<file, private, fixed>>,
         pos' \in [Procs -> 1 .. Len(file) + 1],
         seen' \in [Procs -> SUBSET ((1 .. Len(file)) \X Entries)]
  PROVE  IInv'
<1>1. writer' = writer /\ readers' = readers \ {p}
  <2>1. writer # p
    BY Constants DEF IInv, Mutex, Exclusive
  <2>2. CASE unlock_scoreboard(p)
    BY <2>1, <2>2 DEF unlock_scoreboard
  <2>3. CASE ~unlock_scoreboard(p)
    <3>1. p \notin readers
      BY <2>3 DEF IInv, Mutex
    <3> QED BY <2>3, <3>1 DEF locks
  <2> QED BY <2>2, <2>3
<1> USE <1>1, Constants DEF private, fixed
<1>2. TypeOK'
  BY DEF IInv, TypeOK, MaxStarts, Steps
<1>3. Mutex'
  BY DEF IInv, TypeOK, Mutex, Exclusive
<1>4. Stages'
  BY DEF IInv, TypeOK, Stages
<1>5. Aims'
  BY DEF IInv, TypeOK, Stages, Aims, Usable
<1>6. OwnSlot'
  BY DEF IInv, TypeOK, OwnSlot
<1>7. OneSlot'
  BY DEF IInv, OneSlot, Crashes
<1> QED BY <1>2, <1>3, <1>4, <1>5, <1>6, <1>7 DEF IInv

(* The slot that a scan reads next is in the file, or is past its end.     *)
LEMMA NextSlotType ==
  ASSUME TypeOK, NEW p \in Procs, NextSlot(p) <= Len(file)
  PROVE  NextSlot(p) \in 1 .. Len(file)
<1>1. Len(file) \in Nat /\ pos[p] \in 1 .. Len(file) + 1
  BY DEF TypeOK
<1>2. InUse(pos[p]) # {}
  BY <1>1 DEF NextSlot
<1>3. InUse(pos[p]) \subseteq 1 .. Len(file)
  BY <1>1 DEF InUse
<1>4. \E j \in InUse(pos[p]) : \A k \in InUse(pos[p]) : j <= k
  <2> PICK S : S = InUse(pos[p])
    OBVIOUS
  <2>1. S \in SUBSET Nat /\ S # {}
    BY <1>1, <1>2, <1>3
  <2>2. \E j \in S : \A k \in S : j <= k
    BY <2>1, LeastNatural
  <2> QED BY <2>2
<1> QED BY <1>2, <1>3, <1>4 DEF NextSlot

(* pr_scoreboard_entry_read.                                               *)
LEMMA ReadEntryPreserves ==
  ASSUME IInv, NEW p \in Procs, NEW next \in {"scan", "count"}, ReadEntry(p, next)
  PROVE  IInv'
<1>1. pc[p] \in {"scanning", "counting"} /\ p \in Pids /\ TypeOK
  BY WhoIsWhere DEF ReadEntry, ScanStep, IInv
<1> PICK k : k = NextSlot(p)
  OBVIOUS
<1>2. k \in 1 .. Len(file) /\ file[k] \in Entries /\ Len(file) \in Nat
  BY <1>1, NextSlotType, SlotTypes DEF ReadEntry, TypeOK
<1>3. /\ seen' = [seen EXCEPT ![p] = @ \cup {<<k, file[k]>>}]
      /\ pos' = [pos EXCEPT ![p] = k + 1]
      /\ pc' = [pc EXCEPT ![p] = next] /\ unlock_scoreboard(p)
      /\ UNCHANGED <<file, private, fixed>>
  BY DEF ReadEntry, Goto
<1>4. pos' \in [Procs -> 1 .. Len(file) + 1]
  BY <1>1, <1>2, <1>3 DEF TypeOK
<1>5. seen' \in [Procs -> SUBSET ((1 .. Len(file)) \X Entries)]
  <2>1. <<k, file[k]>> \in (1 .. Len(file)) \X Entries
    BY <1>2
  <2>2. seen \in [Procs -> SUBSET ((1 .. Len(file)) \X Entries)]
    BY <1>1 DEF TypeOK
  <2> HIDE DEF Entries
  <2>3. seen[p] \cup {<<k, file[k]>>} \in SUBSET ((1 .. Len(file)) \X Entries)
    BY <2>1, <2>2
  <2> QED BY <2>2, <2>3, <1>3
<1> QED BY <1>1, <1>3, <1>4, <1>5, UnlockPreserves

(* The end of a scan, with either outcome.                                 *)
LEMMA DecidePreserves ==
  ASSUME IInv, NEW p \in Procs, NEW step \in {"scan", "count"}, ScanEnds(p, step),
         NEW refuse, NEW next \in {"idle", "in"}, Decide(p, refuse, next)
  PROVE  IInv'
<1>1. /\ pc[p] \in {"scan", "count", "scanning", "counting"} /\ p \in Pids /\ TypeOK
      /\ unlock_scoreboard(p) \/ UNCHANGED locks
      /\ pc[p] \in {"scanning", "counting"} => unlock_scoreboard(p)
  BY WhoIsWhere DEF ScanEnds, ScanStep, rlock_fails, IInv
<1>2. /\ UNCHANGED <<file, private, fixed>>
      /\ pc' = [pc EXCEPT ![p] = IF refuse THEN "refused" ELSE next]
      /\ \/ UNCHANGED <<pos, seen>>
         \/ pos' = [pos EXCEPT ![p] = 1] /\ seen' = [seen EXCEPT ![p] = {}]
  BY DEF Decide, Goto, Rewind
<1>3. Len(file) \in Nat
  BY <1>1 DEF TypeOK
<1>4. pos' \in [Procs -> 1 .. Len(file) + 1]
  <2>1. pos \in [Procs -> 1 .. Len(file) + 1] /\ 1 \in 1 .. Len(file) + 1
    BY <1>1, <1>3 DEF TypeOK
  <2> QED BY <1>2, <2>1
<1>5. seen' \in [Procs -> SUBSET ((1 .. Len(file)) \X Entries)]
  <2>1. seen \in [Procs -> SUBSET ((1 .. Len(file)) \X Entries)]
    BY <1>1 DEF TypeOK
  <2> QED BY <1>2, <2>1
<1>6. (IF refuse THEN "refused" ELSE next) \in {"scan", "count", "idle", "in", "refused"}
  OBVIOUS
<1> QED BY <1>1, <1>2, <1>4, <1>5, <1>6, UnlockPreserves

(* Every step of a session or of the daemon keeps the invariant.           *)
LEMMA WorkPreserves ==
  ASSUME IInv, DaemonScrubs, NEW p \in Procs, Work(p)
  PROVE  IInv'
<1>1. CASE auth_scan_scoreboard(p)
  <2>1. ~(~Standalone /\ Scrub)
    BY ScoreboardAssumption DEF DaemonScrubs, Scrub, IInv, TypeOK
  <2>2. ScanEnds(p, "scan") /\ Decide(p, TooManyConnections(p), "idle")
    BY <1>1, <2>1 DEF auth_scan_scoreboard
  <2> QED BY <2>2, DecidePreserves
<1>2. CASE auth_count_scoreboard(p)
  BY <1>2, DecidePreserves DEF auth_count_scoreboard
<1>3. CASE pr_session_end(p, {"refused"})
  BY <1>3, SessionEndPreserves
<1> QED
  BY <1>1, <1>2, <1>3, AddLockPreserves, AddFailsPreserves, AddReadPreserves,
     AddWritePreserves, AnnouncePreserves, ReadLockPreserves, ReadEntryPreserves,
     DelLockPreserves, DelWritePreserves, ScrubLockPreserves,
     ScrubFailsPreserves, ScrubReadPreserves, ScrubErasePreserves,
     ScrubEndsPreserves
     DEF Work

(* So does every step of other processes and every crash.                  *)
LEMMA EnvironmentPreserves ==
  ASSUME IInv, NEW p \in Pids, Environment(p)
  PROVE  IInv'
<1>1. CASE pr_session_end(p, SignalsHandled)
  BY <1>1, Constants, SessionEndPreserves
<1> QED
  BY <1>1, StartPreserves, HostPreserves, LoginPreserves, UpdatePreserves,
     CrashPreserves, OtherStartPreserves, OtherExitPreserves
     DEF Environment

(* The invariant holds in every behaviour in which no session scrubs.      *)
THEOREM Inductive == DaemonScrubs /\ Spec => []IInv
<1> SUFFICES ASSUME DaemonScrubs PROVE Spec => []IInv
  OBVIOUS
<1>1. Init => IInv
  BY InitInvariant
<1>2. IInv /\ [Next]_vars => IInv'
  <2> SUFFICES ASSUME IInv, [Next]_vars PROVE IInv'
    OBVIOUS
  <2>1. CASE Next
    BY <2>1, WorkPreserves, EnvironmentPreserves DEF Next
  <2>2. CASE UNCHANGED vars
    BY <2>2 DEF vars, locks, private, fixed, IInv, TypeOK, Mutex, Exclusive,
                Stages, Aims, Usable, OwnSlot, OneSlot, Crashes, MaxStarts
  <2> QED BY <2>1, <2>2
<1> QED BY <1>1, <1>2, PTL DEF Spec

(* A session that has an entry finds it in its slot as it wrote it last:   *)
(* pr_scoreboard_entry_add gives no slot to two sessions, and              *)
(* pr_scoreboard_scrub erases none of a session that runs, although        *)
(* pr_scoreboard_entry_update takes no lock and pr_scoreboard_entry_del    *)
(* goes on without one.                                                    *)
THEOREM SlotIsOwn == DaemonScrubs /\ Spec => []OwnSlot
<1>1. IInv => OwnSlot
  BY DEF IInv
<1> QED BY <1>1, Inductive, PTL

(* Without crashes, a slot in use belongs to a running session: what       *)
(* sess_cleanup and pr_scoreboard_entry_del leave is never in the way of   *)
(* the counts.                                                             *)
THEOREM NothingLeft == DaemonScrubs /\ Spec => []NoLeftovers
<1>1. IInv => NoLeftovers
  BY DEF IInv, OneSlot, NoLeftovers
<1> QED BY <1>1, Inductive, PTL

-----------------------------------------------------------------------------
(* The limits.  What a step does to the orders in which sessions came.     *)

(* There are finitely many sessions.                                       *)
LEMMA PidsFinite ==
  ASSUME NEW B \in SUBSET Pids
  PROVE  IsFiniteSet(B) /\ Cardinality(B) \in Nat
BY ScoreboardAssumption, FS_Subset, FS_CardinalityType

(* Fewer are within a limit when more are.                                 *)
LEMMA WithinShrinks ==
  ASSUME NEW S, IsFiniteSet(S), NEW T \in SUBSET S, NEW max \in Nat,
         Within(Cardinality(S), max)
  PROVE  Within(Cardinality(T), max)
BY FS_Subset, FS_CardinalityType DEF Within

(* A function has no more values than arguments.                           *)
LEMMA ImageSize ==
  ASSUME NEW S, IsFiniteSet(S), NEW f
  PROVE  /\ IsFiniteSet({f[x] : x \in S})
         /\ Cardinality({f[x] : x \in S}) <= Cardinality(S)
<1> DEFINE T == {f[x] : x \in S}
           g == [x \in S |-> f[x]]
<1>1. g \in Surjection(S, T)
  BY DEF Surjection
<1> QED BY <1>1, FS_Surjection

(* A scan read at least as many entries as there are sessions it came upon.*)
LEMMA AtLeastAsMany ==
  ASSUME NEW B \in SUBSET Pids, NEW T, IsFiniteSet(T),
         \A q \in B : \E s \in T : s[1] = l_start[q],
         \A q, r \in B : l_start[q] = l_start[r] => q = r
  PROVE  Cardinality(B) <= Cardinality(T)
<1> DEFINE f == [q \in B |-> CHOOSE s \in T : s[1] = l_start[q]]
<1>1. \A q \in B : f[q] \in T /\ f[q][1] = l_start[q]
  OBVIOUS
<1>2. f \in [B -> T]
  BY <1>1
<1>3. \A q, r \in B : f[q] = f[r] => q = r
  BY <1>1
<1> HIDE DEF f
<1>4. f \in Injection(B, T)
  BY <1>2, <1>3 DEF Injection, IsInjective
<1> QED BY <1>4, FS_Injection

(* What a configuration holds.                                             *)
LEMMA ConfTypes ==
  ASSUME TypeOK
  PROVE  /\ MaxConnectionsPerHost \in Nat /\ MaxClientsPerHost \in Nat
         /\ MaxClientsPerUser \in Nat /\ MaxClients \in Nat
         /\ MaxHostsPerUser \in Nat /\ From \subseteq Hosts
<1>1. conf \in Confs
  BY DEF TypeOK
<1> QED
  BY <1>1, ScoreboardAssumption
     DEF Limits, MaxConnectionsPerHost, MaxClientsPerHost, MaxClientsPerUser,
         MaxClients, MaxHostsPerUser, From

(* No lock attempt is given up where AllCounted holds.                     *)
LEMMA NoLockFails ==
  ASSUME TypeOK, AllCounted
  PROVE  ~LockFails
BY DEF TypeOK, AllCounted, LockFails

(* Where nobody joins, CountFits stays: those before p can only leave.     *)
LEMMA CountFitsStays ==
  ASSUME TypeOK, NEW rank, NEW p \in Pids, CountFits(rank, p), NEW rank2,
         \A q \in Pids : pc'[q] \in CountedSteps /\ rank2[q] <= rank2[p] =>
            /\ pc[q] \in CountedSteps /\ rank[q] <= rank[p]
            /\ host'[q] = host[q] /\ user'[q] = user[q],
         host'[p] = host[p], user'[p] = user[p], conf' = conf
  PROVE  CountFits(rank2, p)'
<1> DEFINE others == NotLater(rank, CountedSteps, p)
           same_host == {q \in others : host[q] = host[p]}
           same_user == {q \in others : user[q] = user[p]}
           others2 == {q \in Pids : pc'[q] \in CountedSteps /\ rank2[q] <= rank2[p]}
           same_host2 == {q \in others2 : host'[q] = host'[p]}
           same_user2 == {q \in others2 : user'[q] = user'[p]}
<1>1. others2 \subseteq others
  BY DEF NotLater
<1>2. \A q \in others2 : host'[q] = host[q] /\ user'[q] = user[q]
  OBVIOUS
<1>3. /\ others \subseteq Pids /\ same_host \subseteq Pids /\ same_user \subseteq Pids
  BY DEF NotLater
<1>4. /\ IsFiniteSet(others) /\ IsFiniteSet(same_host) /\ IsFiniteSet(same_user)
  BY <1>3, PidsFinite
<1>5. same_host2 \subseteq same_host /\ same_user2 \subseteq same_user
  BY <1>1, <1>2
<1>6. IsFiniteSet({host[q] : q \in same_user})
  BY <1>4, ImageSize
<1>7. {host'[q] : q \in same_user2} \subseteq {host[q] : q \in same_user}
  BY <1>2, <1>5
<1>8. /\ MaxClients' = MaxClients /\ MaxClientsPerHost' = MaxClientsPerHost
      /\ MaxClientsPerUser' = MaxClientsPerUser
      /\ MaxHostsPerUser' = MaxHostsPerUser
  BY DEF MaxClients, MaxClientsPerHost, MaxClientsPerUser, MaxHostsPerUser
<1>9. /\ Within(Cardinality(others), MaxClients)
      /\ Within(Cardinality(same_host), MaxClientsPerHost)
      /\ Within(Cardinality(same_user), MaxClientsPerUser)
      /\ Within(Cardinality({host[q] : q \in same_user}), MaxHostsPerUser)
  BY DEF CountFits
<1>10. NotLater(rank2, CountedSteps, p)' = others2
  BY DEF NotLater
<1> HIDE DEF others, same_host, same_user, others2, same_host2, same_user2
<1>11. Within(Cardinality(others2), MaxClients)
  BY <1>1, <1>4, <1>9, ConfTypes, WithinShrinks
<1>12. Within(Cardinality(same_host2), MaxClientsPerHost)
  BY <1>5, <1>4, <1>9, ConfTypes, WithinShrinks
<1>13. Within(Cardinality(same_user2), MaxClientsPerUser)
  BY <1>5, <1>4, <1>9, ConfTypes, WithinShrinks
<1>14. Within(Cardinality({host'[q] : q \in same_user2}), MaxHostsPerUser)
  BY <1>6, <1>7, <1>9, ConfTypes, WithinShrinks
<1> QED BY <1>8, <1>10, <1>11, <1>12, <1>13, <1>14
        DEF CountFits, Within, same_host2, same_user2

(* The same for ScanFits.                                                  *)
LEMMA ScanFitsStays ==
  ASSUME TypeOK, NEW rank, NEW p \in Pids, ScanFits(rank, p), NEW rank2,
         \A q \in Pids : pc'[q] \in PresentSteps /\ rank2[q] <= rank2[p] =>
            /\ pc[q] \in PresentSteps /\ rank[q] <= rank[p]
            /\ host'[q] = host[q],
         host'[p] = host[p], conf' = conf
  PROVE  ScanFits(rank2, p)'
<1> DEFINE mine == {q \in NotLater(rank, PresentSteps, p) : host[q] = host[p]}
           mine2 == {q \in NotLater(rank2, PresentSteps, p)' : host'[q] = host'[p]}
<1>1. mine2 \subseteq mine
  BY DEF NotLater
<1>2. IsFiniteSet(mine)
  BY PidsFinite DEF NotLater
<1>3. Within(Cardinality(mine), MaxConnectionsPerHost)
  BY DEF ScanFits
<1> HIDE DEF mine, mine2
<1>4. Within(Cardinality(mine2), MaxConnectionsPerHost)
  BY <1>1, <1>2, <1>3, ConfTypes, WithinShrinks
<1> QED BY <1>4 DEF ScanFits, Within, MaxConnectionsPerHost, mine2

(* Where no session logs in, counts on or decides, the order stays.        *)
LEMMA CountOrderStays ==
  ASSUME TypeOK, NEW rank, CountOrder(rank), conf' = conf,
         \A q \in Pids : pc'[q] \in CountedSteps =>
            /\ pc[q] \in CountedSteps /\ l_start'[q] = l_start[q]
            /\ host'[q] = host[q] /\ user'[q] = user[q]
            /\ pc'[q] = "in" => pc[q] = "in"
            /\ pc'[q] # "in" => /\ pc[q] # "in"
                               /\ pos'[q] = pos[q] /\ seen'[q] = seen[q]
  PROVE  CountOrder(rank)'
<1>1. ASSUME NEW p \in Pids, pc'[p] \in {"count", "counting"},
             NEW q \in NotLater(rank, CountedSteps, p)', l_start'[q] < pos'[p]
      PROVE  SawUser(p, q)'
  <2>1. q \in Pids /\ pc'[q] \in CountedSteps /\ rank[q] <= rank[p]
    BY <1>1 DEF NotLater
  <2>2. /\ pc[p] \in {"count", "counting"} /\ pos'[p] = pos[p] /\ seen'[p] = seen[p]
    BY <1>1 DEF CountedSteps
  <2>3. q \in NotLater(rank, CountedSteps, p) /\ l_start[q] < pos[p]
    BY <1>1, <2>1, <2>2 DEF NotLater
  <2>4. SawUser(p, q)
    BY <2>2, <2>3 DEF CountOrder
  <2> QED BY <2>1, <2>2, <2>4 DEF SawUser
<1>2. ASSUME NEW p \in LoggedIn'
      PROVE  CountFits(rank, p)'
  <2>1. p \in Pids /\ p \in LoggedIn /\ host'[p] = host[p] /\ user'[p] = user[p]
    BY <1>2 DEF LoggedIn, CountedSteps
  <2>2. CountFits(rank, p)
    BY <2>1 DEF CountOrder
  <2>3. \A q \in Pids : pc'[q] \in CountedSteps /\ rank[q] <= rank[p] =>
            /\ pc[q] \in CountedSteps /\ rank[q] <= rank[p]
            /\ host'[q] = host[q] /\ user'[q] = user[q]
    OBVIOUS
  <2> QED BY <2>1, <2>2, <2>3, CountFitsStays
<1> QED BY <1>1, <1>2 DEF CountOrder, Ranks

(* The same for the order of the scans.                                    *)
LEMMA ScanOrderStays ==
  ASSUME TypeOK, NEW rank, ScanOrder(rank), conf' = conf,
         \A q \in Pids : pc'[q] \in PresentSteps =>
            /\ pc[q] \in PresentSteps /\ l_start'[q] = l_start[q]
            /\ host'[q] = host[q]
            /\ pc'[q] \notin {"scan", "scanning"} => pc[q] \notin {"scan", "scanning"}
            /\ pc'[q] \in {"scan", "scanning"} =>
                  /\ pc[q] \in {"scan", "scanning"}
                  /\ pos'[q] = pos[q] /\ seen'[q] = seen[q]
  PROVE  ScanOrder(rank)'
<1>1. ASSUME NEW p \in Pids, pc'[p] \in {"scan", "scanning"},
             NEW q \in NotLater(rank, PresentSteps, p)', l_start'[q] < pos'[p]
      PROVE  Saw(p, q)'
  <2>1. q \in Pids /\ pc'[q] \in PresentSteps /\ rank[q] <= rank[p]
    BY <1>1 DEF NotLater
  <2>2. /\ pc[p] \in {"scan", "scanning"} /\ pos'[p] = pos[p] /\ seen'[p] = seen[p]
    BY <1>1 DEF PresentSteps
  <2>3. q \in NotLater(rank, PresentSteps, p) /\ l_start[q] < pos[p]
    BY <1>1, <2>1, <2>2 DEF NotLater
  <2>4. Saw(p, q)
    BY <2>2, <2>3 DEF ScanOrder
  <2> QED BY <2>1, <2>2, <2>4 DEF Saw
<1>2. ASSUME NEW p \in Connected'
      PROVE  ScanFits(rank, p)'
  <2>1. p \in Pids /\ p \in Connected /\ host'[p] = host[p]
    BY <1>2 DEF Connected, PresentSteps
  <2>2. ScanFits(rank, p)
    BY <2>1 DEF ScanOrder
  <2>3. \A q \in Pids : pc'[q] \in PresentSteps /\ rank[q] <= rank[p] =>
            /\ pc[q] \in PresentSteps /\ rank[q] <= rank[p] /\ host'[q] = host[q]
    OBVIOUS
  <2> QED BY <2>1, <2>2, <2>3, ScanFitsStays
<1> QED BY <1>1, <1>2 DEF ScanOrder, Ranks

(* A new rank for p, after all others.                                     *)
LEMMA LastRank ==
  ASSUME NEW rank, Ranks(rank), NEW p \in Pids
  PROVE  \E last : /\ Ranks(last) /\ last \in [Pids -> Nat]
                   /\ \A q \in Pids : q # p => last[q] = rank[q] /\ last[q] < last[p]
<1>1. PICK n \in Nat : \A q \in Pids : rank[q] < n
  BY DEF Ranks
<1> DEFINE last == [rank EXCEPT ![p] = n]
<1>2. last \in [Pids -> Nat] /\ \A q \in Pids : q # p => last[q] = rank[q]
  BY DEF Ranks
<1>3. last[p] = n
  BY DEF Ranks
<1> HIDE DEF last
<1>4. \A q \in Pids : last[q] < n + 1
  BY <1>1, <1>2, <1>3
<1>5. Ranks(last)
  BY <1>2, <1>4 DEF Ranks
<1> QED BY <1>1, <1>2, <1>3, <1>5

(* One that joins the order after all others is in nobody's way.           *)
LEMMA CountOrderJoins ==
  ASSUME TypeOK, NEW rank, CountOrder(rank), conf' = conf, NEW p \in Pids,
         pc[p] \notin CountedSteps, l_start'[p] >= 1, pos'[p] = 1,
         \A q \in Pids : l_start'[q] \in Nat /\ l_start'[q] >= 0,
         pc'[p] = "count" \/ ~have_client_limits,
         pc'[p] \in CountedSteps,
         \A q \in Pids : q # p =>
            /\ pc'[q] = pc[q] /\ l_start'[q] = l_start[q]
            /\ host'[q] = host[q] /\ user'[q] = user[q]
            /\ pos'[q] = pos[q] /\ seen'[q] = seen[q],
         \A q \in Pids : pc'[q] \in CountedSteps => l_start'[q] >= 1
  PROVE  \E last \in [Pids -> Nat] : CountOrder(last)'
<1>1. PICK last : /\ Ranks(last) /\ last \in [Pids -> Nat]
                  /\ \A q \in Pids : q # p => last[q] = rank[q] /\ last[q] < last[p]
  BY LastRank DEF CountOrder
<1>2. ASSUME NEW r \in Pids, pc'[r] \in {"count", "counting"},
             NEW q \in NotLater(last, CountedSteps, r)', l_start'[q] < pos'[r]
      PROVE  SawUser(r, q)'
  <2>1. q \in Pids /\ pc'[q] \in CountedSteps /\ last[q] <= last[r]
    BY <1>2 DEF NotLater
  <2>2. r # p
    BY <1>2, <2>1
  <2>3. q # p
    BY <1>1, <2>1, <2>2
  <2>4. q \in NotLater(rank, CountedSteps, r) /\ l_start[q] < pos[r]
        /\ pc[r] \in {"count", "counting"}
    BY <1>1, <1>2, <2>1, <2>2, <2>3 DEF NotLater
  <2>5. SawUser(r, q)
    BY <2>4 DEF CountOrder
  <2> QED BY <2>1, <2>2, <2>3, <2>5 DEF SawUser
<1>3. ASSUME NEW r \in LoggedIn'
      PROVE  CountFits(last, r)'
  <2>1. CASE r = p
    <3>1. ~have_client_limits
      BY <1>3, <2>1 DEF LoggedIn
    <3>2. MaxClients = 0 /\ MaxClientsPerHost = 0 /\ MaxClientsPerUser = 0
          /\ MaxHostsPerUser = 0
      BY <3>1 DEF have_client_limits
    <3> QED BY <3>2 DEF CountFits, Within, MaxClients, MaxClientsPerHost,
                        MaxClientsPerUser, MaxHostsPerUser
  <2>2. CASE r # p
    <3>1. r \in Pids /\ r \in LoggedIn /\ host'[r] = host[r] /\ user'[r] = user[r]
      BY <1>3, <2>2 DEF LoggedIn
    <3>2. CountFits(rank, r)
      BY <3>1 DEF CountOrder
    <3>3. ASSUME NEW q \in Pids, pc'[q] \in CountedSteps, last[q] <= last[r]
          PROVE  /\ pc[q] \in CountedSteps /\ rank[q] <= rank[r]
                 /\ host'[q] = host[q] /\ user'[q] = user[q]
      <4>1. q # p
        BY <3>1, <3>3, <2>2, <1>1
      <4> QED BY <4>1, <3>1, <3>3, <2>2, <1>1
    <3> QED BY <3>1, <3>2, <3>3, CountFitsStays
  <2> QED BY <2>1, <2>2
<1>4. CountOrder(last)'
  BY <1>1, <1>2, <1>3 DEF CountOrder, Ranks
<1> QED BY <1>1, <1>4

(* The same for the order of the scans.                                    *)
LEMMA ScanOrderJoins ==
  ASSUME TypeOK, NEW rank, ScanOrder(rank), conf' = conf, NEW p \in Pids,
         pc[p] \notin PresentSteps, pos'[p] = 1, pc'[p] = "scan",
         \A q \in Pids : q # p =>
            /\ pc'[q] = pc[q] /\ l_start'[q] = l_start[q] /\ host'[q] = host[q]
            /\ pos'[q] = pos[q] /\ seen'[q] = seen[q],
         \A q \in Pids : l_start'[q] \in Nat,
         \A q \in Pids : pc'[q] \in PresentSteps => l_start'[q] >= 1
  PROVE  \E last \in [Pids -> Nat] : ScanOrder(last)'
<1>1. PICK last : /\ Ranks(last) /\ last \in [Pids -> Nat]
                  /\ \A q \in Pids : q # p => last[q] = rank[q] /\ last[q] < last[p]
  BY LastRank DEF ScanOrder
<1>2. ASSUME NEW r \in Pids, pc'[r] \in {"scan", "scanning"},
             NEW q \in NotLater(last, PresentSteps, r)', l_start'[q] < pos'[r]
      PROVE  Saw(r, q)'
  <2>1. q \in Pids /\ pc'[q] \in PresentSteps /\ last[q] <= last[r]
    BY <1>2 DEF NotLater
  <2>2. r # p
    BY <1>2, <2>1
  <2>3. q # p
    BY <1>1, <2>1, <2>2
  <2>4. q \in NotLater(rank, PresentSteps, r) /\ l_start[q] < pos[r]
        /\ pc[r] \in {"scan", "scanning"}
    BY <1>1, <1>2, <2>1, <2>2, <2>3 DEF NotLater
  <2>5. Saw(r, q)
    BY <2>4 DEF ScanOrder
  <2> QED BY <2>1, <2>2, <2>3, <2>5 DEF Saw
<1>3. ASSUME NEW r \in Connected'
      PROVE  ScanFits(last, r)'
  <2>1. r # p /\ r \in Pids
    BY <1>3 DEF Connected
  <2>2. r \in Connected /\ host'[r] = host[r]
    BY <1>3, <2>1 DEF Connected
  <2>3. ScanFits(rank, r)
    BY <2>2 DEF ScanOrder
  <2>4. ASSUME NEW q \in Pids, pc'[q] \in PresentSteps, last[q] <= last[r]
        PROVE  /\ pc[q] \in PresentSteps /\ rank[q] <= rank[r]
               /\ host'[q] = host[q]
    <3>1. q # p
      BY <2>1, <2>4, <1>1
    <3> QED BY <3>1, <2>1, <2>4, <1>1
  <2> QED BY <2>1, <2>2, <2>3, <2>4, ScanFitsStays
<1>4. ScanOrder(last)'
  BY <1>1, <1>2, <1>3 DEF ScanOrder, Ranks
<1> QED BY <1>1, <1>4

-----------------------------------------------------------------------------
(* What a scan has found, and what it has still to find.                   *)

(* A scan does not go past a slot in use.                                  *)
LEMMA NextSlotLeast ==
  ASSUME TypeOK, NEW p \in Procs, NEW i \in 1 .. Len(file),
         file[i].sce_pid # NULL, i >= pos[p]
  PROVE  NextSlot(p) <= i /\ NextSlot(p) \in Nat /\ NextSlot(p) >= pos[p]
<1>1. Len(file) \in Nat /\ pos[p] \in 1 .. Len(file) + 1
  BY DEF TypeOK
<1> PICK S : S = InUse(pos[p])
  OBVIOUS
<1>2. i \in S /\ S \in SUBSET Nat /\ \A k \in S : k >= pos[p]
  BY <1>1 DEF InUse
<1>3. PICK j \in S : \A k \in S : j <= k
  BY <1>2, LeastNatural
<1>4. NextSlot(p) = CHOOSE j0 \in S : \A k \in S : j0 <= k
  BY <1>2 DEF NextSlot
<1>5. NextSlot(p) \in S /\ \A k \in S : NextSlot(p) <= k
  BY <1>3, <1>4
<1> QED BY <1>2, <1>5

(* The slot of a session that counts itself among the announced.           *)
LEMMA SlotOf ==
  ASSUME IInv, Entered, NEW q \in Pids, pc[q] \in PresentSteps
  PROVE  /\ l_start[q] \in 1 .. Len(file) /\ Len(file) \in Nat
         /\ file[l_start[q]].sce_pid = q /\ q # NULL
         /\ file[l_start[q]].sce_client_addr = host[q] /\ host[q] \in Hosts
         /\ pc[q] \in CountedSteps =>
               /\ file[l_start[q]].sce_user = user[q] /\ user[q] \in Users
<1>1. have_entry[q] /\ pc[q] # "zero"
  BY DEF Entered, PresentSteps
<1>2. l_start[q] \in 1 .. Len(file) /\ file[l_start[q]].sce_pid = q
      /\ file[l_start[q]] = entry[q]
  BY <1>1 DEF IInv, OwnSlot
<1>3. host[q] \in Hosts
  BY DEF Entered, PresentSteps
<1> QED BY <1>2, <1>3, Constants DEF Entered, IInv, TypeOK

(* Two sessions have two slots.                                            *)
LEMMA SlotsDiffer ==
  ASSUME IInv, Entered, NEW q \in Pids, NEW r \in Pids, pc[q] \in PresentSteps,
         pc[r] \in PresentSteps, l_start[q] = l_start[r]
  PROVE  q = r
BY SlotOf

(* Who counts by name was counted by host before.                          *)
LEMMA CountedArePresent == CountedSteps \subseteq PresentSteps
BY DEF CountedSteps, PresentSteps

(* The next entry that a count comes upon.                                 *)
LEMMA CountOrderReads ==
  ASSUME IInv, Entered, NEW rank, CountOrder(rank), NEW p \in Pids,
         ReadEntry(p, "count")
  PROVE  CountOrder(rank)'
<1>1. p \in Procs /\ TypeOK /\ pc[p] = "counting"
  BY Constants DEF IInv, ReadEntry, ScanStep
<1> PICK k : k = NextSlot(p)
  OBVIOUS
<1>2. /\ k \in 1 .. Len(file) /\ Len(file) \in Nat
      /\ pos[p] \in 1 .. Len(file) + 1
  BY <1>1, NextSlotType DEF ReadEntry, TypeOK
<1>3. /\ seen' = [seen EXCEPT ![p] = @ \cup {<<k, file[k]>>}]
      /\ pos' = [pos EXCEPT ![p] = k + 1] /\ pc' = [pc EXCEPT ![p] = "count"]
      /\ UNCHANGED <<file, host, user, have_entry, l_start, entry, starts, conf>>
  BY DEF ReadEntry, Goto, private, fixed
<1>4. /\ pc'[p] = "count" /\ pos'[p] = k + 1
      /\ seen'[p] = seen[p] \cup {<<k, file[k]>>}
      /\ \A q \in Pids : q # p => /\ pc'[q] = pc[q] /\ pos'[q] = pos[q]
                                  /\ seen'[q] = seen[q]
  BY <1>1, <1>3, Constants DEF TypeOK
<1>5. \A q \in Pids : pc'[q] \in CountedSteps <=> pc[q] \in CountedSteps
  BY <1>1, <1>4 DEF CountedSteps
<1>6. ASSUME NEW r \in Pids, pc'[r] \in {"count", "counting"},
             NEW q \in NotLater(rank, CountedSteps, r)', l_start'[q] < pos'[r]
      PROVE  SawUser(r, q)'
  <2>1. q \in NotLater(rank, CountedSteps, r) /\ q \in Pids /\ pc[q] \in CountedSteps
    BY <1>5, <1>6 DEF NotLater
  <2>2. pc[r] \in {"count", "counting"}
    BY <1>1, <1>4, <1>6
  <2>3. CASE l_start[q] < pos[r]
    <3>1. SawUser(r, q)
      BY <2>1, <2>2, <2>3 DEF CountOrder
    <3>2. seen[r] \subseteq seen'[r]
      BY <1>4
    <3> QED BY <3>1, <3>2, <1>3 DEF SawUser
  <2>4. CASE ~(l_start[q] < pos[r])
    <3>1. r = p /\ l_start[q] <= k
      <4>1. r = p
        BY <1>3, <1>4, <1>6, <2>4
      <4>2. l_start[q] < k + 1
        BY <1>3, <1>4, <1>6, <4>1
      <4>3. l_start[q] \in 1 .. Len(file)
        BY <2>1, SlotOf, CountedArePresent
      <4> QED BY <4>1, <4>2, <4>3, <1>2
    <3>2. /\ l_start[q] \in 1 .. Len(file) /\ file[l_start[q]].sce_pid # NULL
          /\ file[l_start[q]].sce_client_addr = host[q]
          /\ file[l_start[q]].sce_user = user[q]
      BY <2>1, SlotOf, CountedArePresent
    <3>3. k <= l_start[q]
      BY <3>1, <3>2, <2>4, <1>1, <1>2, NextSlotLeast
    <3>4. l_start[q] = k
      BY <3>1, <3>2, <3>3, <1>2
    <3>5. <<k, file[k]>> \in seen'[r]
      BY <3>1, <1>4
    <3> QED BY <3>2, <3>4, <3>5, <1>3 DEF SawUser
  <2> QED BY <2>3, <2>4
<1>7. ASSUME NEW r \in LoggedIn'
      PROVE  CountFits(rank, r)'
  <2>1. r \in Pids /\ r \in LoggedIn
    BY <1>4, <1>7 DEF LoggedIn
  <2>2. CountFits(rank, r)
    BY <2>1 DEF CountOrder
  <2>3. \A q \in Pids : pc'[q] \in CountedSteps /\ rank[q] <= rank[r] =>
           /\ pc[q] \in CountedSteps /\ rank[q] <= rank[r]
           /\ host'[q] = host[q] /\ user'[q] = user[q]
    BY <1>3, <1>5
  <2> QED BY <1>1, <1>3, <2>1, <2>2, <2>3, CountFitsStays
<1> QED BY <1>6, <1>7 DEF CountOrder, Ranks

(* The same for the scan by host.                                          *)
LEMMA ScanOrderReads ==
  ASSUME IInv, Entered, NEW rank, ScanOrder(rank), NEW p \in Pids,
         ReadEntry(p, "scan")
  PROVE  ScanOrder(rank)'
<1>1. p \in Procs /\ TypeOK /\ pc[p] = "scanning"
  BY Constants DEF IInv, ReadEntry, ScanStep
<1> PICK k : k = NextSlot(p)
  OBVIOUS
<1>2. /\ k \in 1 .. Len(file) /\ Len(file) \in Nat
      /\ pos[p] \in 1 .. Len(file) + 1
  BY <1>1, NextSlotType DEF ReadEntry, TypeOK
<1>3. /\ seen' = [seen EXCEPT ![p] = @ \cup {<<k, file[k]>>}]
      /\ pos' = [pos EXCEPT ![p] = k + 1] /\ pc' = [pc EXCEPT ![p] = "scan"]
      /\ UNCHANGED <<file, host, user, have_entry, l_start, entry, starts, conf>>
  BY DEF ReadEntry, Goto, private, fixed
<1>4. /\ pc'[p] = "scan" /\ pos'[p] = k + 1
      /\ seen'[p] = seen[p] \cup {<<k, file[k]>>}
      /\ \A q \in Pids : q # p => /\ pc'[q] = pc[q] /\ pos'[q] = pos[q]
                                  /\ seen'[q] = seen[q]
  BY <1>1, <1>3, Constants DEF TypeOK
<1>5. \A q \in Pids : pc'[q] \in PresentSteps <=> pc[q] \in PresentSteps
  BY <1>1, <1>4 DEF PresentSteps
<1>6. ASSUME NEW r \in Pids, pc'[r] \in {"scan", "scanning"},
             NEW q \in NotLater(rank, PresentSteps, r)', l_start'[q] < pos'[r]
      PROVE  Saw(r, q)'
  <2>1. q \in NotLater(rank, PresentSteps, r) /\ q \in Pids /\ pc[q] \in PresentSteps
    BY <1>5, <1>6 DEF NotLater
  <2>2. pc[r] \in {"scan", "scanning"}
    BY <1>1, <1>4, <1>6
  <2>3. CASE l_start[q] < pos[r]
    <3>1. Saw(r, q)
      BY <2>1, <2>2, <2>3 DEF ScanOrder
    <3>2. seen[r] \subseteq seen'[r]
      BY <1>4
    <3> QED BY <3>1, <3>2, <1>3 DEF Saw
  <2>4. CASE ~(l_start[q] < pos[r])
    <3>1. r = p /\ l_start[q] <= k
      <4>1. r = p
        BY <1>3, <1>4, <1>6, <2>4
      <4>2. l_start[q] < k + 1
        BY <1>3, <1>4, <1>6, <4>1
      <4>3. l_start[q] \in 1 .. Len(file)
        BY <2>1, SlotOf
      <4> QED BY <4>1, <4>2, <4>3, <1>2
    <3>2. /\ l_start[q] \in 1 .. Len(file) /\ file[l_start[q]].sce_pid # NULL
          /\ file[l_start[q]].sce_client_addr = host[q]
      BY <2>1, SlotOf
    <3>3. k <= l_start[q]
      BY <3>1, <3>2, <2>4, <1>1, <1>2, NextSlotLeast
    <3>4. l_start[q] = k
      BY <3>1, <3>2, <3>3, <1>2
    <3>5. <<k, file[k]>> \in seen'[r]
      BY <3>1, <1>4
    <3> QED BY <3>2, <3>4, <3>5, <1>3 DEF Saw
  <2> QED BY <2>3, <2>4
<1>7. ASSUME NEW r \in Connected'
      PROVE  ScanFits(rank, r)'
  <2>1. r \in Pids /\ r \in Connected
    BY <1>4, <1>7 DEF Connected
  <2>2. ScanFits(rank, r)
    BY <2>1 DEF ScanOrder
  <2>3. \A q \in Pids : pc'[q] \in PresentSteps /\ rank[q] <= rank[r] =>
           /\ pc[q] \in PresentSteps /\ rank[q] <= rank[r] /\ host'[q] = host[q]
    BY <1>3, <1>5
  <2> QED BY <1>1, <1>3, <2>1, <2>2, <2>3, ScanFitsStays
<1> QED BY <1>6, <1>7 DEF ScanOrder, Ranks

(* At the end of a scan every slot in use was passed.                      *)
LEMMA AllPassed ==
  ASSUME IInv, Entered, NEW p \in Pids, NextSlot(p) > Len(file), NEW q \in Pids,
         pc[q] \in PresentSteps
  PROVE  l_start[q] < pos[p]
<1>1. TypeOK /\ p \in Procs
  BY Constants DEF IInv
<1>2. /\ l_start[q] \in 1 .. Len(file) /\ file[l_start[q]].sce_pid # NULL
      /\ Len(file) \in Nat
  BY SlotOf
<1>3. pos[p] \in 1 .. Len(file) + 1
  BY <1>1 DEF TypeOK
<1> SUFFICES ASSUME l_start[q] >= pos[p] PROVE FALSE
  BY <1>2, <1>3
<1>4. NextSlot(p) <= l_start[q] /\ NextSlot(p) \in Nat
  BY <1>1, <1>2, NextSlotLeast
<1> QED BY <1>2, <1>4

(* A count that refuses nobody has found those before it within the        *)
(* limits.                                                                 *)
LEMMA CountedFits ==
  ASSUME IInv, Entered, AllCounted, NEW rank, CountOrder(rank), NEW p \in Pids,
         pc[p] \in {"count", "counting"}, NextSlot(p) > Len(file), ~OverLimit(p)
  PROVE  CountFits(rank, p)
<1> DEFINE others == NotLater(rank, CountedSteps, p)
           same_host == {q \in others : host[q] = host[p]}
           same_user == {q \in others : user[q] = user[p]}
<1>1. others \in SUBSET Pids /\ \A q \in others : pc[q] \in CountedSteps
  BY DEF NotLater
<1>2. \A q \in others : SawUser(p, q)
  <2> SUFFICES ASSUME NEW q \in others PROVE SawUser(p, q)
    OBVIOUS
  <2>1. l_start[q] < pos[p]
    BY <1>1, AllPassed, CountedArePresent
  <2> QED BY <2>1 DEF CountOrder
<1> HIDE DEF others
<1>3. \A q \in others : host[q] \in Hosts /\ user[q] \in Users
  BY <1>1, SlotOf, CountedArePresent
<1>4. \A q, r \in others : l_start[q] = l_start[r] => q = r
  BY <1>1, SlotsDiffer, CountedArePresent
<1>5. ASSUME NEW q \in others
      PROVE  \E s \in Authenticated(p) :
                /\ s[1] = l_start[q] /\ s[2].sce_client_addr = host[q]
                /\ s[2].sce_user = user[q]
  <2>1. PICK s \in seen[p] : /\ s[1] = l_start[q] /\ s[2].sce_client_addr = host[q]
                             /\ s[2].sce_user = user[q]
    BY <1>2 DEF SawUser
  <2>2. host[q] # NULL /\ user[q] # None
    BY <1>3, Constants DEF AllCounted
  <2> QED BY <2>1, <2>2 DEF Authenticated, ThisServer
<1>6. /\ IsFiniteSet(Authenticated(p))
      /\ IsFiniteSet(Authenticated(p) \cap SameHost(p))
      /\ IsFiniteSet(SameUser(p)) /\ IsFiniteSet(SameUser(p) \ SameHost(p))
  <2>1. IsFiniteSet(seen[p])
    BY DEF Entered
  <2>2. /\ Authenticated(p) \in SUBSET seen[p]
        /\ Authenticated(p) \cap SameHost(p) \in SUBSET seen[p]
        /\ SameUser(p) \in SUBSET seen[p] /\ SameUser(p) \ SameHost(p) \in SUBSET seen[p]
    BY DEF Authenticated, ThisServer, SameUser, SameHost
  <2> QED BY <2>1, <2>2, FS_Subset
<1>7. Cardinality(others) <= cur(p)
  BY <1>1, <1>4, <1>5, <1>6, AtLeastAsMany DEF cur
<1>8. Cardinality(same_host) <= hcur(p)
  <2>1. \A q \in same_host : \E s \in Authenticated(p) \cap SameHost(p) : s[1] = l_start[q]
    BY <1>5 DEF SameHost, Authenticated
  <2>2. same_host \in SUBSET Pids
    BY <1>1
  <2> QED BY <1>4, <1>6, <2>1, <2>2, AtLeastAsMany DEF hcur
<1>9. Cardinality(same_user) <= usersessions(p)
  <2>1. \A q \in same_user : \E s \in SameUser(p) : s[1] = l_start[q]
    BY <1>5 DEF SameUser
  <2>2. same_user \in SUBSET Pids
    BY <1>1
  <2> QED BY <1>4, <1>6, <2>1, <2>2, AtLeastAsMany DEF usersessions
<1>10. Cardinality({host[q] : q \in same_user}) <= hostsperuser(p)
  <2> DEFINE T == SameUser(p) \ SameHost(p)
             f == [s \in T |-> s[2].sce_client_addr]
             H == {f[s] : s \in T}
  <2>1. IsFiniteSet(H) /\ Cardinality(H) <= Cardinality(T)
    BY <1>6, ImageSize
  <2>2. {host[q] : q \in same_user} \subseteq H \cup {host[p]}
    <3> SUFFICES ASSUME NEW q \in same_user, host[q] # host[p] PROVE host[q] \in H
      OBVIOUS
    <3>1. PICK s \in Authenticated(p) : /\ s[2].sce_client_addr = host[q]
                                        /\ s[2].sce_user = user[q]
      BY <1>5
    <3>2. s \in T
      BY <3>1 DEF SameUser, SameHost
    <3> QED BY <3>1, <3>2
  <2> HIDE DEF H, T, f
  <2>3. /\ IsFiniteSet(H \cup {host[p]})
        /\ Cardinality(H \cup {host[p]}) <= Cardinality(H) + 1
    <3>1. Cardinality(H) \in Nat
      BY <2>1, FS_CardinalityType
    <3>2. /\ IsFiniteSet(H \cup {host[p]})
          /\ \/ Cardinality(H \cup {host[p]}) = Cardinality(H)
             \/ Cardinality(H \cup {host[p]}) = Cardinality(H) + 1
      BY <2>1, FS_AddElement
    <3> QED BY <3>1, <3>2
  <2>4. /\ Cardinality({host[q] : q \in same_user}) <= Cardinality(H \cup {host[p]})
        /\ IsFiniteSet({host[q] : q \in same_user})
    BY <2>2, <2>3, FS_Subset
  <2>5. /\ Cardinality(H) \in Nat /\ Cardinality(T) \in Nat
        /\ Cardinality(H \cup {host[p]}) \in Nat
        /\ Cardinality({host[q] : q \in same_user}) \in Nat
    BY <1>6, <2>1, <2>3, <2>4, FS_CardinalityType DEF T
  <2> QED BY <2>1, <2>3, <2>4, <2>5 DEF hostsperuser, T
<1>11. /\ cur(p) \in Nat /\ hcur(p) \in Nat /\ usersessions(p) \in Nat
       /\ hostsperuser(p) \in Nat
  BY <1>6, FS_CardinalityType DEF cur, hcur, usersessions, hostsperuser
<1>12. /\ Cardinality(others) \in Nat /\ Cardinality(same_host) \in Nat
       /\ Cardinality(same_user) \in Nat
       /\ Cardinality({host[q] : q \in same_user}) \in Nat
  <2>1. others \in SUBSET Pids /\ same_host \in SUBSET Pids /\ same_user \in SUBSET Pids
    BY <1>1
  <2>2. IsFiniteSet(same_user) /\ Cardinality(others) \in Nat
        /\ Cardinality(same_host) \in Nat /\ Cardinality(same_user) \in Nat
    BY <2>1, PidsFinite
  <2>3. IsFiniteSet({host[q] : q \in same_user})
    BY <2>2, ImageSize
  <2> QED BY <2>2, <2>3, FS_CardinalityType
<1>13. /\ MaxClientsPerHost \in Nat /\ MaxClientsPerUser \in Nat
       /\ MaxClients \in Nat /\ MaxHostsPerUser \in Nat
  BY ConfTypes DEF IInv
<1>14. /\ Within(cur(p), MaxClients) /\ Within(hcur(p), MaxClientsPerHost)
       /\ Within(usersessions(p), MaxClientsPerUser)
       /\ Within(hostsperuser(p), MaxHostsPerUser)
  BY <1>11, <1>13 DEF OverLimit, Exceeds, Within
<1> HIDE DEF same_host, same_user
<1>15. /\ Within(Cardinality(others), MaxClients)
       /\ Within(Cardinality(same_host), MaxClientsPerHost)
       /\ Within(Cardinality(same_user), MaxClientsPerUser)
       /\ Within(Cardinality({host[q] : q \in same_user}), MaxHostsPerUser)
  BY <1>7, <1>8, <1>9, <1>10, <1>11, <1>12, <1>13, <1>14 DEF Within
<1> QED BY <1>15 DEF CountFits, others, same_host, same_user

(* The same for the scan by host.                                          *)
LEMMA ScannedFits ==
  ASSUME IInv, Entered, NEW rank, ScanOrder(rank), NEW p \in Pids,
         pc[p] \in {"scan", "scanning"}, NextSlot(p) > Len(file),
         ~TooManyConnections(p)
  PROVE  ScanFits(rank, p)
<1> DEFINE mine == {q \in NotLater(rank, PresentSteps, p) : host[q] = host[p]}
<1>1. mine \in SUBSET Pids /\ \A q \in mine : pc[q] \in PresentSteps /\ host[q] = host[p]
  BY DEF NotLater
<1>2. \A q \in mine : Saw(p, q)
  <2> SUFFICES ASSUME NEW q \in mine PROVE Saw(p, q)
    OBVIOUS
  <2>1. l_start[q] < pos[p]
    BY <1>1, AllPassed
  <2> QED BY <2>1 DEF ScanOrder
<1> HIDE DEF mine
<1>3. \A q \in mine : host[q] \in Hosts /\ host[q] # NULL
  BY <1>1, SlotOf, Constants
<1>4. \A q, r \in mine : l_start[q] = l_start[r] => q = r
  BY <1>1, SlotsDiffer
<1>5. \A q \in mine : \E s \in SameHost(p) : s[1] = l_start[q]
  BY <1>1, <1>2, <1>3 DEF SameHost, ThisServer, Saw
<1>6. IsFiniteSet(SameHost(p))
  <2>1. IsFiniteSet(seen[p]) /\ SameHost(p) \in SUBSET seen[p]
    BY DEF Entered, SameHost, ThisServer
  <2> QED BY <2>1, FS_Subset
<1>7. Cardinality(mine) <= Cardinality(SameHost(p))
  BY <1>1, <1>4, <1>5, <1>6, AtLeastAsMany
<1>8. Cardinality(SameHost(p)) \in Nat /\ Cardinality(mine) \in Nat
      /\ MaxConnectionsPerHost \in Nat
  BY <1>1, <1>6, FS_CardinalityType, PidsFinite, ConfTypes DEF IInv
<1>9. Within(Cardinality(mine), MaxConnectionsPerHost)
  BY <1>7, <1>8 DEF TooManyConnections, Exceeds, Within
<1> QED BY <1>9 DEF ScanFits, mine

-----------------------------------------------------------------------------
(* Steps that leave both orders as they are.                               *)

(* What a step has to leave alone for both orders to stay.                 *)
Undisturbed(p) ==
    /\ conf' = conf
    /\ \A q \in Pids : q # p =>
          /\ pc'[q] = pc[q] /\ l_start'[q] = l_start[q] /\ host'[q] = host[q]
          /\ user'[q] = user[q] /\ pos'[q] = pos[q] /\ seen'[q] = seen[q]
          /\ have_entry'[q] = have_entry[q] /\ entry'[q] = entry[q]

(* A process that stays where it is in the orders, or leaves them.         *)
Stays(p) ==
    /\ pc'[p] \in PresentSteps =>
          /\ pc[p] \in PresentSteps /\ l_start'[p] = l_start[p] /\ host'[p] = host[p]
          /\ pc'[p] \in {"scan", "scanning"} <=> pc[p] \in {"scan", "scanning"}
          /\ pc'[p] \in {"count", "counting"} <=> pc[p] \in {"count", "counting"}
          /\ pc'[p] \in {"scan", "scanning", "count", "counting"} =>
                pos'[p] = pos[p] /\ seen'[p] = seen[p]
    /\ pc'[p] \in CountedSteps => pc[p] \in CountedSteps /\ user'[p] = user[p]

(* Such a step keeps both orders.                                          *)
LEMMA StaysOrdered ==
  ASSUME IInv, LimitInv, NEW p \in Procs, Undisturbed(p), Stays(p), Entered'
  PROVE  LimitInv'
<1>0. TypeOK
  BY DEF IInv
<1>1. PICK rank \in [Pids -> Nat] : CountOrder(rank)
  BY DEF LimitInv
<1>2. CountOrder(rank)'
  <2>1. \A q \in Pids : pc'[q] \in CountedSteps =>
            /\ pc[q] \in CountedSteps /\ l_start'[q] = l_start[q]
            /\ host'[q] = host[q] /\ user'[q] = user[q]
            /\ pc'[q] = "in" => pc[q] = "in"
            /\ pc'[q] # "in" => /\ pc[q] # "in"
                               /\ pos'[q] = pos[q] /\ seen'[q] = seen[q]
    BY DEF Undisturbed, Stays, CountedSteps, PresentSteps
  <2> QED BY <1>0, <1>1, <2>1, CountOrderStays DEF Undisturbed
<1>3. PICK rank2 \in [Pids -> Nat] : ScanOrder(rank2)
  BY DEF LimitInv
<1>4. ScanOrder(rank2)'
  <2>1. \A q \in Pids : pc'[q] \in PresentSteps =>
            /\ pc[q] \in PresentSteps /\ l_start'[q] = l_start[q]
            /\ host'[q] = host[q]
            /\ pc'[q] \notin {"scan", "scanning"} => pc[q] \notin {"scan", "scanning"}
            /\ pc'[q] \in {"scan", "scanning"} =>
                  /\ pc[q] \in {"scan", "scanning"}
                  /\ pos'[q] = pos[q] /\ seen'[q] = seen[q]
    BY DEF Undisturbed, Stays
  <2> QED BY <1>0, <1>3, <2>1, ScanOrderStays DEF Undisturbed
<1> QED BY <1>1, <1>2, <1>3, <1>4 DEF LimitInv

(* What is to be known of the process that takes the step.                 *)
EnteredAt(p) ==
    /\ pc[p] \notin {"dead", "other", "add", "adding", "write"}
          => have_entry[p]
    /\ pc[p] \notin {"dead", "other"} => host[p] \in Hosts
    /\ pc[p] \in PresentSteps => entry[p].sce_client_addr = host[p]
    /\ pc[p] \in CountedSteps => user[p] \in Users /\ entry[p].sce_user = user[p]
    /\ IsFiniteSet(seen[p])

(* Entered is kept for those that the step does not disturb.               *)
LEMMA OthersEntered ==
  ASSUME Entered, NEW p \in Procs, Undisturbed(p), p \in Pids => EnteredAt(p)'
  PROVE  Entered'
BY DEF Entered, EnteredAt, Undisturbed

(* A session that starts keeps both orders.                                *)
LEMMA StartOrdered ==
  ASSUME IInv, LimitInv, NEW p \in Pids, NEW h \in From, Start(p, h)
  PROVE  LimitInv'
<1> USE Constants DEF Start, Goto, private, fixed
<1>1. Undisturbed(p)
  BY DEF IInv, TypeOK, Undisturbed
<1>2. p \in Pids => EnteredAt(p)'
  BY ConfTypes, WhoIsWhere DEF IInv, TypeOK, Entered, LimitInv, EnteredAt, PresentSteps, CountedSteps
<1>3. Stays(p)
  BY WhoIsWhere DEF IInv, TypeOK, Stays, PresentSteps, CountedSteps
<1>4. Entered'
  BY <1>1, <1>2, OthersEntered DEF LimitInv
<1> QED BY <1>1, <1>3, <1>4, StaysOrdered

(* The lock of pr_scoreboard_entry_add keeps both orders.                  *)
LEMMA AddLockOrdered ==
  ASSUME IInv, LimitInv, NEW p \in Procs, AddLock(p)
  PROVE  LimitInv'
<1> USE Constants DEF AddLock, Goto, private, fixed
<1>1. Undisturbed(p)
  BY DEF IInv, TypeOK, Undisturbed
<1>2. p \in Pids => EnteredAt(p)'
  BY WhoIsWhere DEF IInv, TypeOK, Entered, LimitInv, EnteredAt, PresentSteps, CountedSteps
<1>3. Stays(p)
  BY WhoIsWhere DEF IInv, TypeOK, Stays, PresentSteps, CountedSteps
<1>4. Entered'
  BY <1>1, <1>2, OthersEntered DEF LimitInv
<1> QED BY <1>1, <1>3, <1>4, StaysOrdered

(* The search for a free slot keeps both orders.                           *)
LEMMA AddReadOrdered ==
  ASSUME IInv, LimitInv, NEW p \in Procs, AddRead(p)
  PROVE  LimitInv'
<1> USE Constants DEF AddRead, Goto, private, fixed
<1>1. Undisturbed(p)
  BY DEF IInv, TypeOK, Undisturbed
<1>2. p \in Pids => EnteredAt(p)'
  BY WhoIsWhere DEF IInv, TypeOK, Entered, LimitInv, EnteredAt, PresentSteps, CountedSteps
<1>3. Stays(p)
  BY WhoIsWhere DEF IInv, TypeOK, Stays, PresentSteps, CountedSteps
<1>4. Entered'
  BY <1>1, <1>2, OthersEntered DEF LimitInv
<1> QED BY <1>1, <1>3, <1>4, StaysOrdered

(* The first write of the slot found keeps both orders.                    *)
LEMMA AddWriteOrdered ==
  ASSUME IInv, LimitInv, NEW p \in Procs, AddWrite(p)
  PROVE  LimitInv'
<1> USE Constants DEF AddWrite, Goto, private, fixed
<1>1. Undisturbed(p)
  BY DEF IInv, TypeOK, Undisturbed
<1>2. p \in Pids => EnteredAt(p)'
  BY WhoIsWhere DEF IInv, TypeOK, Entered, LimitInv, EnteredAt, PresentSteps, CountedSteps
<1>3. Stays(p)
  BY WhoIsWhere DEF IInv, TypeOK, Stays, PresentSteps, CountedSteps
<1>4. Entered'
  BY <1>1, <1>2, OthersEntered DEF LimitInv
<1> QED BY <1>1, <1>3, <1>4, StaysOrdered

(* The read lock of a scan keeps both orders.                              *)
LEMMA ReadLockOrdered ==
  ASSUME IInv, LimitInv, NEW p \in Procs, ReadLock(p)
  PROVE  LimitInv'
<1> USE Constants DEF ReadLock, ScanStep, Goto, private, fixed
<1>1. Undisturbed(p)
  BY DEF IInv, TypeOK, Undisturbed
<1>2. p \in Pids => EnteredAt(p)'
  BY WhoIsWhere DEF IInv, TypeOK, Entered, LimitInv, EnteredAt, PresentSteps, CountedSteps
<1>3. Stays(p)
  BY WhoIsWhere DEF IInv, TypeOK, Stays, PresentSteps, CountedSteps
<1>4. Entered'
  BY <1>1, <1>2, OthersEntered DEF LimitInv
<1> QED BY <1>1, <1>3, <1>4, StaysOrdered

(* HOST keeps both orders.                                                 *)
LEMMA HostOrdered ==
  ASSUME IInv, LimitInv, NEW p \in Pids, Host(p)
  PROVE  LimitInv'
<1> USE Constants DEF Host, Goto, private, fixed
<1>1. Undisturbed(p)
  BY DEF IInv, TypeOK, Undisturbed
<1>2. p \in Pids => EnteredAt(p)'
  BY WhoIsWhere DEF IInv, TypeOK, Entered, LimitInv, EnteredAt, PresentSteps, CountedSteps
<1>3. Stays(p)
  BY WhoIsWhere DEF IInv, TypeOK, Stays, PresentSteps, CountedSteps
<1>4. Entered'
  BY <1>1, <1>2, OthersEntered DEF LimitInv
<1> QED BY <1>1, <1>3, <1>4, StaysOrdered

(* Pr_scoreboard_entry_update keeps both orders.                           *)
LEMMA UpdateOrdered ==
  ASSUME IInv, LimitInv, NEW p \in Pids, Update(p)
  PROVE  LimitInv'
<1> USE Constants DEF Update, pr_scoreboard_entry_update, Goto, private, fixed
<1>1. Undisturbed(p)
  BY DEF IInv, TypeOK, Undisturbed
<1>2. p \in Pids => EnteredAt(p)'
  BY WhoIsWhere DEF IInv, TypeOK, Entered, LimitInv, EnteredAt, PresentSteps, CountedSteps
<1>3. Stays(p)
  BY WhoIsWhere DEF IInv, TypeOK, Stays, PresentSteps, CountedSteps
<1>4. Entered'
  BY <1>1, <1>2, OthersEntered DEF LimitInv
<1> QED BY <1>1, <1>3, <1>4, StaysOrdered

(* The lock of pr_scoreboard_entry_del keeps both orders.                  *)
LEMMA DelLockOrdered ==
  ASSUME IInv, LimitInv, NEW p \in Procs, DelLock(p)
  PROVE  LimitInv'
<1> USE Constants DEF DelLock, Goto, private, fixed
<1>1. Undisturbed(p)
  BY DEF IInv, TypeOK, Undisturbed
<1>2. p \in Pids => EnteredAt(p)'
  BY WhoIsWhere DEF IInv, TypeOK, Entered, LimitInv, EnteredAt, PresentSteps, CountedSteps
<1>3. Stays(p)
  BY WhoIsWhere DEF IInv, TypeOK, Stays, PresentSteps, CountedSteps
<1>4. Entered'
  BY <1>1, <1>2, OthersEntered DEF LimitInv
<1> QED BY <1>1, <1>3, <1>4, StaysOrdered

(* A pid taken by another program keeps both orders.                       *)
LEMMA OtherStartOrdered ==
  ASSUME IInv, LimitInv, NEW p \in Pids, OtherStart(p)
  PROVE  LimitInv'
<1> USE Constants DEF OtherStart, Goto, private, fixed
<1>1. Undisturbed(p)
  BY DEF IInv, TypeOK, Undisturbed
<1>2. p \in Pids => EnteredAt(p)'
  BY WhoIsWhere DEF IInv, TypeOK, Entered, LimitInv, EnteredAt, PresentSteps, CountedSteps
<1>3. Stays(p)
  BY WhoIsWhere DEF IInv, TypeOK, Stays, PresentSteps, CountedSteps
<1>4. Entered'
  BY <1>1, <1>2, OthersEntered DEF LimitInv
<1> QED BY <1>1, <1>3, <1>4, StaysOrdered

(* Another program that ends keeps both orders.                            *)
LEMMA OtherExitOrdered ==
  ASSUME IInv, LimitInv, NEW p \in Pids, OtherExit(p)
  PROVE  LimitInv'
<1> USE Constants DEF OtherExit, Goto, private, fixed
<1>1. Undisturbed(p)
  BY DEF IInv, TypeOK, Undisturbed
<1>2. p \in Pids => EnteredAt(p)'
  BY WhoIsWhere DEF IInv, TypeOK, Entered, LimitInv, EnteredAt, PresentSteps, CountedSteps
<1>3. Stays(p)
  BY WhoIsWhere DEF IInv, TypeOK, Stays, PresentSteps, CountedSteps
<1>4. Entered'
  BY <1>1, <1>2, OthersEntered DEF LimitInv
<1> QED BY <1>1, <1>3, <1>4, StaysOrdered

(* The lock of pr_scoreboard_scrub keeps both orders.                      *)
LEMMA ScrubLockOrdered ==
  ASSUME IInv, LimitInv, NEW p \in Procs, ScrubLock(p)
  PROVE  LimitInv'
<1> USE Constants DEF ScrubLock, Goto, private, fixed
<1>1. Undisturbed(p)
  BY DEF IInv, TypeOK, Undisturbed
<1>2. p \in Pids => EnteredAt(p)'
  BY WhoIsWhere DEF IInv, TypeOK, Entered, LimitInv, EnteredAt, PresentSteps, CountedSteps
<1>3. Stays(p)
  BY WhoIsWhere DEF IInv, TypeOK, Stays, PresentSteps, CountedSteps
<1>4. Entered'
  BY <1>1, <1>2, OthersEntered DEF LimitInv
<1> QED BY <1>1, <1>3, <1>4, StaysOrdered

(* A scrub without the lock keeps both orders.                             *)
LEMMA ScrubFailsOrdered ==
  ASSUME IInv, LimitInv, NEW p \in Procs, ScrubFails(p)
  PROVE  LimitInv'
<1> USE Constants DEF ScrubFails, AfterScrub, Goto, private, fixed
<1>1. Undisturbed(p)
  BY DEF IInv, TypeOK, Undisturbed
<1>2. p \in Pids => EnteredAt(p)'
  BY WhoIsWhere DEF IInv, TypeOK, Entered, LimitInv, EnteredAt, PresentSteps, CountedSteps
<1>3. Stays(p)
  BY WhoIsWhere DEF IInv, TypeOK, Stays, PresentSteps, CountedSteps
<1>4. Entered'
  BY <1>1, <1>2, OthersEntered DEF LimitInv
<1> QED BY <1>1, <1>3, <1>4, StaysOrdered

(* A slot that the scrub looks at keeps both orders.                       *)
LEMMA ScrubReadOrdered ==
  ASSUME IInv, LimitInv, NEW p \in Procs, ScrubRead(p)
  PROVE  LimitInv'
<1> USE Constants DEF ScrubRead, Goto, private, fixed
<1>1. Undisturbed(p)
  BY DEF IInv, TypeOK, Undisturbed
<1>2. p \in Pids => EnteredAt(p)'
  BY WhoIsWhere DEF IInv, TypeOK, Entered, LimitInv, EnteredAt, PresentSteps, CountedSteps
<1>3. Stays(p)
  BY WhoIsWhere DEF IInv, TypeOK, Stays, PresentSteps, CountedSteps
<1>4. Entered'
  BY <1>1, <1>2, OthersEntered DEF LimitInv
<1> QED BY <1>1, <1>3, <1>4, StaysOrdered

(* A slot that the scrub erases keeps both orders.                         *)
LEMMA ScrubEraseOrdered ==
  ASSUME IInv, LimitInv, NEW p \in Procs, ScrubErase(p)
  PROVE  LimitInv'
<1> USE Constants DEF ScrubErase, Goto, private, fixed
<1>1. Undisturbed(p)
  BY DEF IInv, TypeOK, Undisturbed
<1>2. p \in Pids => EnteredAt(p)'
  BY WhoIsWhere DEF IInv, TypeOK, Entered, LimitInv, EnteredAt, PresentSteps, CountedSteps
<1>3. Stays(p)
  BY WhoIsWhere DEF IInv, TypeOK, Stays, PresentSteps, CountedSteps
<1>4. Entered'
  BY <1>1, <1>2, OthersEntered DEF LimitInv
<1> QED BY <1>1, <1>3, <1>4, StaysOrdered

(* The end of the scrub keeps both orders.                                 *)
LEMMA ScrubEndsOrdered ==
  ASSUME IInv, LimitInv, NEW p \in Procs, ScrubEnds(p)
  PROVE  LimitInv'
<1> USE Constants DEF ScrubEnds, AfterScrub, Goto, private, fixed
<1>1. Undisturbed(p)
  BY DEF IInv, TypeOK, Undisturbed
<1>2. p \in Pids => EnteredAt(p)'
  BY WhoIsWhere DEF IInv, TypeOK, Entered, LimitInv, EnteredAt, PresentSteps, CountedSteps
<1>3. Stays(p)
  BY WhoIsWhere DEF IInv, TypeOK, Stays, PresentSteps, CountedSteps
<1>4. Entered'
  BY <1>1, <1>2, OthersEntered DEF LimitInv
<1> QED BY <1>1, <1>3, <1>4, StaysOrdered

(* A session that is gone keeps both orders.                               *)
LEMMA ExitOrdered ==
  ASSUME IInv, LimitInv, NEW p \in Pids, Exit(p)
  PROVE  LimitInv'
<1> USE Constants DEF Exit, Rewind, Goto, private, fixed
<1>1. Undisturbed(p)
  BY DEF IInv, TypeOK, Undisturbed
<1>2. p \in Pids => EnteredAt(p)'
  BY FS_EmptySet, WhoIsWhere DEF IInv, TypeOK, Entered, LimitInv, EnteredAt, PresentSteps, CountedSteps
<1>3. Stays(p)
  BY WhoIsWhere DEF IInv, TypeOK, Stays, PresentSteps, CountedSteps
<1>4. Entered'
  BY <1>1, <1>2, OthersEntered DEF LimitInv
<1> QED BY <1>1, <1>3, <1>4, StaysOrdered

-----------------------------------------------------------------------------
(* Steps of those that are in the orders.                                  *)

(* At first nobody is in either order.                                     *)
LEMMA InitOrdered ==
  ASSUME Init  PROVE LimitInv
<1>1. \A p \in Pids : pc[p] = "dead" /\ seen[p] = {}
  BY Constants DEF Init
<1>2. Entered
  BY <1>1, FS_EmptySet DEF Entered, PresentSteps, CountedSteps
<1> DEFINE rank == [p \in Pids |-> 0]
<1>3. rank \in [Pids -> Nat] /\ Ranks(rank)
  <2>1. rank \in [Pids -> Nat] /\ \A p \in Pids : rank[p] < 1
    OBVIOUS
  <2> QED BY <2>1 DEF Ranks
<1> HIDE DEF rank
<1>4. CountOrder(rank)
  BY <1>1, <1>3 DEF CountOrder, LoggedIn
<1>5. ScanOrder(rank)
  BY <1>1, <1>3 DEF ScanOrder, Connected
<1> QED BY <1>2, <1>3, <1>4, <1>5 DEF LimitInv

(* A session that ends leaves both orders.                                 *)
LEMMA SessionEndOrdered ==
  ASSUME IInv, LimitInv, NEW p \in Procs, NEW at,
         at \subseteq SignalsHandled \cup {"refused"},
         p \in Pids \/ at = {"refused"}, pr_session_end(p, at)
  PROVE  LimitInv'
<1>1. p \in Pids /\ p \in Procs
  BY WhoIsWhere, Constants DEF pr_session_end
<1>2. CASE have_entry[p]
  <2> USE <1>1, <1>2, Constants
      DEF pr_session_end, Goto, private, fixed, SignalsHandled
  <2>1. Undisturbed(p)
    BY DEF IInv, TypeOK, Undisturbed
  <2>2. EnteredAt(p)'
    BY DEF IInv, TypeOK, Entered, LimitInv, EnteredAt, PresentSteps, CountedSteps
  <2>3. Stays(p)
    BY DEF IInv, TypeOK, Stays, PresentSteps, CountedSteps
  <2>4. Entered'
    BY <2>1, <2>2, OthersEntered DEF LimitInv
  <2> QED BY <2>1, <2>3, <2>4, StaysOrdered
<1>3. CASE ~have_entry[p]
  BY <1>1, <1>3, ExitOrdered DEF pr_session_end
<1> QED BY <1>2, <1>3

(* A session announces itself: it is the last in the order of the scans.   *)
LEMMA AnnounceOrdered ==
  ASSUME IInv, IInv', LimitInv, NEW p \in Procs, Announce(p)
  PROVE  LimitInv'
<1>1. p \in Pids /\ TypeOK /\ Entered
  BY WhoIsWhere DEF Announce, IInv, LimitInv
<1>2. pc[p] = "announce" /\ have_entry[p] /\ host[p] \in Hosts /\ entry[p] \in Entries
  BY <1>1 DEF Announce, Entered, TypeOK
<1>3. /\ entry' = [entry EXCEPT ![p] = [entry[p] EXCEPT !.sce_user = None,
                                                 !.sce_client_addr = host[p]]]
      /\ pc' = [pc EXCEPT ![p] = "scan"] /\ pos' = [pos EXCEPT ![p] = 1]
      /\ seen' = [seen EXCEPT ![p] = {}]
      /\ UNCHANGED <<host, user, have_entry, l_start, conf>>
  BY <1>2 DEF Announce, pr_scoreboard_entry_update, Goto, Rewind, fixed
<1>4. Undisturbed(p)
  BY <1>1, <1>3, Constants DEF TypeOK, Undisturbed
<1>5. /\ pc'[p] = "scan" /\ pos'[p] = 1 /\ seen'[p] = {}
      /\ entry'[p].sce_client_addr = host[p]
  BY <1>1, <1>2, <1>3, Constants DEF TypeOK, Entries
<1>6. Entered'
  <2>1. EnteredAt(p)'
    BY <1>2, <1>3, <1>5, FS_EmptySet DEF EnteredAt, PresentSteps, CountedSteps
  <2> QED BY <1>1, <1>4, <2>1, OthersEntered
<1>7. PICK rank \in [Pids -> Nat] : CountOrder(rank)
  BY DEF LimitInv
<1>8. CountOrder(rank)'
  <2>1. \A q \in Pids : pc'[q] \in CountedSteps => q # p
    BY <1>5 DEF CountedSteps
  <2>2. \A q \in Pids : pc'[q] \in CountedSteps =>
            /\ pc[q] \in CountedSteps /\ l_start'[q] = l_start[q]
            /\ host'[q] = host[q] /\ user'[q] = user[q]
            /\ pc'[q] = "in" => pc[q] = "in"
            /\ pc'[q] # "in" => /\ pc[q] # "in"
                               /\ pos'[q] = pos[q] /\ seen'[q] = seen[q]
    BY <1>4, <2>1 DEF Undisturbed
  <2> QED BY <1>1, <1>3, <1>7, <2>2, CountOrderStays
<1>9. PICK rank2 \in [Pids -> Nat] : ScanOrder(rank2)
  BY DEF LimitInv
<1>10. \E last \in [Pids -> Nat] : ScanOrder(last)'
  <2>1. /\ \A q \in Pids : l_start'[q] \in Nat
        /\ \A q \in Pids : pc'[q] \in PresentSteps => l_start'[q] >= 1
    <3>1. \A q \in Pids : l_start'[q] \in Nat
      BY <1>1, <1>3, Constants DEF TypeOK
    <3>2. \A q \in Pids : have_entry'[q] => l_start'[q] >= 1
      BY <3>1 DEF IInv, OwnSlot
    <3> QED BY <1>6, <3>1, <3>2 DEF Entered, PresentSteps
  <2>2. pc[p] \notin PresentSteps
    BY <1>2 DEF PresentSteps
  <2>3. \A q \in Pids : q # p =>
            /\ pc'[q] = pc[q] /\ l_start'[q] = l_start[q] /\ host'[q] = host[q]
            /\ pos'[q] = pos[q] /\ seen'[q] = seen[q]
    BY <1>4 DEF Undisturbed
  <2> QED BY <1>1, <1>3, <1>5, <1>9, <2>1, <2>2, <2>3, ScanOrderJoins
<1> QED BY <1>6, <1>7, <1>8, <1>10 DEF LimitInv

(* A client logs in: it is the last in the order of the counts.            *)
LEMMA LoginOrdered ==
  ASSUME IInv, IInv', LimitInv, AllCounted, NEW p \in Pids, NEW u \in Users,
         Login(p, u)
  PROVE  LimitInv'
<1>1. p \in Pids /\ p \in Procs /\ TypeOK /\ Entered
  BY Constants DEF IInv, LimitInv
<1>2. /\ pc[p] = "idle" /\ have_entry[p] /\ host[p] \in Hosts /\ entry[p] \in Entries
      /\ entry[p].sce_client_addr = host[p] /\ sce_user(u) = u
  BY <1>1 DEF Login, Entered, TypeOK, PresentSteps, sce_user, AllCounted
<1> PICK step : step = IF have_client_limits THEN "count" ELSE "in"
  OBVIOUS
<1>3. /\ entry' = [entry EXCEPT ![p] = [entry[p] EXCEPT !.sce_user = u]]
      /\ user' = [user EXCEPT ![p] = u]
      /\ pc' = [pc EXCEPT ![p] = step] /\ pos' = [pos EXCEPT ![p] = 1]
      /\ seen' = [seen EXCEPT ![p] = {}]
      /\ UNCHANGED <<host, have_entry, l_start, conf>>
  BY <1>2 DEF Login, pr_scoreboard_entry_update, Goto, Rewind, fixed
<1>4. Undisturbed(p)
  BY <1>1, <1>3, Constants DEF TypeOK, Undisturbed
<1>5. /\ pc'[p] = step /\ pos'[p] = 1 /\ seen'[p] = {} /\ user'[p] = u
      /\ entry'[p].sce_client_addr = host[p] /\ entry'[p].sce_user = u
  BY <1>1, <1>2, <1>3, Constants DEF TypeOK, Entries
<1>6. step \in CountedSteps /\ step \notin {"dead", "other", "add", "adding", "write"}
      /\ step \in PresentSteps /\ step \notin {"scan", "scanning"}
  BY DEF CountedSteps, PresentSteps
<1>7. Entered'
  <2>1. EnteredAt(p)'
    BY <1>2, <1>3, <1>5, <1>6, FS_EmptySet DEF EnteredAt
  <2> QED BY <1>1, <1>4, <2>1, OthersEntered
<1>8. PICK rank2 \in [Pids -> Nat] : ScanOrder(rank2)
  BY DEF LimitInv
<1>9. ScanOrder(rank2)'
  <2>1. \A q \in Pids : pc'[q] \in PresentSteps =>
            /\ pc[q] \in PresentSteps /\ l_start'[q] = l_start[q]
            /\ host'[q] = host[q]
            /\ pc'[q] \notin {"scan", "scanning"} => pc[q] \notin {"scan", "scanning"}
            /\ pc'[q] \in {"scan", "scanning"} =>
                  /\ pc[q] \in {"scan", "scanning"}
                  /\ pos'[q] = pos[q] /\ seen'[q] = seen[q]
    BY <1>2, <1>3, <1>4, <1>5, <1>6 DEF Undisturbed, PresentSteps
  <2> QED BY <1>1, <1>3, <1>8, <2>1, ScanOrderStays
<1>10. PICK rank \in [Pids -> Nat] : CountOrder(rank)
  BY DEF LimitInv
<1>11. \E last \in [Pids -> Nat] : CountOrder(last)'
  <2>1. /\ \A q \in Pids : l_start'[q] \in Nat
        /\ \A q \in Pids : pc'[q] \in PresentSteps => l_start'[q] >= 1
    <3>1. \A q \in Pids : l_start'[q] \in Nat
      BY <1>1, <1>3, Constants DEF TypeOK
    <3>2. \A q \in Pids : have_entry'[q] => l_start'[q] >= 1
      BY <3>1 DEF IInv, OwnSlot
    <3> QED BY <1>7, <3>1, <3>2 DEF Entered, PresentSteps
  <2>2. pc[p] \notin CountedSteps
    BY <1>2 DEF CountedSteps
  <2>3. \A q \in Pids : q # p =>
            /\ pc'[q] = pc[q] /\ l_start'[q] = l_start[q]
            /\ host'[q] = host[q] /\ user'[q] = user[q]
            /\ pos'[q] = pos[q] /\ seen'[q] = seen[q]
    BY <1>4 DEF Undisturbed
  <2>4. /\ \A q \in Pids : l_start'[q] \in Nat /\ l_start'[q] >= 0
        /\ \A q \in Pids : pc'[q] \in CountedSteps => l_start'[q] >= 1
        /\ l_start'[p] >= 1
    <3>1. \A q \in Pids : l_start'[q] >= 0
      BY <2>1
    <3>2. \A q \in Pids : pc'[q] \in CountedSteps => l_start'[q] >= 1
      BY <2>1, CountedArePresent
    <3>3. pc'[p] \in CountedSteps
      BY <1>5, <1>6
    <3> QED BY <2>1, <3>1, <3>2, <3>3
  <2>5. pc'[p] = "count" \/ ~have_client_limits
    BY <1>5
  <2> QED BY <1>1, <1>3, <1>5, <1>6, <1>10, <2>2, <2>3, <2>4, <2>5, CountOrderJoins
<1> QED BY <1>7, <1>8, <1>9, <1>11 DEF LimitInv

(* A scan that reads one more entry stays in its place.                    *)
LEMMA ReadEntryOrdered ==
  ASSUME IInv, LimitInv, NEW p \in Procs, NEW next \in {"scan", "count"},
         ReadEntry(p, next)
  PROVE  LimitInv'
<1>1. p \in Pids /\ TypeOK /\ Entered /\ pc[p] = ScanStep(next)
  BY WhoIsWhere DEF ReadEntry, ScanStep, IInv, LimitInv
<1> PICK k : k = NextSlot(p)
  OBVIOUS
<1>2. /\ seen' = [seen EXCEPT ![p] = @ \cup {<<k, file[k]>>}]
      /\ pos' = [pos EXCEPT ![p] = k + 1] /\ pc' = [pc EXCEPT ![p] = next]
      /\ UNCHANGED <<file, host, user, have_entry, l_start, entry, starts, conf>>
  BY DEF ReadEntry, Goto, private, fixed
<1>3. Undisturbed(p)
  BY <1>1, <1>2, Constants DEF TypeOK, Undisturbed
<1>4. pc'[p] = next /\ seen'[p] = seen[p] \cup {<<k, file[k]>>}
  BY <1>1, <1>2, Constants DEF TypeOK
<1>5. Entered'
  <2>1. IsFiniteSet(seen'[p])
    <3>1. IsFiniteSet(seen[p])
      BY <1>1 DEF Entered
    <3> PICK x : x = <<k, file[k]>>
      OBVIOUS
    <3>2. IsFiniteSet(seen[p] \cup {x})
      BY <3>1, FS_AddElement
    <3> QED BY <1>4, <3>2
  <2>2. EnteredAt(p)'
    BY <1>1, <1>2, <1>4, <2>1 DEF Entered, EnteredAt, PresentSteps, CountedSteps,
                                  ScanStep
  <2> QED BY <1>1, <1>3, <2>2, OthersEntered
<1>6. PICK rank \in [Pids -> Nat] : CountOrder(rank)
  BY DEF LimitInv
<1>7. PICK rank2 \in [Pids -> Nat] : ScanOrder(rank2)
  BY DEF LimitInv
<1>8. CASE next = "count"
  <2>1. CountOrder(rank)'
    BY <1>1, <1>6, <1>8, CountOrderReads
  <2>2. \A q \in Pids : pc'[q] \in PresentSteps =>
            /\ pc[q] \in PresentSteps /\ l_start'[q] = l_start[q]
            /\ host'[q] = host[q]
            /\ pc'[q] \notin {"scan", "scanning"} => pc[q] \notin {"scan", "scanning"}
            /\ pc'[q] \in {"scan", "scanning"} =>
                  /\ pc[q] \in {"scan", "scanning"}
                  /\ pos'[q] = pos[q] /\ seen'[q] = seen[q]
    BY <1>1, <1>2, <1>3, <1>4, <1>8 DEF Undisturbed, PresentSteps, ScanStep
  <2>3. ScanOrder(rank2)'
    BY <1>1, <1>2, <1>7, <2>2, ScanOrderStays
  <2> QED BY <1>5, <1>6, <1>7, <2>1, <2>3 DEF LimitInv
<1>9. CASE next = "scan"
  <2>1. ScanOrder(rank2)'
    BY <1>1, <1>7, <1>9, ScanOrderReads
  <2>2. \A q \in Pids : pc'[q] \in CountedSteps => q # p
    BY <1>4, <1>9 DEF CountedSteps
  <2>3. \A q \in Pids : pc'[q] \in CountedSteps =>
            /\ pc[q] \in CountedSteps /\ l_start'[q] = l_start[q]
            /\ host'[q] = host[q] /\ user'[q] = user[q]
            /\ pc'[q] = "in" => pc[q] = "in"
            /\ pc'[q] # "in" => /\ pc[q] # "in"
                               /\ pos'[q] = pos[q] /\ seen'[q] = seen[q]
    BY <1>3, <2>2 DEF Undisturbed
  <2>4. CountOrder(rank)'
    BY <1>1, <1>2, <1>6, <2>3, CountOrderStays
  <2> QED BY <1>5, <1>6, <1>7, <2>1, <2>4 DEF LimitInv
<1> QED BY <1>8, <1>9

(* The end of a count: the session stays in the order and is logged in, or *)
(* leaves it.                                                              *)
LEMMA CountEndsOrdered ==
  ASSUME IInv, LimitInv, AllCounted, NEW p \in Procs, auth_count_scoreboard(p)
  PROVE  LimitInv'
<1>1. p \in Pids /\ TypeOK /\ Entered /\ pc[p] = "counting" /\ NextSlot(p) > Len(file)
  BY WhoIsWhere, NoLockFails
     DEF auth_count_scoreboard, ScanEnds, ScanStep, rlock_fails, IInv, LimitInv
<1> PICK step : step = IF OverLimit(p) THEN "refused" ELSE "in"
  OBVIOUS
<1>2. /\ pc' = [pc EXCEPT ![p] = step]
      /\ \/ UNCHANGED <<pos, seen>>
         \/ pos' = [pos EXCEPT ![p] = 1] /\ seen' = [seen EXCEPT ![p] = {}]
      /\ UNCHANGED <<file, host, user, have_entry, l_start, entry, starts, conf>>
  BY DEF auth_count_scoreboard, Decide, Goto, Rewind, private, fixed
<1>3. Undisturbed(p)
  BY <1>1, <1>2, Constants DEF TypeOK, Undisturbed
<1>4. pc'[p] = step /\ seen'[p] \in {seen[p], {}}
  BY <1>1, <1>2, Constants DEF TypeOK
<1>5. Entered'
  <2>1. IsFiniteSet(seen'[p])
    BY <1>1, <1>4, FS_EmptySet DEF Entered
  <2>2. EnteredAt(p)'
    BY <1>1, <1>2, <1>4, <2>1 DEF Entered, EnteredAt, PresentSteps, CountedSteps
  <2> QED BY <1>1, <1>3, <2>2, OthersEntered
<1>6. PICK rank \in [Pids -> Nat] : CountOrder(rank)
  BY DEF LimitInv
<1>7. PICK rank2 \in [Pids -> Nat] : ScanOrder(rank2)
  BY DEF LimitInv
<1>8. ScanOrder(rank2)'
  <2>1. \A q \in Pids : pc'[q] \in PresentSteps =>
            /\ pc[q] \in PresentSteps /\ l_start'[q] = l_start[q]
            /\ host'[q] = host[q]
            /\ pc'[q] \notin {"scan", "scanning"} => pc[q] \notin {"scan", "scanning"}
            /\ pc'[q] \in {"scan", "scanning"} =>
                  /\ pc[q] \in {"scan", "scanning"}
                  /\ pos'[q] = pos[q] /\ seen'[q] = seen[q]
    BY <1>1, <1>2, <1>3, <1>4 DEF Undisturbed, PresentSteps
  <2> QED BY <1>1, <1>2, <1>7, <2>1, ScanOrderStays
<1>9. CountOrder(rank)'
  <2>1. \A q \in Pids : pc'[q] \in CountedSteps => pc[q] \in CountedSteps
    BY <1>1, <1>3, <1>4 DEF Undisturbed, CountedSteps
  <2>2. ASSUME NEW r \in Pids, pc'[r] \in {"count", "counting"},
               NEW q \in NotLater(rank, CountedSteps, r)', l_start'[q] < pos'[r]
        PROVE  SawUser(r, q)'
    <3>1. r # p
      BY <1>4, <2>2
    <3>2. q \in NotLater(rank, CountedSteps, r) /\ l_start[q] < pos[r]
          /\ pc[r] \in {"count", "counting"} /\ seen'[r] = seen[r]
      BY <1>2, <1>3, <2>1, <2>2, <3>1 DEF Undisturbed, NotLater
    <3>3. SawUser(r, q)
      BY <1>6, <3>2 DEF CountOrder
    <3> QED BY <1>2, <3>2, <3>3 DEF SawUser
  <2>3. ASSUME NEW r \in LoggedIn'
        PROVE  CountFits(rank, r)'
    <3>1. r \in Pids
      BY <2>3 DEF LoggedIn
    <3>2. CountFits(rank, r)
      <4>1. CASE r = p
        <5>1. ~OverLimit(p)
          BY <1>4, <2>3, <4>1 DEF LoggedIn
        <5> QED BY <1>1, <1>6, <4>1, <5>1, CountedFits
      <4>2. CASE r # p
        <5>1. r \in LoggedIn
          BY <1>3, <2>3, <3>1, <4>2 DEF Undisturbed, LoggedIn
        <5> QED BY <1>6, <5>1 DEF CountOrder
      <4> QED BY <4>1, <4>2
    <3>3. \A q \in Pids : pc'[q] \in CountedSteps /\ rank[q] <= rank[r] =>
             /\ pc[q] \in CountedSteps /\ rank[q] <= rank[r]
             /\ host'[q] = host[q] /\ user'[q] = user[q]
      BY <1>2, <2>1
    <3> QED BY <1>1, <1>2, <3>1, <3>2, <3>3, CountFitsStays
  <2> QED BY <1>6, <2>2, <2>3 DEF CountOrder, Ranks
<1> QED BY <1>5, <1>6, <1>7, <1>8, <1>9 DEF LimitInv

(* The end of a scan by host: the session waits for its client to log in,  *)
(* or leaves.                                                              *)
LEMMA ScanEndsOrdered ==
  ASSUME IInv, LimitInv, AllCounted, NEW p \in Procs, auth_scan_scoreboard(p)
  PROVE  LimitInv'
<1>1. p \in Pids /\ TypeOK /\ Entered /\ pc[p] = "scanning" /\ NextSlot(p) > Len(file)
  BY WhoIsWhere, NoLockFails
     DEF auth_scan_scoreboard, ScanEnds, ScanStep, rlock_fails, IInv, LimitInv
<1>2. ~(~Standalone /\ Scrub)
  BY <1>1, ScoreboardAssumption DEF AllCounted, DaemonScrubs, Scrub, TypeOK
<1> PICK step : step = IF TooManyConnections(p) THEN "refused" ELSE "idle"
  OBVIOUS
<1>3. /\ pc' = [pc EXCEPT ![p] = step]
      /\ \/ UNCHANGED <<pos, seen>>
         \/ pos' = [pos EXCEPT ![p] = 1] /\ seen' = [seen EXCEPT ![p] = {}]
      /\ UNCHANGED <<file, host, user, have_entry, l_start, entry, starts, conf>>
  BY <1>2 DEF auth_scan_scoreboard, Decide, Goto, Rewind, private, fixed
<1>4. Undisturbed(p)
  BY <1>1, <1>3, Constants DEF TypeOK, Undisturbed
<1>5. pc'[p] = step /\ seen'[p] \in {seen[p], {}}
  BY <1>1, <1>3, Constants DEF TypeOK
<1>6. Entered'
  <2>1. IsFiniteSet(seen'[p])
    BY <1>1, <1>5, FS_EmptySet DEF Entered
  <2>2. EnteredAt(p)'
    BY <1>1, <1>3, <1>5, <2>1 DEF Entered, EnteredAt, PresentSteps, CountedSteps
  <2> QED BY <1>1, <1>4, <2>2, OthersEntered
<1>7. PICK rank \in [Pids -> Nat] : CountOrder(rank)
  BY DEF LimitInv
<1>8. PICK rank2 \in [Pids -> Nat] : ScanOrder(rank2)
  BY DEF LimitInv
<1>9. CountOrder(rank)'
  <2>1. \A q \in Pids : pc'[q] \in CountedSteps => q # p
    BY <1>5 DEF CountedSteps
  <2>2. \A q \in Pids : pc'[q] \in CountedSteps =>
            /\ pc[q] \in CountedSteps /\ l_start'[q] = l_start[q]
            /\ host'[q] = host[q] /\ user'[q] = user[q]
            /\ pc'[q] = "in" => pc[q] = "in"
            /\ pc'[q] # "in" => /\ pc[q] # "in"
                               /\ pos'[q] = pos[q] /\ seen'[q] = seen[q]
    BY <1>4, <2>1 DEF Undisturbed
  <2> QED BY <1>1, <1>3, <1>7, <2>2, CountOrderStays
<1>10. ScanOrder(rank2)'
  <2>1. \A q \in Pids : pc'[q] \in PresentSteps => pc[q] \in PresentSteps
    BY <1>1, <1>4, <1>5 DEF Undisturbed, PresentSteps
  <2>2. ASSUME NEW r \in Pids, pc'[r] \in {"scan", "scanning"},
               NEW q \in NotLater(rank2, PresentSteps, r)', l_start'[q] < pos'[r]
        PROVE  Saw(r, q)'
    <3>1. r # p
      BY <1>5, <2>2
    <3>2. q \in NotLater(rank2, PresentSteps, r) /\ l_start[q] < pos[r]
          /\ pc[r] \in {"scan", "scanning"} /\ seen'[r] = seen[r]
      BY <1>3, <1>4, <2>1, <2>2, <3>1 DEF Undisturbed, NotLater
    <3>3. Saw(r, q)
      BY <1>8, <3>2 DEF ScanOrder
    <3> QED BY <1>3, <3>2, <3>3 DEF Saw
  <2>3. ASSUME NEW r \in Connected'
        PROVE  ScanFits(rank2, r)'
    <3>1. r \in Pids
      BY <2>3 DEF Connected
    <3>2. ScanFits(rank2, r)
      <4>1. CASE r = p
        <5>1. ~TooManyConnections(p)
          BY <1>5, <2>3, <4>1 DEF Connected
        <5> QED BY <1>1, <1>8, <4>1, <5>1, ScannedFits
      <4>2. CASE r # p
        <5>1. r \in Connected
          BY <1>4, <2>3, <3>1, <4>2 DEF Undisturbed, Connected
        <5> QED BY <1>8, <5>1 DEF ScanOrder
      <4> QED BY <4>1, <4>2
    <3>3. \A q \in Pids : pc'[q] \in PresentSteps /\ rank2[q] <= rank2[r] =>
             /\ pc[q] \in PresentSteps /\ rank2[q] <= rank2[r] /\ host'[q] = host[q]
      BY <1>3, <2>1
    <3> QED BY <1>1, <1>3, <3>1, <3>2, <3>3, ScanFitsStays
  <2> QED BY <1>8, <2>2, <2>3 DEF ScanOrder, Ranks
<1> QED BY <1>6, <1>7, <1>8, <1>9, <1>10 DEF LimitInv

(* Every step keeps both orders.                                           *)
LEMMA NextOrdered ==
  ASSUME IInv, IInv', LimitInv, AllCounted, Next
  PROVE  LimitInv'
<1>1. ASSUME NEW p \in Procs, Work(p)
      PROVE  LimitInv'
  <2>1. CASE AddFails(p)
    BY <2>1, NoLockFails DEF AddFails, wlock_fails, IInv
  <2>2. CASE pr_session_end(p, {"refused"})
    BY <2>2, SessionEndOrdered
  <2>3. CASE DelWrite(p)
    <3>1. p \in Pids
      BY <2>3, WhoIsWhere DEF DelWrite
    <3> QED BY <2>3, <3>1, ExitOrdered DEF DelWrite
  <2> QED
    BY <1>1, <2>1, <2>2, <2>3, AddLockOrdered, AddReadOrdered, AddWriteOrdered,
       AnnounceOrdered, ReadLockOrdered, ReadEntryOrdered, ScanEndsOrdered,
       CountEndsOrdered, DelLockOrdered, ScrubLockOrdered, ScrubFailsOrdered,
       ScrubReadOrdered, ScrubEraseOrdered, ScrubEndsOrdered
       DEF Work
<1>2. ASSUME NEW p \in Pids, Environment(p)
      PROVE  LimitInv'
  <2>1. CASE pr_session_end(p, SignalsHandled)
    BY <2>1, Constants, SessionEndOrdered
  <2>2. CASE Crash(p)
    BY <2>2, ExitOrdered DEF Crash
  <2> QED
    BY <1>2, <2>1, <2>2, StartOrdered, HostOrdered, LoginOrdered, UpdateOrdered,
       OtherStartOrdered, OtherExitOrdered
       DEF Environment
<1> QED BY <1>1, <1>2 DEF Next

(* Of the sessions of a set one announced itself last.                     *)
LEMMA LastOf ==
  ASSUME NEW rank, Ranks(rank), NEW B \in SUBSET Pids, B # {}
  PROVE  \E p \in B : \A q \in B : rank[q] <= rank[p]
<1>1. PICK n \in Nat : \A q \in Pids : rank[q] < n
  BY DEF Ranks
<1>2. \A q \in B : rank[q] \in Nat /\ n - rank[q] \in Nat
  BY <1>1 DEF Ranks
<1> DEFINE T == {n - rank[q] : q \in B}
<1>3. T \in SUBSET Nat /\ T # {}
  BY <1>2
<1>4. PICK t \in T : \A m \in T : t <= m
  BY <1>3, LeastNatural
<1>5. PICK p \in B : t = n - rank[p]
  BY <1>4
<1>6. \A q \in B : n - rank[p] <= n - rank[q]
  BY <1>4, <1>5
<1>7. \A q \in B : rank[q] <= rank[p]
  BY <1>2, <1>6
<1> QED BY <1>7

(* Where all are ordered, the last of those counted together has found     *)
(* room.                                                                   *)
LEMMA OrderedWithin ==
  ASSUME IInv, LimitInv
  PROVE  WithinLimits
<1>1. PICK rank \in [Pids -> Nat] : CountOrder(rank)
  BY DEF LimitInv
<1>2. PICK rank2 \in [Pids -> Nat] : ScanOrder(rank2)
  BY DEF LimitInv
<1>3. /\ MaxConnectionsPerHost \in Nat /\ MaxClientsPerHost \in Nat
      /\ MaxClientsPerUser \in Nat /\ MaxClients \in Nat
      /\ MaxHostsPerUser \in Nat
  BY ConfTypes DEF IInv
<1>4. Ranks(rank) /\ Ranks(rank2)
  BY <1>1, <1>2 DEF CountOrder, ScanOrder
<1>5. \A max \in Nat : Within(Cardinality({}), max)
  BY FS_EmptySet DEF Within
<1>6. LoggedIn \in SUBSET Pids /\ Connected \in SUBSET Pids
  BY DEF LoggedIn, Connected
<1>7. ASSUME NEW B \in SUBSET LoggedIn, NEW p \in B, \A q \in B : rank[q] <= rank[p]
      PROVE  /\ B \subseteq NotLater(rank, CountedSteps, p) /\ CountFits(rank, p)
             /\ p \in Pids
  BY <1>1, <1>7 DEF LoggedIn, NotLater, CountedSteps, CountOrder
<1>8. Within(Cardinality(LoggedIn), MaxClients)
  <2>1. CASE LoggedIn = {}
    BY <1>3, <1>5, <2>1
  <2>2. CASE LoggedIn # {}
    <3>1. PICK p \in LoggedIn : \A q \in LoggedIn : rank[q] <= rank[p]
      BY <1>4, <1>6, <2>2, LastOf
    <3>2. LoggedIn \subseteq NotLater(rank, CountedSteps, p)
          /\ Within(Cardinality(NotLater(rank, CountedSteps, p)), MaxClients)
      BY <1>7, <3>1 DEF CountFits
    <3>3. IsFiniteSet(NotLater(rank, CountedSteps, p))
      BY PidsFinite DEF NotLater
    <3> QED BY <1>3, <3>2, <3>3, WithinShrinks
  <2> QED BY <2>1, <2>2
<1>9. ASSUME NEW h \in Hosts
      PROVE  Within(Cardinality({p \in Pids : host[p] = h} \cap LoggedIn),
                    MaxClientsPerHost)
  <2> DEFINE B == {p \in Pids : host[p] = h} \cap LoggedIn
  <2>1. CASE B = {}
    BY <1>3, <1>5, <2>1
  <2>2. CASE B # {}
    <3>1. PICK p \in B : \A q \in B : rank[q] <= rank[p]
      BY <1>4, <1>6, <2>2, LastOf
    <3>2. PICK S : S = {q \in NotLater(rank, CountedSteps, p) : host[q] = host[p]}
      OBVIOUS
    <3>3. B \subseteq S /\ Within(Cardinality(S), MaxClientsPerHost)
      BY <1>7, <3>1, <3>2 DEF CountFits
    <3>4. IsFiniteSet(S)
      BY <3>2, PidsFinite DEF NotLater
    <3> HIDE DEF B
    <3>5. Within(Cardinality(B), MaxClientsPerHost)
      BY <1>3, <3>3, <3>4, WithinShrinks
    <3> QED BY <3>5 DEF B
  <2> QED BY <2>1, <2>2
<1>10. ASSUME NEW h \in Hosts
       PROVE  Within(Cardinality({p \in Pids : host[p] = h} \cap Connected),
                     MaxConnectionsPerHost)
  <2> DEFINE B == {p \in Pids : host[p] = h} \cap Connected
  <2>1. CASE B = {}
    BY <1>3, <1>5, <2>1
  <2>2. CASE B # {}
    <3>1. PICK p \in B : \A q \in B : rank2[q] <= rank2[p]
      BY <1>4, <1>6, <2>2, LastOf
    <3>2. PICK S : S = {q \in NotLater(rank2, PresentSteps, p) : host[q] = host[p]}
      OBVIOUS
    <3>3. B \subseteq S /\ Within(Cardinality(S), MaxConnectionsPerHost)
      BY <1>2, <3>1, <3>2 DEF ScanOrder, ScanFits, NotLater, Connected, PresentSteps
    <3>4. IsFiniteSet(S)
      BY <3>2, PidsFinite DEF NotLater
    <3> HIDE DEF B
    <3>5. Within(Cardinality(B), MaxConnectionsPerHost)
      BY <1>3, <3>3, <3>4, WithinShrinks
    <3> QED BY <3>5 DEF B
  <2> QED BY <2>1, <2>2
<1>11. ASSUME NEW u \in Users
       PROVE  /\ Within(Cardinality({p \in LoggedIn : user[p] = u}), MaxClientsPerUser)
              /\ Within(Cardinality({host[p] : p \in {q \in LoggedIn : user[q] = u}}),
                        MaxHostsPerUser)
  <2> DEFINE B == {p \in LoggedIn : user[p] = u}
  <2>1. CASE B = {}
    <3>1. {host[p] : p \in B} = {}
      BY <2>1
    <3> QED BY <1>3, <1>5, <2>1, <3>1
  <2>2. CASE B # {}
    <3>1. PICK p \in B : \A q \in B : rank[q] <= rank[p]
      BY <1>4, <1>6, <2>2, LastOf
    <3>2. PICK S : S = {q \in NotLater(rank, CountedSteps, p) : user[q] = user[p]}
      OBVIOUS
    <3>3. B \subseteq S /\ Within(Cardinality(S), MaxClientsPerUser)
          /\ Within(Cardinality({host[q] : q \in S}), MaxHostsPerUser)
      BY <1>7, <3>1, <3>2 DEF CountFits
    <3>4. IsFiniteSet(S)
      BY <3>2, PidsFinite DEF NotLater
    <3>5. IsFiniteSet({host[q] : q \in S})
      BY <3>4, ImageSize
    <3> HIDE DEF B
    <3>6. {host[q] : q \in B} \in SUBSET {host[q] : q \in S}
      BY <3>3
    <3>7. Within(Cardinality(B), MaxClientsPerUser)
      BY <1>3, <3>3, <3>4, WithinShrinks
    <3>8. Within(Cardinality({host[q] : q \in B}), MaxHostsPerUser)
      BY <1>3, <3>3, <3>5, <3>6, WithinShrinks
    <3> QED BY <3>7, <3>8 DEF B
  <2> QED BY <2>1, <2>2
<1> QED BY <1>8, <1>9, <1>10, <1>11 DEF WithinLimits

(* The limits of mod_auth hold at all times, however many clients come at  *)
(* the same time, crash, or are scrubbed: sessions announce themselves     *)
(* before they count, so that of any group of them the last to do so has   *)
(* seen the others.  (auth_scan_scoreboard, auth_count_scoreboard.)  It is *)
(* assumed that every session gets the mutex and that no name is longer    *)
(* than sce_user or is the "(none)" that stands for no name.               *)
THEOREM LimitsHold == AllCounted /\ Spec => []WithinLimits
<1> SUFFICES ASSUME AllCounted PROVE Spec => []WithinLimits
  OBVIOUS
<1>1. DaemonScrubs
  BY DEF AllCounted
<1>2. Init => LimitInv
  BY InitOrdered
<1>3. IInv /\ IInv' /\ LimitInv /\ [Next]_vars => LimitInv'
  <2> SUFFICES ASSUME IInv, IInv', LimitInv, [Next]_vars PROVE LimitInv'
    OBVIOUS
  <2>1. CASE Next
    BY <2>1, NextOrdered
  <2>2. CASE UNCHANGED vars
    <3> USE <2>2 DEF vars, locks, private, fixed
    <3>1. Undisturbed(Master)
      BY DEF Undisturbed
    <3>2. Stays(Master)
      BY Constants DEF Stays, IInv, Stages, PresentSteps, CountedSteps
    <3>3. Entered'
      BY <3>1, OthersEntered, Constants DEF LimitInv
    <3> QED BY <3>1, <3>2, <3>3, StaysOrdered, Constants
  <2> QED BY <2>1, <2>2
<1>4. IInv /\ LimitInv => WithinLimits
  BY OrderedWithin
<1> QED BY <1>1, <1>2, <1>3, <1>4, Inductive, PTL DEF Spec
=============================================================================
