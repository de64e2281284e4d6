------------------------- MODULE MasterDaemonProofs -------------------------
(***************************************************************************)
(* Proofs about MasterDaemon, for any number of process ids and any        *)
(* limits.                                                                 *)
(***************************************************************************)
EXTENDS MasterDaemon, FiniteSetTheorems, WellFoundedInduction, TLAPS

(* A set of numbers that is not empty has a smallest one.                  *)
LEMMA Least ==
  ASSUME NEW T \in SUBSET Nat, T # {}
  PROVE  \E n \in T : \A m \in T : n <= m
<1>1. \E x \in T : \A y \in T : ~(<<y, x>> \in OpToRel(<, Nat))
  BY NatLessThanWellFounded, WFMin
<1>2. PICK x \in T : \A y \in T : ~(<<y, x>> \in OpToRel(<, Nat))
  BY <1>1
<1>3. \A y \in T : ~(y < x)
  BY <1>2 DEF OpToRel
<1> QED BY <1>3

(* The children are finitely many.                                         *)
LEMMA PidsFinite ==
  ASSUME NEW B \in SUBSET Pids
  PROVE  IsFiniteSet(B) /\ Cardinality(B) \in Nat
BY MasterAssumption, FS_Subset, FS_CardinalityType

(* Some number up to N + 1 is not among N values.                          *)
LEMMA RoomLeft ==
  ASSUME NEW N \in Nat, NEW f
  PROVE  \E k \in 1 .. N + 1 : \A n \in 1 .. N : f[n] # k
<1> SUFFICES ASSUME \A k \in 1 .. N + 1 : \E n \in 1 .. N : f[n] = k
             PROVE  FALSE
  OBVIOUS
<1> DEFINE g == [k \in 1 .. N + 1 |-> CHOOSE n \in 1 .. N : f[n] = k]
<1>1. \A k \in 1 .. N + 1 : g[k] \in 1 .. N /\ f[g[k]] = k
  OBVIOUS
<1>2. g \in [1 .. N + 1 -> 1 .. N]
  BY <1>1
<1>3. /\ IsFiniteSet(1 .. N + 1) /\ Cardinality(1 .. N + 1) = N + 1
      /\ IsFiniteSet(1 .. N) /\ Cardinality(1 .. N) = N
  <2>1. 1 \in Int /\ N \in Int /\ N + 1 \in Int /\ ~(1 > N + 1) /\ (1 > N => N = 0)
    OBVIOUS
  <2> HIDE DEF g
  <2>2. /\ IsFiniteSet(1 .. N + 1) /\ IsFiniteSet(1 .. N)
        /\ Cardinality(1 .. N + 1) = IF 1 > N + 1 THEN 0 ELSE N + 1 - 1 + 1
        /\ Cardinality(1 .. N) = IF 1 > N THEN 0 ELSE N - 1 + 1
    BY <2>1, FS_Interval
  <2> QED BY <2>1, <2>2
<1> HIDE DEF g
<1>4. Cardinality(1 .. N) < Cardinality(1 .. N + 1)
  BY <1>3
<1>5. \E x, y \in 1 .. N + 1 : x # y /\ g[x] = g[y]
  BY ONLY <1>2, <1>3, <1>4, FS_PigeonHole, Zenon
<1> QED BY <1>1, <1>5

(* The descriptor of a new pipe is that of no other.                       *)
LEMMA FreshFd ==
  ASSUME child_list \in Seq(Child)
  PROVE  /\ LowestFd \in Nat \ {LISTEN}
         /\ \A n \in Entries : child_list[n].fd # LowestFd
<1> DEFINE N == Len(child_list)
           fd == [n \in 1 .. N |-> child_list[n].fd]
           T == {k \in 1 .. N + 1 : k \notin OpenFds}
<1>0. N \in Nat /\ Entries = 1 .. N
  BY DEF Entries
<1>1. OpenFds \subseteq {fd[n] : n \in 1 .. N}
  BY <1>0 DEF OpenFds
<1>2. \E k \in 1 .. N + 1 : \A n \in 1 .. N : fd[n] # k
  <2> HIDE DEF fd, N
  <2> QED BY <1>0, RoomLeft
<1>3. T # {} /\ T \in SUBSET Nat
  BY <1>0, <1>1, <1>2
<1>4. PICK k \in T : \A m \in T : k <= m
  BY <1>3, Least
<1>5. \A m \in 1 .. k - 1 : m \in OpenFds
  BY <1>0, <1>4
<1>6. \E f \in 1 .. N + 1 : /\ f \notin OpenFds
                            /\ \A g \in 1 .. f - 1 : g \in OpenFds
  BY <1>4, <1>5
<1>7. LowestFd \in 1 .. N + 1 /\ LowestFd \notin OpenFds
  BY <1>6 DEF LowestFd
<1>8. \A n \in Entries : child_list[n].fd \in OpenFds \/ child_list[n].fd = NoFd
  BY DEF OpenFds
<1> QED BY <1>0, <1>7, <1>8 DEF LISTEN, NoFd

(* What child_update leaves of the list: the entries at the numbers of an  *)
(* injective function onto those that are not dead.                        *)
Keeps(n, l, g) ==
    /\ l \in Seq(Child) /\ g \in [1 .. Len(l) -> 1 .. n]
    /\ \A k \in 1 .. Len(l) : ~child_list[g[k]].dead /\ l[k] = child_list[g[k]]
    /\ \A j, k \in 1 .. Len(l) : g[j] = g[k] => j = k
    /\ \A m \in 1 .. n : ~child_list[m].dead => \E k \in 1 .. Len(l) : g[k] = m

KeepStep(f, n) == IF n = 0 THEN <<>>
                  ELSE IF child_list[n].dead THEN f[n - 1]
                  ELSE Append(f[n - 1], child_list[n])

(* One more entry is kept or dropped.                                      *)
LEMMA KeepOne ==
  ASSUME child_list \in Seq(Child), NEW n \in 1 .. Len(child_list),
         NEW l, NEW g, Keeps(n - 1, l, g)
  PROVE  \E h : Keeps(n, IF child_list[n].dead THEN l
                         ELSE Append(l, child_list[n]), h)
<1>0. child_list[n] \in Child /\ n \in Nat /\ n - 1 \in Nat
  OBVIOUS
<1>1. CASE child_list[n].dead
  <2>1. Keeps(n, l, g)
    BY <1>0, <1>1 DEF Keeps
  <2> QED BY <1>1, <2>1
<1>2. CASE ~child_list[n].dead
  <2> PICK k : k = Append(l, child_list[n])
    OBVIOUS
  <2> PICK h : h = [j \in 1 .. Len(l) + 1 |-> IF j = Len(l) + 1 THEN n ELSE g[j]]
    OBVIOUS
  <2>1. /\ l \in Seq(Child) /\ Len(l) \in Nat /\ g \in [1 .. Len(l) -> 1 .. n - 1]
        /\ \A j \in 1 .. Len(l) : g[j] \in 1 .. n - 1
    BY DEF Keeps
  <2>2. /\ k \in Seq(Child) /\ Len(k) = Len(l) + 1
        /\ k[Len(l) + 1] = child_list[n]
        /\ \A j \in 1 .. Len(l) : k[j] = l[j]
    BY <1>0, <2>1
  <2>3. /\ h[Len(l) + 1] = n
        /\ \A j \in 1 .. Len(l) : h[j] = g[j]
        /\ \A j \in 1 .. Len(l) + 1 : j \in 1 .. Len(l) \/ j = Len(l) + 1
        /\ h \in [1 .. Len(l) + 1 -> 1 .. n]
    BY <1>0, <2>1
  <2>4. \A j \in 1 .. Len(k) : ~child_list[h[j]].dead /\ k[j] = child_list[h[j]]
    BY <1>2, <2>1, <2>2, <2>3 DEF Keeps
  <2>5. \A i1, i2 \in 1 .. Len(k) : h[i1] = h[i2] => i1 = i2
    BY <1>0, <2>1, <2>2, <2>3 DEF Keeps
  <2>6. ASSUME NEW m \in 1 .. n, ~child_list[m].dead
        PROVE  \E j \in 1 .. Len(k) : h[j] = m
    <3>1. CASE m = n
      BY <2>1, <2>2, <2>3, <3>1
    <3>2. CASE m # n
      <4>1. m \in 1 .. n - 1
        BY <1>0, <3>2
      <4>2. \E j \in 1 .. Len(l) : g[j] = m
        BY <2>6, <4>1 DEF Keeps
      <4> QED BY <2>1, <2>2, <2>3, <4>2
    <3> QED BY <3>1, <3>2
  <2>7. Keeps(n, k, h)
    BY <2>2, <2>3, <2>4, <2>5, <2>6 DEF Keeps
  <2> QED BY <1>2, <2>7
<1>3. child_list[n].dead \in BOOLEAN
  BY <1>0 DEF Child
<1> QED BY <1>1, <1>2

(* The function by which child_update is defined exists.                   *)
LEMMA KeptExists ==
  ASSUME child_list \in Seq(Child)
  PROVE  \E f : f = [n \in 0 .. Len(child_list) |-> KeepStep(f, n)]
<1> DEFINE Good(m) == \E f : f = [n \in 0 .. m |-> KeepStep(f, n)]
<1>1. Good(0)
  <2> PICK f : f = [n \in 0 .. 0 |-> <<>>]
    OBVIOUS
  <2>1. f = [n \in 0 .. 0 |-> KeepStep(f, n)]
    BY DEF KeepStep
  <2> QED BY <2>1
<1>2. ASSUME NEW m \in 0 .. Len(child_list) - 1, Good(m)
      PROVE  Good(m + 1)
  <2> PICK f : f = [n \in 0 .. m |-> KeepStep(f, n)]
    BY <1>2
  <2>0. m \in Nat
    OBVIOUS
  <2> DEFINE last == IF child_list[m + 1].dead THEN f[m]
                     ELSE Append(f[m], child_list[m + 1])
  <2> HIDE DEF last
  <2> PICK k : k = [n \in 0 .. m + 1 |-> IF n = m + 1 THEN last ELSE f[n]]
    OBVIOUS
  <2>2. /\ k[m + 1] = last
        /\ \A n \in 0 .. m : k[n] = f[n]
    BY <2>0
  <2>3. ASSUME NEW n \in 0 .. m + 1 PROVE k[n] = KeepStep(k, n)
    <3>1. CASE n = m + 1
      <4>1. n # 0 /\ n - 1 = m /\ k[n - 1] = f[m]
        BY <2>0, <2>2, <3>1
      <4> QED BY <2>2, <3>1, <4>1 DEF KeepStep, last
    <3>2. CASE n # m + 1
      <4>1. n \in 0 .. m /\ (n = 0 \/ n - 1 \in 0 .. m)
        BY <2>0, <3>2
      <4>2. f[n] = KeepStep(f, n)
        BY <4>1
      <4>3. n = 0 \/ k[n - 1] = f[n - 1]
        BY <2>2, <4>1
      <4> QED BY <2>2, <4>1, <4>2, <4>3 DEF KeepStep
    <3> QED BY <3>1, <3>2
  <2>4. k = [n \in 0 .. m + 1 |-> KeepStep(k, n)]
    BY <2>3
  <2> QED BY <2>4
<1> HIDE DEF Good
<1>3. \A m \in 0 .. Len(child_list) : Good(m)
  <2> PICK T : T = {m \in 0 .. Len(child_list) : ~Good(m)}
    OBVIOUS
  <2> SUFFICES ASSUME T # {} PROVE FALSE
    OBVIOUS
  <2>0. T \in SUBSET Nat
    OBVIOUS
  <2>1. PICK m \in T : \A k \in T : m <= k
    BY <2>0, Least
  <2>2. m # 0 /\ m - 1 \in 0 .. Len(child_list) - 1 /\ m - 1 \notin T
    BY <1>1, <2>0, <2>1
  <2>3. Good(m - 1)
    BY <2>2
  <2>4. Good(m - 1 + 1)
    BY <1>2, <2>2, <2>3
  <2> QED BY <2>0, <2>1, <2>2, <2>4
<1> QED BY <1>3 DEF Good

(* It keeps what it should, up to every number.                            *)
LEMMA KeptKeeps ==
  ASSUME child_list \in Seq(Child), NEW f,
         f = [n \in 0 .. Len(child_list) |-> KeepStep(f, n)]
  PROVE  \E g : Keeps(Len(child_list), f[Len(child_list)], g)
<1> DEFINE Good(m) == \E g : Keeps(m, f[m], g)
<1>1. Good(0)
  <2> PICK g : g = [n \in 1 .. 0 |-> 0]
    OBVIOUS
  <2>1. f[0] = <<>> /\ Len(f[0]) = 0 /\ f[0] \in Seq(Child)
    BY DEF KeepStep
  <2>2. Keeps(0, f[0], g)
    BY <2>1 DEF Keeps
  <2> QED BY <2>2
<1>2. ASSUME NEW m \in 0 .. Len(child_list) - 1, Good(m)
      PROVE  Good(m + 1)
  <2> PICK g : Keeps(m, f[m], g)
    BY <1>2
  <2>0. /\ m \in Nat /\ m + 1 \in 1 .. Len(child_list) /\ m + 1 - 1 = m
        /\ m + 1 \in 0 .. Len(child_list) /\ m + 1 # 0
    OBVIOUS
  <2>1. \E h : Keeps(m + 1, IF child_list[m + 1].dead THEN f[m]
                            ELSE Append(f[m], child_list[m + 1]), h)
    BY <2>0, KeepOne
  <2>2. f[m + 1] = KeepStep(f, m + 1)
    BY <2>0
  <2> QED BY <2>0, <2>1, <2>2 DEF KeepStep
<1> HIDE DEF Good
<1>3. \A m \in 0 .. Len(child_list) : Good(m)
  <2> PICK T : T = {m \in 0 .. Len(child_list) : ~Good(m)}
    OBVIOUS
  <2> SUFFICES ASSUME T # {} PROVE FALSE
    OBVIOUS
  <2>0. T \in SUBSET Nat
    OBVIOUS
  <2>1. PICK m \in T : \A k \in T : m <= k
    BY <2>0, Least
  <2>2. m # 0 /\ m - 1 \in 0 .. Len(child_list) - 1 /\ m - 1 \notin T
    BY <1>1, <2>0, <2>1
  <2>3. Good(m - 1)
    BY <2>2
  <2>4. Good(m - 1 + 1)
    BY <1>2, <2>2, <2>3
  <2> QED BY <2>0, <2>1, <2>2, <2>4
<1>4. Len(child_list) \in 0 .. Len(child_list)
  OBVIOUS
<1> QED BY <1>3, <1>4 DEF Good

(* So child_update keeps what it should.                                   *)
LEMMA PurgedKeeps ==
  ASSUME child_list \in Seq(Child)
  PROVE  \E g : Keeps(Len(child_list), Purged, g)
<1> DEFINE kept[n \in 0 .. Len(child_list)] ==
            IF n = 0 THEN <<>>
            ELSE IF child_list[n].dead THEN kept[n - 1]
            ELSE Append(kept[n - 1], child_list[n])
<1>1. \E f : f = [n \in 0 .. Len(child_list) |->
            IF n = 0 THEN <<>>
            ELSE IF child_list[n].dead THEN f[n - 1]
            ELSE Append(f[n - 1], child_list[n])]
  BY KeptExists DEF KeepStep
<1>2. kept = [n \in 0 .. Len(child_list) |-> KeepStep(kept, n)]
  BY <1>1 DEF KeepStep
<1>3. Purged = kept[Len(child_list)]
  BY DEF Purged
<1> HIDE DEF kept
<1> QED BY <1>2, <1>3, KeptKeeps

-----------------------------------------------------------------------------
(* What child_remove does to list and count.                               *)

(* The parts of TypeOK that are about the children and their list.         *)
BookType ==
    /\ kids \in [Pids -> KidStates] /\ doomed \in SUBSET Running
    /\ child_list \in Seq(Child)
    /\ \A m, n \in Entries : m # n /\ child_list[m].fd = child_list[n].fd
                                => child_list[m].fd = NoFd
    /\ child_listlen \in Nat /\ have_dead_child \in BOOLEAN

RestType ==
    /\ pending \in BOOLEAN /\ blocked \in SUBSET {"TERM", "CHLD"}
    /\ shut \in {"none", "later", "due"}
    /\ recvd_signal_flags \in SUBSET {"TERM", "CHLD", "HUP", "ALRM"}
    /\ scheds \in 0 .. MaxHups /\ todo \in 0 .. scheds
    /\ pc \in Pcs /\ i \in {"none", "ready", "error"}
    /\ readfds \in SUBSET Nat /\ nconnects \in Nat \ {0}
    /\ shutting_down \in BOOLEAN /\ pid \in Pids
    /\ hups \in 0 .. MaxHups /\ termed \in BOOLEAN
    /\ select_failed \in BOOLEAN

(* The two parts of the type invariant.                                    *)
LEMMA TypeParts == TypeOK <=> BookType /\ RestType
BY DEF TypeOK, BookType, RestType

(* An entry and the fields it has.                                         *)
LEMMA EntryTyped ==
  ASSUME child_list \in Seq(Child), NEW n \in Entries
  PROVE  /\ n \in 1 .. Len(child_list) /\ n \in Nat /\ child_list[n] \in Child
         /\ child_list[n].pid \in Pids /\ child_list[n].dead \in BOOLEAN
         /\ child_list[n].recent \in BOOLEAN
         /\ child_list[n].fd \in {NoFd} \cup (Nat \ {LISTEN})
<1>1. n \in 1 .. Len(child_list) /\ n \in Nat
  BY DEF Entries
<1>2. child_list[n] \in Child
  BY <1>1
<1> QED BY <1>1, <1>2 DEF Child

(* The list when the entries stay and only marks of them change: a step    *)
(* that keeps Len and the pids, and marks the children of zs dead.         *)
Marks(zs) ==
    /\ child_list' \in Seq(Child) /\ Len(child_list') = Len(child_list)
    /\ \A n \in Entries :
          /\ child_list'[n].pid = child_list[n].pid
          /\ child_list'[n].dead <=> child_list[n].dead \/ child_list[n].pid \in zs

(* A list of the same length has the same positions.                       *)
LEMMA SameEntries ==
  ASSUME child_list \in Seq(Child), child_list' \in Seq(Child),
         Len(child_list') = Len(child_list)
  PROVE  Entries' = Entries
BY DEF Entries

(* child_remove takes as many entries off the count as it reaps children.  *)
LEMMA RemoveCounts ==
  ASSUME child_list \in Seq(Child), NEW zs \in SUBSET Pids, NEW found,
         found = {n \in Entries : /\ child_list[n].pid \in zs
                                  /\ \A m \in 1 .. n - 1 :
                                        child_list[m].pid # child_list[n].pid},
         \A p \in zs : \E n \in Entries : /\ child_list[n].pid = p
                                          /\ ~child_list[n].dead,
         \A m, n \in Entries : m < n /\ child_list[m].pid = child_list[n].pid
                                  => child_list[n].dead
  PROVE  Cardinality(found) = Cardinality(zs)
<1> DEFINE g == [n \in found |-> child_list[n].pid]
<1>1. \A m, n \in found : m < n => child_list[m].pid # child_list[n].pid
  <2> SUFFICES ASSUME NEW m \in found, NEW n \in found, m < n
               PROVE  child_list[m].pid # child_list[n].pid
    OBVIOUS
  <2>1. m \in Nat /\ n \in Nat /\ m \in 1 .. Len(child_list)
    BY EntryTyped
  <2>2. m \in 1 .. n - 1
    BY <2>1
  <2> QED BY <2>2
<1>2. \A m, n \in found : m < n \/ n < m \/ m = n
  <2>1. \A n \in found : n \in Nat
    BY EntryTyped
  <2> QED BY <2>1
<1>3. g \in [found -> zs] /\ \A m, n \in found : g[m] = g[n] => m = n
  BY <1>1, <1>2
<1>4. \A p \in zs : \E n \in found : g[n] = p
  <2> TAKE p \in zs
  <2>1. PICK n \in Entries : child_list[n].pid = p /\ ~child_list[n].dead
    OBVIOUS
  <2>2. ASSUME NEW m \in 1 .. n - 1 PROVE child_list[m].pid # child_list[n].pid
    <3>1. n \in 1 .. Len(child_list) /\ n \in Nat
      BY EntryTyped
    <3>2. m \in Entries /\ m < n
      BY <3>1 DEF Entries
    <3> QED BY <2>1, <3>2
  <2> QED BY <2>1, <2>2
<1> HIDE DEF g
<1>5. g \in Bijection(found, zs)
  BY <1>3, <1>4 DEF Bijection, Injection, Surjection, IsInjective
<1>6. IsFiniteSet(found)
  <2>1. g \in Injection(found, zs)
    BY <1>5 DEF Bijection
  <2> QED BY <2>1, PidsFinite, FS_Injection
<1>7. ExistsBijection(found, zs)
  BY <1>5 DEF ExistsBijection
<1> QED BY <1>6, <1>7, FS_Bijection

(* The size of a set of children without some of them.                     *)
LEMMA FewerKids ==
  ASSUME NEW K \in SUBSET Pids, NEW zs \in SUBSET K
  PROVE  /\ Cardinality(K \ zs) = Cardinality(K) - Cardinality(zs)
         /\ Cardinality(zs) <= Cardinality(K)
         /\ Cardinality(K \ zs) <= Cardinality(K)
<1>1. /\ IsFiniteSet(K) /\ IsFiniteSet(zs) /\ IsFiniteSet(K \ zs)
      /\ Cardinality(K) \in Nat /\ Cardinality(zs) \in Nat
      /\ Cardinality(K \ zs) \in Nat
  BY PidsFinite
<1>2. (K \ zs) \cup zs = K /\ (K \ zs) \cap zs = {}
  OBVIOUS
<1>3. Cardinality((K \ zs) \cup zs) =
         Cardinality(K \ zs) + Cardinality(zs) - Cardinality((K \ zs) \cap zs)
  BY <1>1, FS_Union
<1>4. Cardinality((K \ zs) \cap zs) = 0
  BY <1>2, FS_EmptySet
<1>5. Cardinality((K \ zs) \cup zs) = Cardinality(K)
  BY <1>2, Zenon
<1>6. Cardinality(K) = Cardinality(K \ zs) + Cardinality(zs) - 0
  BY ONLY <1>3, <1>4, <1>5, Zenon
<1> QED BY ONLY <1>1, <1>6

(* What handle_chld does when no child waits to be recorded.               *)
LEMMA Reaped ==
  ASSUME IInv, pc # "add", NEW zs \in SUBSET Zombies, handle_chld(zs)
  PROVE  /\ kids' \in [Pids -> KidStates]
         /\ \A p \in Pids : kids'[p] = IF p \in zs THEN "free" ELSE kids[p]
         /\ Kids' = Kids \ zs /\ zs \subseteq Kids /\ Running' = Running
         /\ Marks(zs) /\ \A n \in Entries : child_list'[n].fd = child_list[n].fd
         /\ Entries' = Entries
         /\ child_listlen' = Cardinality(Kids')
         /\ have_dead_child' \in BOOLEAN
<1> USE DEF KidStates, Live
<1>0. /\ kids \in [Pids -> KidStates] /\ child_list \in Seq(Child)
      /\ child_listlen = Cardinality(Kids) /\ have_dead_child \in BOOLEAN
      /\ Known = Kids
  BY DEF IInv, TypeOK, Counted, Known
<1>1. /\ kids' \in [Pids -> KidStates]
      /\ \A p \in Pids : kids'[p] = IF p \in zs THEN "free" ELSE kids[p]
  BY <1>0 DEF handle_chld
<1>2. \A p \in zs : p \in Pids /\ kids[p] = "zombie"
  BY DEF Zombies
<1>3. Kids' = Kids \ zs /\ zs \subseteq Kids /\ Running' = Running
  BY <1>1, <1>2 DEF Kids, Running
<1> PICK found : found = {n \in Entries : /\ child_list[n].pid \in zs
                                          /\ \A m \in 1 .. n - 1 :
                                                child_list[m].pid # child_list[n].pid}
  OBVIOUS
<1>4. /\ child_list' = [n \in Entries |->
              IF n \in found THEN [child_list[n] EXCEPT !.dead = TRUE]
              ELSE child_list[n]]
      /\ child_listlen' = child_listlen - Cardinality(found)
      /\ have_dead_child' = (have_dead_child \/ found # {})
  BY DEF handle_chld, child_remove
<1>5. \A n \in Entries : child_list[n] \in Child
  BY <1>0, EntryTyped
<1>6. \A n \in Entries :
         /\ child_list'[n] \in Child
         /\ child_list'[n].pid = child_list[n].pid
         /\ child_list'[n].fd = child_list[n].fd
         /\ child_list'[n].dead = IF n \in found THEN TRUE ELSE child_list[n].dead
  BY <1>4, <1>5 DEF Child
<1>7. child_list' \in Seq(Child) /\ Len(child_list') = Len(child_list)
  <2>1. Entries = 1 .. Len(child_list) /\ Len(child_list) \in Nat
    BY <1>0 DEF Entries
  <2>2. child_list' \in [1 .. Len(child_list) -> Child]
    BY <1>4, <1>6, <2>1
  <2> QED BY <2>1, <2>2
<1>8. ASSUME NEW n \in Entries
      PROVE  child_list'[n].dead <=> child_list[n].dead \/ child_list[n].pid \in zs
  <2>1. CASE n \in found
    BY <1>6, <2>1
  <2>2. CASE n \notin found /\ child_list[n].pid \in zs
    <3>1. PICK m \in 1 .. n - 1 : child_list[m].pid = child_list[n].pid
      BY <2>2
    <3>2. n \in 1 .. Len(child_list) /\ n \in Nat
      BY <1>0, EntryTyped
    <3>3. m \in Entries /\ m < n
      BY <1>0, <3>1, <3>2 DEF Entries
    <3>4. child_list[n].dead
      BY <3>1, <3>3 DEF IInv, Listed
    <3> QED BY <1>6, <2>2, <3>4
  <2>3. CASE n \notin found /\ child_list[n].pid \notin zs
    BY <1>6, <2>3
  <2> QED BY <2>1, <2>2, <2>3
<1>9. Cardinality(found) = Cardinality(zs)
  <2>1. \A p \in zs : \E n \in Entries : /\ child_list[n].pid = p
                                         /\ ~child_list[n].dead
    BY <1>0, <1>3 DEF IInv, Listed
  <2>2. \A m, n \in Entries : m < n /\ child_list[m].pid = child_list[n].pid
                                  => child_list[n].dead
    BY DEF IInv, Listed
  <2>3. zs \in SUBSET Pids
    BY <1>2
  <2> QED BY <1>0, <2>1, <2>2, <2>3, RemoveCounts
<1>10. child_listlen' = Cardinality(Kids')
  <2>1. Kids \in SUBSET Pids /\ zs \in SUBSET Kids
    BY <1>3 DEF Kids
  <2>2. Cardinality(Kids \ zs) = Cardinality(Kids) - Cardinality(zs)
    BY <2>1, FewerKids
  <2> QED BY <1>0, <1>3, <1>4, <1>9, <2>2
<1>11. Marks(zs)
  BY <1>6, <1>7, <1>8 DEF Marks
<1>12. have_dead_child' \in BOOLEAN
  BY <1>0, <1>4
<1>13. Entries' = Entries
  BY <1>0, <1>7, SameEntries
<1> QED BY <1>1, <1>3, <1>6, <1>10, <1>11, <1>12, <1>13

-----------------------------------------------------------------------------
(* The list of children, and the pipes, after a step.                      *)

OwnFds == \A m, n \in Entries : m # n /\ child_list[m].fd = child_list[n].fd
                                   => child_list[m].fd = NoFd

(* The list stays right when the entries of reaped children are marked and *)
(* pipes are closed.                                                       *)
LEMMA ListMarked ==
  ASSUME child_list \in Seq(Child), OwnFds, Listed, NEW zs, Marks(zs),
         Known' = Known \ zs,
         \A n \in Entries : child_list'[n].fd \in {child_list[n].fd, NoFd}
  PROVE  Listed' /\ OwnFds' /\ Entries' = Entries
<1>1. Entries' = Entries
  BY SameEntries DEF Marks
<1>2. \A n \in Entries :
          /\ child_list'[n].pid = child_list[n].pid
          /\ child_list'[n].dead <=> child_list[n].dead \/ child_list[n].pid \in zs
  BY DEF Marks
<1>3. \A n \in Entries' : ~child_list'[n].dead => child_list'[n].pid \in Known'
  BY <1>1, <1>2 DEF Listed
<1>4. \A p \in Known' : \E n \in Entries' : /\ child_list'[n].pid = p
                                            /\ ~child_list'[n].dead
  BY <1>1, <1>2 DEF Listed
<1>5. \A m, n \in Entries' : m < n /\ child_list'[m].pid = child_list'[n].pid
                                  => child_list'[n].dead
  BY <1>1, <1>2 DEF Listed
<1>6. Listed'
  BY <1>3, <1>4, <1>5 DEF Listed
<1>7. OwnFds'
  <2>1. \A m, n \in Entries' : m # n /\ child_list'[m].fd = child_list'[n].fd
                                   => child_list'[m].fd = NoFd
    BY <1>1 DEF OwnFds
  <2> QED BY <2>1 DEF OwnFds
<1> QED BY <1>1, <1>6, <1>7

(* Or when nothing of it changes.                                          *)
LEMMA ListSame ==
  ASSUME Listed, child_list' = child_list, Known' = Known
  PROVE  Listed'
<1>1. Entries' = Entries
  BY DEF Entries
<1> QED BY <1>1 DEF Listed

-----------------------------------------------------------------------------
(* What almost every step does to the pipes, unless a select failed: an    *)
(* entry keeps its descriptor or is at the end of file when it loses it,   *)
(* and an end of file stays.                                               *)
Tame ==
    ~select_failed => \A n \in Entries' : \E m \in Entries :
        /\ Eof(child_list[m]) => Eof(child_list[n])'
        /\ \/ child_list'[n].fd = child_list[m].fd
           \/ child_list'[n].fd = NoFd /\ Eof(child_list[n])'

(* And to the children: none goes back.                                    *)
Ahead == \A p \in Pids : kids'[p] \in {"new", "closed"} => kids[p] \in {"new", "closed"}

Told == {"update", "pipes", "restart_close"}

(* A tame step keeps what is known of the pipes; one that goes to a place  *)
(* where more is known has to show it.                                     *)
LEMMA PipesStep ==
  ASSUME IInv, Tame, Ahead, select_failed => select_failed',
         \/ select_failed' \/ pc' \notin Told
         \/ pc \in Told /\ readfds' = readfds
         \/ \A n \in Entries' : child_list'[n].fd \in readfds' => Eof(child_list[n])',
         \/ select_failed' \/ pc' # "restart_test"
         \/ pc = "restart_test" /\ readfds' = readfds
         \/ \A n \in Entries' : ~Eof(child_list[n])' => child_list'[n].fd \in readfds',
         \/ select_failed' \/ pc' # "rebind" \/ pc = "rebind"
         \/ \A p \in Pids : kids'[p] \notin {"new", "closed"}
  PROVE  PipesTold'
<1> SUFFICES ASSUME ~select_failed'
             PROVE
    /\ \A n \in Entries' : ~Eof(child_list[n])' => child_list'[n].fd # NoFd
    /\ pc' \in {"update", "pipes", "restart_close"} =>
          \A n \in Entries' : child_list'[n].fd \in readfds' => Eof(child_list[n])'
    /\ pc' = "restart_test" =>
          \A n \in Entries' : ~Eof(child_list[n])' => child_list'[n].fd \in readfds'
    /\ pc' = "rebind" => \A p \in Pids : kids'[p] \notin {"new", "closed"}
  BY DEF PipesTold
<1>0. /\ \A n \in Entries : ~Eof(child_list[n]) => child_list[n].fd # NoFd
      /\ pc \in Told =>
          \A n \in Entries : child_list[n].fd \in readfds => Eof(child_list[n])
      /\ pc = "restart_test" =>
          \A n \in Entries : ~Eof(child_list[n]) => child_list[n].fd \in readfds
      /\ pc = "rebind" => \A p \in Pids : kids[p] \notin {"new", "closed"}
  BY DEF IInv, PipesTold, Told
<1>1. \A n \in Entries' : ~Eof(child_list[n])' => child_list'[n].fd # NoFd
  BY <1>0 DEF Tame
<1>2. ASSUME pc' \in Told, NEW n \in Entries', child_list'[n].fd \in readfds'
      PROVE  Eof(child_list[n])'
  BY <1>0, <1>2 DEF Tame
<1>3. ASSUME pc' = "restart_test", NEW n \in Entries', ~Eof(child_list[n])'
      PROVE  child_list'[n].fd \in readfds'
  BY <1>0, <1>3 DEF Tame
<1>4. pc' = "rebind" => \A p \in Pids : kids'[p] \notin {"new", "closed"}
  BY <1>0 DEF Ahead
<1> QED BY <1>1, <1>2, <1>3, <1>4 DEF Told

(* Steps that change neither the children nor their list are tame.         *)
LEMMA TameSame ==
  ASSUME kids' = kids, child_list' = child_list
  PROVE  Tame /\ Ahead
<1>1. Entries' = Entries
  BY DEF Entries
<1> QED BY <1>1 DEF Tame, Ahead, Eof

-----------------------------------------------------------------------------
(* Reaping leaves the pipes as they were.                                  *)
LEMMA ReapedTame ==
  ASSUME IInv, pc # "add", NEW zs \in SUBSET Zombies, handle_chld(zs)
  PROVE  Tame /\ Ahead
<1>0. child_list \in Seq(Child)
  BY DEF IInv, TypeOK
<1>1. /\ \A p \in Pids : kids'[p] = IF p \in zs THEN "free" ELSE kids[p]
      /\ Marks(zs) /\ \A n \in Entries : child_list'[n].fd = child_list[n].fd
      /\ Entries' = Entries
  BY Reaped
<1>2. \A n \in Entries : Eof(child_list[n]) => Eof(child_list[n])'
  <2> TAKE n \in Entries
  <2>1. child_list[n].pid \in Pids
    BY <1>0, EntryTyped
  <2> QED BY <1>1, <2>1 DEF Eof, Marks
<1> QED BY <1>1, <1>2 DEF Tame, Ahead

(* What a step of the master that goes on to one of these places keeps,    *)
(* whatever it does to the variables of the loop.                          *)
Kept(places) ==
    /\ BookType' /\ Listed' /\ Counted' /\ NoOrphans' /\ Masked'
    /\ Tame /\ Ahead /\ Known' = Kids'
    /\ pc' \in places
    /\ pending' \in BOOLEAN /\ blocked' \in SUBSET {"TERM", "CHLD"}
    /\ shut' \in {"none", "later", "due"}
    /\ recvd_signal_flags' \in SUBSET {"TERM", "CHLD", "HUP", "ALRM"}
    /\ hups' \in 0 .. MaxHups /\ termed' \in BOOLEAN
    /\ select_failed' = select_failed /\ select_failed' \in BOOLEAN
    /\ scheds' \in scheds .. MaxHups
    /\ scheds' + (IF "HUP" \in recvd_signal_flags' THEN 1 ELSE 0) <= hups'

(* pr_signals_handle, at any place but before child_add.                   *)
LEMMA Handled ==
  ASSUME IInv, pc # "add", NEW to \in Pcs \ (Exited \cup {"add", "fork"}),
         pr_signals_handle(to)
  PROVE  Kept({to, "terminated"})
<1> DEFINE zs == IF "CHLD" \in recvd_signal_flags THEN Zombies ELSE {}
<1>0. zs \in SUBSET Zombies /\ handle_chld(zs)
  BY DEF pr_signals_handle
<1> HIDE DEF zs
<1>1. Tame /\ Ahead
  BY <1>0, ReapedTame
<1>2. /\ kids' \in [Pids -> KidStates]
      /\ Kids' = Kids \ zs /\ zs \subseteq Kids /\ Running' = Running
      /\ Marks(zs) /\ \A n \in Entries : child_list'[n].fd = child_list[n].fd
      /\ child_listlen' = Cardinality(Kids')
      /\ have_dead_child' \in BOOLEAN
  BY <1>0, Reaped
<1>3. pc' \in {to, "terminated"} /\ pc' # "add" /\ pc' # "fork"
  BY DEF pr_signals_handle, handle_terminate_with_kids
<1>4. Known = Kids /\ Known' = Kids'
  BY <1>3 DEF Known
<1>5. /\ child_list \in Seq(Child) /\ OwnFds /\ Listed /\ doomed \in SUBSET Running
      /\ child_list' \in Seq(Child)
  BY <1>2 DEF IInv, TypeOK, OwnFds, Marks
<1>6. Listed' /\ OwnFds' /\ Entries' = Entries
  BY <1>2, <1>4, <1>5, ListMarked
<1>7. Kids \in SUBSET Pids /\ Kids' \in SUBSET Pids
  BY DEF Kids
<1>8. Counted'
  <2>1. Cardinality(Kids') <= Cardinality(Kids)
    BY <1>2, <1>7, FewerKids
  <2>2. Cardinality(Kids) \in Nat /\ Cardinality(Kids') \in Nat
    BY <1>7, PidsFinite
  <2>3. MaxInstances \in Nat /\ (MaxInstances > 0 => Cardinality(Kids) <= MaxInstances)
    BY MasterAssumption DEF IInv, Counted
  <2> QED BY <1>2, <1>3, <1>4, <2>1, <2>2, <2>3 DEF Counted
<1>9. doomed' \in SUBSET Running' /\ NoOrphans'
  <2>1. CASE "TERM" \in recvd_signal_flags /\ child_listlen' > 0
    <3>1. doomed' = doomed \cup {p \in {child_list'[n].pid : n \in Entries'} :
                                    kids'[p] \in Live}
      BY <2>1 DEF pr_signals_handle, handle_terminate_with_kids, child_signal, Entries
    <3>2. \A n \in Entries' : child_list'[n].pid \in Pids
      <4>1. \A n \in Entries : child_list[n].pid \in Pids
        BY <1>5, EntryTyped
      <4> QED BY <1>2, <1>6, <4>1 DEF Marks
    <3>3. Running' = {p \in Pids : kids'[p] \in Live}
      BY DEF Running
    <3>4. \A p \in Running' : \E n \in Entries' : child_list'[n].pid = p
      <4>1. Running' \subseteq Known'
        BY <1>4, <3>3 DEF Kids, Live
      <4> QED BY <1>6, <4>1 DEF Listed
    <3> QED BY <1>2, <1>5, <3>1, <3>2, <3>3, <3>4 DEF NoOrphans
  <2>2. CASE "TERM" \in recvd_signal_flags /\ ~(child_listlen' > 0)
    <3>1. doomed' = doomed
      BY <2>2 DEF pr_signals_handle, handle_terminate_with_kids
    <3>2. Kids' = {}
      <4>1. IsFiniteSet(Kids') /\ Cardinality(Kids') \in Nat
        BY <1>7, PidsFinite
      <4>2. Cardinality(Kids') = 0
        BY <1>2, <2>2, <4>1
      <4> QED BY <4>1, <4>2, FS_EmptySet
    <3>3. Running' \subseteq Kids'
      BY DEF Running, Kids, Live
    <3> QED BY <1>2, <1>5, <3>1, <3>2, <3>3 DEF NoOrphans
  <2>3. CASE "TERM" \notin recvd_signal_flags
    <3>1. doomed' = doomed /\ pc' = to
      BY <2>3 DEF pr_signals_handle
    <3>2. pc' # "terminated"
      BY <3>1 DEF Exited
    <3> QED BY <1>2, <1>5, <3>1, <3>2 DEF NoOrphans
  <2> QED BY <2>1, <2>2, <2>3
<1>10. BookType'
  <2>1. child_listlen' \in Nat
    BY <1>2, <1>7, PidsFinite
  <2> QED BY <1>2, <1>5, <1>6, <1>9, <2>1 DEF BookType, OwnFds
<1>11. /\ UNCHANGED <<pending, blocked, shut, hups, termed, select_failed>>
  BY DEF pr_signals_handle, history
<1>12. Masked'
  BY <1>3, <1>11 DEF IInv, Masked
<1>13. RestType /\ Scheduled /\ MaxHups \in Nat
  BY TypeParts, MasterAssumption DEF IInv
<1>14. /\ recvd_signal_flags' \in SUBSET {"TERM", "CHLD", "HUP", "ALRM"}
       /\ scheds' \in scheds .. MaxHups
       /\ scheds' + (IF "HUP" \in recvd_signal_flags' THEN 1 ELSE 0) <= hups'
  <2>1. CASE "TERM" \in recvd_signal_flags
    <3>1. /\ recvd_signal_flags' = recvd_signal_flags \ {"TERM", "CHLD"}
          /\ scheds' = scheds
      BY <2>1 DEF pr_signals_handle, handle_terminate_with_kids
    <3> QED BY <1>11, <1>13, <3>1 DEF RestType, Scheduled
  <2>2. CASE "TERM" \notin recvd_signal_flags
    <3>1. /\ recvd_signal_flags' = {}
          /\ scheds' = scheds + (IF "HUP" \in recvd_signal_flags THEN 1 ELSE 0)
      BY <2>2 DEF pr_signals_handle
    <3> QED BY <1>11, <1>13, <3>1 DEF RestType, Scheduled
  <2> QED BY <2>1, <2>2
<1>15. /\ pending' \in BOOLEAN /\ blocked' \in SUBSET {"TERM", "CHLD"}
       /\ shut' \in {"none", "later", "due"}
       /\ hups' \in 0 .. MaxHups /\ termed' \in BOOLEAN
       /\ select_failed' = select_failed /\ select_failed' \in BOOLEAN
  BY <1>11, <1>13 DEF RestType
<1> QED BY <1>1, <1>3, <1>4, <1>6, <1>8, <1>9, <1>10, <1>12, <1>14, <1>15 DEF Kept

(* A step that leaves signals, children and their list alone.              *)
LEMMA Undisturbed ==
  ASSUME IInv, pc # "add", NEW to \in Pcs \ {"add", "terminated"}, NoSignals(to),
         to = "fork" => ~AtLimit
  PROVE  Kept({to}) /\ pc' = to /\ scheds' = scheds
         /\ UNCHANGED <<kids, child_list, child_listlen>>
<1>1. /\ pc' = to
      /\ UNCHANGED <<kids, doomed, pending, blocked, shut, child_list, child_listlen,
                     have_dead_child, recvd_signal_flags, scheds, hups, termed,
                     select_failed>>
  BY DEF NoSignals, kernel, children, history
<1>2. Tame /\ Ahead
  BY <1>1, TameSame
<1>3. Kids' = Kids /\ Known' = Kids' /\ Known = Kids /\ Running' = Running
      /\ Entries' = Entries
  BY <1>1 DEF Kids, Known, Running, Entries
<1>4. Listed'
  BY <1>1, <1>3, ListSame DEF IInv
<1>5. BookType /\ RestType /\ Scheduled /\ Counted /\ Masked /\ MaxHups \in Nat
      /\ MaxInstances \in Nat
  BY TypeParts, MasterAssumption DEF IInv
<1>6. BookType'
  BY <1>1, <1>3, <1>5 DEF BookType
<1>7. Counted'
  <2>1. child_listlen \in Nat
    BY <1>5 DEF BookType
  <2> QED BY <1>1, <1>3, <1>5, <2>1 DEF Counted, AtLimit
<1>8. NoOrphans' /\ Masked'
  BY <1>1, <1>5 DEF NoOrphans, Masked
<1> QED BY <1>1, <1>2, <1>3, <1>4, <1>5, <1>6, <1>7, <1>8
    DEF Kept, RestType, Scheduled

-----------------------------------------------------------------------------
(* Steps of the loop that only handle signals.                             *)

(* The parts of the invariant make it up.                                  *)
LEMMA Assemble ==
  ASSUME BookType', RestType', Masked', Listed', Counted', Scheduled', PipesTold',
         NoOrphans'
  PROVE  IInv'
BY DEF IInv, TypeOK, BookType, RestType

(* The types the rest of the loop's variables have.                        *)
LoopType ==
    /\ i \in {"none", "ready", "error"}
    /\ readfds \in SUBSET Nat /\ nconnects \in Nat \ {0}
    /\ shutting_down \in BOOLEAN /\ pid \in Pids

(* A step of the loop that keeps what Kept says preserves the invariant if *)
(* what it does to the variables of the loop is right.                     *)
LEMMA KeptPreserves ==
  ASSUME IInv, NEW places \in SUBSET Pcs, Kept(places), LoopType',
         todo' \in 0 .. scheds', pc' \in Restarting => todo' < scheds',
         \/ select_failed' \/ pc' \notin Told
         \/ pc \in Told /\ readfds' = readfds
         \/ \A n \in Entries' : child_list'[n].fd \in readfds' => Eof(child_list[n])',
         \/ select_failed' \/ pc' # "restart_test"
         \/ pc = "restart_test" /\ readfds' = readfds
         \/ \A n \in Entries' : ~Eof(child_list[n])' => child_list'[n].fd \in readfds',
         \/ select_failed' \/ pc' # "rebind" \/ pc = "rebind"
         \/ \A p \in Pids : kids'[p] \notin {"new", "closed"}
  PROVE  IInv'
<1>0. scheds \in Nat /\ MaxHups \in Nat
  BY MasterAssumption DEF IInv, TypeOK
<1>1. scheds' \in 0 .. MaxHups
  BY <1>0 DEF Kept
<1>2. RestType'
  BY <1>1 DEF Kept, RestType, LoopType
<1>3. Scheduled'
  BY DEF Kept, Scheduled
<1>4. PipesTold'
  <2>1. Tame /\ Ahead /\ (select_failed => select_failed')
    BY DEF Kept
  <2> QED BY <2>1, PipesStep
<1> QED BY <1>2, <1>3, <1>4, Assemble DEF Kept

(* The variables of the loop have their types.                             *)
LEMMA LoopTyped ==
  ASSUME IInv
  PROVE  /\ LoopType /\ todo \in Nat /\ scheds \in Nat /\ todo <= scheds
         /\ MaxHups \in Nat /\ scheds <= MaxHups
BY MasterAssumption DEF IInv, TypeOK, LoopType

-----------------------------------------------------------------------------
(* run_schedule takes the schedules there are.                             *)
LEMMA RunSchedulePreserves == ASSUME IInv, RunSchedule PROVE IInv'
<1>1. NoSignals("sched") /\ pc # "add" /\ "sched" \in Pcs
  BY DEF RunSchedule, Pcs
<1>2. Kept({"sched"}) /\ pc' = "sched" /\ scheds' = scheds
  BY <1>1, Undisturbed
<1>3. LoopType' /\ todo' \in 0 .. scheds'
  BY <1>2, LoopTyped DEF RunSchedule, LoopType
<1>4. {"sched"} \in SUBSET Pcs /\ "sched" \notin Told \cup Restarting
  BY DEF Pcs, Told, Restarting
<1> QED BY <1>2, <1>3, <1>4, KeptPreserves

(* No schedule is left.                                                    *)
LEMMA ScheduleDonePreserves == ASSUME IInv, ScheduleDone PROVE IInv'
<1>1. NoSignals("fds") /\ pc # "add" /\ "fds" \in Pcs /\ UNCHANGED loop
  BY DEF ScheduleDone, Pcs
<1>2. Kept({"fds"}) /\ pc' = "fds" /\ scheds' = scheds
  BY <1>1, Undisturbed
<1>3. LoopType' /\ todo' \in 0 .. scheds'
  BY <1>1, <1>2, LoopTyped DEF loop, LoopType
<1>4. {"fds"} \in SUBSET Pcs /\ "fds" \notin Told \cup Restarting
  BY DEF Pcs, Told, Restarting
<1> QED BY <1>2, <1>3, <1>4, KeptPreserves

(* run_schedule calls restart_daemon.                                      *)
LEMMA CallRestartPreserves == ASSUME IInv, CallRestart PROVE IInv'
<1> DEFINE places == {"restart_fds", "terminated"}
<1>1. /\ pr_signals_handle("restart_fds") /\ pc # "add"
      /\ "restart_fds" \in Pcs \ (Exited \cup {"add", "fork"})
      /\ todo > 0 /\ todo' = todo - 1
      /\ UNCHANGED <<i, readfds, nconnects, shutting_down, pid>>
  BY DEF CallRestart, Pcs, Exited
<1>2. Kept(places)
  BY <1>1, Handled
<1>3. LoopType' /\ todo' \in 0 .. scheds' /\ todo' < scheds'
  <2>1. scheds' \in scheds .. MaxHups
    BY <1>2 DEF Kept
  <2> QED BY <1>1, <2>1, LoopTyped DEF LoopType
<1>4. /\ places \in SUBSET Pcs /\ pc' \in places
      /\ \A p \in places : p \notin Told /\ p # "restart_test" /\ p # "rebind"
  BY <1>2 DEF Pcs, Told, Exited, Kept
<1> HIDE DEF places
<1> QED BY <1>2, <1>3, <1>4, KeptPreserves

(* semaphore_fds puts the pipes of all children that hold one into the set.*)
LEMMA SemaphoreFds ==
  ASSUME IInv, pc # "add", NEW fds \in SUBSET Nat,
         NEW to \in Pcs \ (Exited \cup {"add", "fork"}), semaphore_fds(fds, to)
  PROVE  /\ Kept({to, "terminated"}) /\ readfds' \in SUBSET Nat
         /\ ~select_failed => \A n \in Entries' : ~Eof(child_list[n])'
                                  => child_list'[n].fd \in readfds'
<1>0. child_list \in Seq(Child) /\ child_listlen \in Nat
  BY DEF IInv, TypeOK
<1>1. OpenFds \in SUBSET Nat
  <2>1. \A n \in Entries : child_list[n].fd \in {NoFd} \cup Nat
    BY <1>0, EntryTyped
  <2> QED BY <2>1 DEF OpenFds
<1>2. readfds' = fds \cup (IF child_listlen > 0 THEN OpenFds ELSE {})
  BY DEF semaphore_fds
<1>3. Kept({to, "terminated"})
  <2>1. CASE child_listlen > 0
    BY <2>1, Handled DEF semaphore_fds
  <2>2. CASE ~(child_listlen > 0)
    <3>1. NoSignals(to) /\ to \notin {"add", "terminated", "fork"}
      BY <2>2 DEF semaphore_fds, Exited
    <3>2. Kept({to})
      BY <3>1, Undisturbed
    <3> QED BY <3>2 DEF Kept
  <2> QED BY <2>1, <2>2
<1>4. ASSUME ~select_failed, NEW n \in Entries', ~Eof(child_list[n])'
      PROVE  child_list'[n].fd \in readfds'
  <2>1. PICK m \in Entries : ~Eof(child_list[m]) /\ child_list'[n].fd = child_list[m].fd
    BY <1>3, <1>4 DEF Kept, Tame
  <2>2. child_list[m].fd # NoFd
    BY <1>4, <2>1 DEF IInv, PipesTold
  <2>3. child_list[m].fd \in OpenFds
    BY <2>2 DEF OpenFds
  <2>4. child_listlen > 0
    <3>1. Known = Kids /\ Kids \in SUBSET Pids
      BY DEF Known, Kids
    <3>2. child_list[m].pid \in Kids
      BY <2>1, <3>1 DEF IInv, Listed, Eof
    <3>3. IsFiniteSet(Kids) /\ Cardinality(Kids) \in Nat
      BY <3>1, PidsFinite
    <3>4. Cardinality(Kids) # 0
      BY <3>2, <3>3, FS_EmptySet
    <3> QED BY <3>1, <3>3, <3>4 DEF IInv, Counted
  <2> QED BY <1>2, <2>1, <2>3, <2>4
<1> QED BY <1>1, <1>2, <1>3, <1>4

(* restart_daemon collects the pipes.                                      *)
LEMMA RestartFdsPreserves == ASSUME IInv, RestartFds PROVE IInv'
<1> DEFINE places == {"restart_test", "terminated"}
<1>1. /\ pc = "restart_fds" /\ semaphore_fds({}, "restart_test")
      /\ UNCHANGED <<todo, i, nconnects, shutting_down, pid>>
      /\ "restart_test" \in Pcs \ (Exited \cup {"add", "fork"})
  BY DEF RestartFds, Pcs, Exited
<1>2. /\ Kept(places) /\ readfds' \in SUBSET Nat
      /\ ~select_failed => \A n \in Entries' : ~Eof(child_list[n])'
                                  => child_list'[n].fd \in readfds'
  BY <1>1, SemaphoreFds
<1>3. LoopType' /\ todo' \in 0 .. scheds' /\ todo' < scheds'
  <2>1. scheds' \in scheds .. MaxHups
    BY <1>2 DEF Kept
  <2>2. todo < scheds
    BY <1>1 DEF IInv, Scheduled, Restarting
  <2> QED BY <1>1, <1>2, <2>1, <2>2, LoopTyped DEF LoopType
<1>4. /\ places \in SUBSET Pcs /\ pc' \in places /\ select_failed' = select_failed
      /\ \A p \in places : p \notin Told /\ p # "rebind"
  BY <1>2 DEF Pcs, Told, Exited, Kept
<1> HIDE DEF places
<1> QED BY <1>2, <1>3, <1>4, KeptPreserves

(* Without a pipe in the set no child holds the sockets.                   *)
LEMMA RestartTestPreserves == ASSUME IInv, RestartTest PROVE IInv'
<1> PICK to : to = IF readfds = {} THEN "rebind" ELSE "restart_select"
  OBVIOUS
<1>1. /\ pc = "restart_test" /\ NoSignals(to) /\ UNCHANGED loop
      /\ to \in Pcs \ {"add", "terminated"} /\ to # "fork"
  BY DEF RestartTest, Pcs
<1>2. Kept({to}) /\ pc' = to /\ scheds' = scheds /\ kids' = kids
  BY <1>1, Undisturbed
<1>3. LoopType' /\ todo' \in 0 .. scheds' /\ todo' < scheds'
  <2>2. todo < scheds
    BY <1>1 DEF IInv, Scheduled, Restarting
  <2> QED BY <1>1, <1>2, <2>2, LoopTyped DEF LoopType, loop
<1>4. {to} \in SUBSET Pcs /\ to \notin Told /\ to # "restart_test"
  BY <1>1 DEF Told
<1>5. ASSUME ~select_failed, to = "rebind", NEW p \in Pids
      PROVE  kids[p] \notin {"new", "closed"}
  <2> SUFFICES ASSUME kids[p] \in {"new", "closed"} PROVE FALSE
    OBVIOUS
  <2>1. p \in Known
    BY <1>1 DEF Known, Kids
  <2>2. PICK n \in Entries : child_list[n].pid = p /\ ~child_list[n].dead
    BY <2>1 DEF IInv, Listed
  <2>3. ~Eof(child_list[n])
    BY <2>2 DEF Eof
  <2>4. child_list[n].fd \in readfds
    BY <1>1, <1>5, <2>3 DEF IInv, PipesTold
  <2> QED BY <1>5, <2>4
<1>6. select_failed' = select_failed
  BY <1>2 DEF Kept
<1>7. \/ select_failed' \/ pc' # "rebind"
      \/ \A p \in Pids : kids'[p] \notin {"new", "closed"}
  BY <1>2, <1>5, <1>6
<1> QED BY <1>2, <1>3, <1>4, <1>7, KeptPreserves

(* What select reports among the pipes is at its end of file.              *)
LEMMA ReportedEof ==
  ASSUME IInv, NEW fds, fds \subseteq (readfds \cap AtEof) \cup {LISTEN},
         NEW n \in Entries, child_list[n].fd \in fds
  PROVE  Eof(child_list[n])
<1>1. child_list \in Seq(Child) /\ readfds \in SUBSET Nat
  BY DEF IInv, TypeOK
<1>2. child_list[n].fd \in {NoFd} \cup (Nat \ {LISTEN})
  BY <1>1, EntryTyped
<1>3. child_list[n].fd # NoFd /\ child_list[n].fd \in AtEof
  BY <1>1, <1>2 DEF NoFd, LISTEN
<1>4. PICK m \in Entries : Eof(child_list[m]) /\ child_list[m].fd = child_list[n].fd
  BY <1>3 DEF AtEof
<1>5. m = n
  BY <1>3, <1>4 DEF IInv, TypeOK
<1> QED BY <1>4, <1>5

(* The wait of restart_daemon ends.                                        *)
LEMMA RestartSelectPreserves == ASSUME IInv, RestartSelect PROVE IInv'
<1>1. /\ pc = "restart_select" /\ NoSignals("restart_close")
      /\ readfds' = readfds \cap AtEof
      /\ UNCHANGED <<todo, i, nconnects, shutting_down, pid>>
      /\ "restart_close" \in Pcs
  BY DEF RestartSelect, Pcs
<1>2. Kept({"restart_close"}) /\ pc' = "restart_close" /\ scheds' = scheds
      /\ kids' = kids /\ child_list' = child_list
  BY <1>1, Undisturbed
<1>3. LoopType' /\ todo' \in 0 .. scheds' /\ todo' < scheds'
  <2>2. todo < scheds
    BY <1>1 DEF IInv, Scheduled, Restarting
  <2> QED BY <1>1, <1>2, <2>2, LoopTyped DEF LoopType
<1>4. {"restart_close"} \in SUBSET Pcs
  BY <1>1
<1>5. \A n \in Entries' : child_list'[n].fd \in readfds' => Eof(child_list[n])'
  <2>1. \A n \in Entries : child_list[n].fd \in readfds' => Eof(child_list[n])
    BY <1>1, ReportedEof
  <2> QED BY <1>2, <2>1 DEF Entries, Eof
<1> QED BY <1>2, <1>3, <1>4, <1>5, KeptPreserves

(* A configuration that cannot be read.                                    *)
LEMMA RebindFailsPreserves == ASSUME IInv, RebindFails PROVE IInv'
<1>1. NoSignals("failed") /\ pc # "add" /\ "failed" \in Pcs /\ UNCHANGED loop
  BY DEF RebindFails, Pcs, Exited
<1>2. Kept({"failed"}) /\ pc' = "failed" /\ scheds' = scheds
  BY <1>1, Undisturbed
<1>3. LoopType' /\ todo' \in 0 .. scheds'
  BY <1>1, <1>2, LoopTyped DEF loop, LoopType
<1>4. {"failed"} \in SUBSET Pcs /\ "failed" \notin Told \cup Restarting
  BY <1>1 DEF Told, Restarting
<1> QED BY <1>2, <1>3, <1>4, KeptPreserves

(* daemon_loop collects sockets and pipes.                                 *)
LEMMA ListenFdsPreserves == ASSUME IInv, ListenFds PROVE IInv'
<1> DEFINE places == {"shut", "terminated"}
<1>1. /\ pc = "fds" /\ semaphore_fds({LISTEN}, "shut")
      /\ UNCHANGED <<todo, i, nconnects, shutting_down, pid>>
      /\ "shut" \in Pcs \ (Exited \cup {"add", "fork"})
      /\ {LISTEN} \in SUBSET Nat
  BY DEF ListenFds, Pcs, Exited, LISTEN
<1>2. Kept(places) /\ readfds' \in SUBSET Nat
  BY <1>1, SemaphoreFds
<1>3. LoopType' /\ todo' \in 0 .. scheds'
  <2>1. scheds' \in scheds .. MaxHups
    BY <1>2 DEF Kept
  <2> QED BY <1>1, <1>2, <2>1, LoopTyped DEF LoopType
<1>4. /\ places \in SUBSET Pcs /\ pc' \in places
      /\ \A p \in places : p \notin Told \cup Restarting /\ p # "restart_test" /\ p # "rebind"
  BY <1>2 DEF Pcs, Told, Exited, Kept, Restarting
<1> HIDE DEF places
<1> QED BY <1>2, <1>3, <1>4, KeptPreserves

(* The other places at which the loop handles signals.                     *)
LEMMA HandlesPreserves ==
  ASSUME IInv, pc # "add", UNCHANGED loop,
         NEW to \in {"top", "accept", "decide"}, pr_signals_handle(to)
  PROVE  IInv'
<1> DEFINE places == {to, "terminated"}
<1>1. to \in Pcs \ (Exited \cup {"add", "fork"})
  BY DEF Pcs, Exited
<1>2. Kept(places)
  BY <1>1, Handled
<1>3. LoopType' /\ todo' \in 0 .. scheds'
  <2>1. scheds' \in scheds .. MaxHups
    BY <1>2 DEF Kept
  <2> QED BY <2>1, LoopTyped DEF LoopType, loop
<1>4. /\ places \in SUBSET Pcs /\ pc' \in places
      /\ \A p \in places : p \notin Told \cup Restarting /\ p # "restart_test" /\ p # "rebind"
  BY <1>2 DEF Pcs, Told, Exited, Kept, Restarting
<1> HIDE DEF places
<1> QED BY <1>2, <1>3, <1>4, KeptPreserves

(* An interrupted select, the signals after it, and accept.                *)
LEMMA WaitingPreserves ==
  ASSUME IInv, SelectInterrupted \/ HandleSignals \/ Accept
  PROVE  IInv'
BY HandlesPreserves DEF SelectInterrupted, HandleSignals, Accept

(* The limits are looked at; or the fork fails.                            *)
LEMMA DecidePreserves == ASSUME IInv, Decide \/ ForkFails PROVE IInv'
<1>1. PICK to \in {"top", "fork"} :
         NoSignals(to) /\ pc # "add" /\ UNCHANGED loop /\ (to = "fork" => ~AtLimit)
  BY DEF Decide, ForkFails
<1>2. to \in Pcs \ {"add", "terminated"} /\ to \notin Told \cup Restarting
  BY DEF Pcs, Told, Restarting
<1>3. Kept({to}) /\ pc' = to /\ scheds' = scheds
  BY <1>1, <1>2, Undisturbed
<1>4. LoopType' /\ todo' \in 0 .. scheds'
  BY <1>1, <1>3, LoopTyped DEF loop, LoopType
<1>5. {to} \in SUBSET Pcs /\ to # "restart_test" /\ to # "rebind"
  BY <1>2
<1> QED BY <1>2, <1>3, <1>4, <1>5, KeptPreserves

-----------------------------------------------------------------------------
(* Steps that change the list.                                             *)

(* Steps that change marks or pipes in the list only.                      *)
LEMMA Touched ==
  ASSUME IInv, Marks({}), Known' = Known,
         \A n \in Entries : child_list'[n].fd \in {child_list[n].fd, NoFd},
         UNCHANGED <<kids, doomed, child_listlen, have_dead_child>>
  PROVE  BookType' /\ Listed' /\ Entries' = Entries
<1>1. child_list \in Seq(Child) /\ OwnFds /\ Listed /\ BookType
  BY TypeParts DEF IInv, BookType, OwnFds
<1>2. Known' = Known \ {}
  OBVIOUS
<1>3. Listed' /\ OwnFds' /\ Entries' = Entries
  BY <1>1, <1>2, ListMarked
<1>4. Running' = Running /\ child_list' \in Seq(Child)
  BY DEF Running, Marks
<1> QED BY <1>1, <1>3, <1>4 DEF BookType, OwnFds

(* What CloseReported does to the entries.                                 *)
LEMMA CloseMarks ==
  ASSUME IInv, CloseReported
  PROVE  /\ Marks({})
         /\ \A n \in Entries :
               child_list'[n].fd = IF child_list[n].fd \in readfds THEN NoFd
                                   ELSE child_list[n].fd
<1>1. child_list \in Seq(Child)
  BY DEF IInv, TypeOK
<1>2. \A n \in Entries : child_list[n] \in Child
  BY <1>1, EntryTyped
<1>3. child_list' = [n \in Entries |->
            IF child_list[n].fd \in readfds
            THEN [child_list[n] EXCEPT !.fd = NoFd] ELSE child_list[n]]
  BY DEF CloseReported
<1>4. \A n \in Entries :
         /\ child_list'[n] \in Child
         /\ child_list'[n].pid = child_list[n].pid
         /\ child_list'[n].dead = child_list[n].dead
         /\ child_list'[n].fd = IF child_list[n].fd \in readfds THEN NoFd
                                   ELSE child_list[n].fd
  BY <1>2, <1>3 DEF Child
<1>5. child_list' \in Seq(Child) /\ Len(child_list') = Len(child_list)
  <2>1. Entries = 1 .. Len(child_list) /\ Len(child_list) \in Nat
    BY <1>1 DEF Entries
  <2>2. child_list' \in [1 .. Len(child_list) -> Child]
    BY <1>3, <1>4, <2>1
  <2> QED BY <2>1, <2>2
<1> QED BY <1>4, <1>5 DEF Marks

(* Closing the pipes that select reported, in both loops.                  *)
LEMMA ClosedKept ==
  ASSUME IInv, pc \in {"pipes", "restart_close"}, CloseReported,
         NEW to \in Pcs \ {"add", "terminated", "fork"}, pc' = to,
         UNCHANGED <<kernel, recvd_signal_flags, scheds, history>>
  PROVE  Kept({to}) /\ scheds' = scheds
<1>1. /\ Marks({})
      /\ \A n \in Entries :
            child_list'[n].fd = IF child_list[n].fd \in readfds THEN NoFd
                                ELSE child_list[n].fd
  BY CloseMarks
<1>2. UNCHANGED <<kids, doomed, pending, blocked, shut, child_listlen, have_dead_child,
                  recvd_signal_flags, scheds, hups, termed, select_failed>>
  BY DEF CloseReported, kernel, history
<1>3. Kids' = Kids /\ Known' = Known /\ Known' = Kids'
  BY <1>2 DEF Kids, Known
<1>4. BookType' /\ Listed' /\ Entries' = Entries
  BY <1>1, <1>2, <1>3, Touched
<1>5. RestType /\ Scheduled /\ Counted /\ Masked /\ MaxHups \in Nat
  BY TypeParts, MasterAssumption DEF IInv
<1>6. Counted' /\ NoOrphans' /\ Masked'
  BY <1>2, <1>3, <1>5 DEF Counted, NoOrphans, Masked
<1>7. Ahead
  BY <1>2 DEF Ahead
<1>8. Tame
  <2>1. \A n \in Entries : Eof(child_list[n]) => Eof(child_list[n])'
    BY <1>1, <1>2 DEF Eof, Marks
  <2>2. ~select_failed => \A n \in Entries : child_list[n].fd \in readfds => Eof(child_list[n])
    BY DEF IInv, PipesTold
  <2> QED BY <1>1, <1>4, <2>1, <2>2 DEF Tame
<1> QED BY <1>2, <1>3, <1>4, <1>5, <1>6, <1>7, <1>8 DEF Kept, RestType, Scheduled

(* restart_daemon closes the pipes that were reported.                     *)
LEMMA RestartClosePreserves == ASSUME IInv, RestartClose PROVE IInv'
<1>1. /\ pc = "restart_close" /\ CloseReported /\ pc' = "restart_fds"
      /\ UNCHANGED <<kernel, recvd_signal_flags, scheds, history>> /\ UNCHANGED loop
      /\ "restart_fds" \in Pcs
  BY DEF RestartClose, Pcs
<1>2. Kept({"restart_fds"}) /\ scheds' = scheds
  BY <1>1, ClosedKept
<1>3. LoopType' /\ todo' \in 0 .. scheds' /\ todo' < scheds'
  <2>2. todo < scheds
    BY <1>1 DEF IInv, Scheduled, Restarting
  <2> QED BY <1>1, <1>2, <2>2, LoopTyped DEF LoopType, loop
<1>4. {"restart_fds"} \in SUBSET Pcs /\ "restart_fds" \notin Told
  BY <1>1 DEF Told
<1> QED BY <1>1, <1>2, <1>3, <1>4, KeptPreserves

(* So does daemon_loop.                                                    *)
LEMMA ClosePipesPreserves == ASSUME IInv, ClosePipes PROVE IInv'
<1>1. /\ pc = "pipes" /\ pc' = "handle"
      /\ UNCHANGED <<kernel, recvd_signal_flags, scheds, history>>
      /\ UNCHANGED <<todo, i, readfds, shutting_down, pid>>
      /\ "handle" \in Pcs
  BY DEF ClosePipes, Pcs
<1>2. Kept({"handle"}) /\ scheds' = scheds /\ nconnects' \in Nat \ {0}
  <2>1. CASE child_listlen > 0
    <3>1. Kept({"handle"}) /\ scheds' = scheds
      BY <1>1, <2>1, ClosedKept DEF ClosePipes
    <3> DEFINE R == {n \in Entries : child_list[n].recent}
    <3>2. IsFiniteSet(R) /\ Cardinality(R) \in Nat
      <4>1. Entries = 1 .. Len(child_list) /\ Len(child_list) \in Int
        BY DEF IInv, TypeOK, Entries
      <4>2. IsFiniteSet(1 .. Len(child_list))
        BY <4>1, FS_Interval
      <4>3. R \in SUBSET (1 .. Len(child_list))
        BY <4>1
      <4> QED BY <4>2, <4>3, FS_Subset, FS_CardinalityType
    <3>3. nconnects' = 1 + Cardinality(R)
      BY <2>1 DEF ClosePipes
    <3> HIDE DEF R
    <3> QED BY <3>1, <3>2, <3>3
  <2>2. CASE ~(child_listlen > 0)
    <3>1. NoSignals("handle")
      BY <1>1, <2>2 DEF ClosePipes, NoSignals
    <3>2. Kept({"handle"}) /\ scheds' = scheds
      BY <1>1, <3>1, Undisturbed
    <3> QED BY <2>2, <3>2 DEF ClosePipes
  <2> QED BY <2>1, <2>2
<1>3. LoopType' /\ todo' \in 0 .. scheds'
  BY <1>1, <1>2, LoopTyped DEF LoopType
<1>4. {"handle"} \in SUBSET Pcs /\ "handle" \notin Told \cup Restarting
  BY <1>1 DEF Told, Restarting
<1> QED BY <1>1, <1>2, <1>3, <1>4, KeptPreserves

(* Rebind takes the restart off the schedule.                              *)
LEMMA RebindPreserves == ASSUME IInv, Rebind PROVE IInv'
<1>1. /\ pc = "rebind" /\ pc' = "sched" /\ scheds' = scheds - 1
      /\ UNCHANGED <<kids, doomed, pending, blocked, shut, child_list, child_listlen,
                     have_dead_child, recvd_signal_flags, todo, i, readfds, nconnects,
                     shutting_down, pid, hups, termed, select_failed>>
  BY DEF Rebind, kernel, children, loop, history
<1>2. Tame /\ Ahead
  BY <1>1, TameSame
<1>3. Kids' = Kids /\ Known' = Known /\ Running' = Running /\ Entries' = Entries
  BY <1>1 DEF Kids, Known, Running, Entries
<1>4. BookType /\ RestType /\ Scheduled /\ Counted /\ Masked /\ MaxHups \in Nat
      /\ todo < scheds
  BY <1>1, TypeParts, MasterAssumption DEF IInv, Scheduled, Restarting
<1>5. BookType' /\ Listed'
  BY <1>1, <1>3, <1>4, ListSame DEF BookType, IInv
<1>6. Counted' /\ NoOrphans' /\ Masked'
  BY <1>1, <1>3, <1>4 DEF Counted, NoOrphans, Masked
<1>7. RestType'
  BY <1>1, <1>4 DEF RestType, Pcs
<1>8. Scheduled'
  BY <1>1, <1>4 DEF Scheduled, Restarting, RestType
<1>9. PipesTold'
  BY <1>1, <1>2, PipesStep DEF Told
<1> QED BY <1>5, <1>6, <1>7, <1>8, <1>9, Assemble

(* The shutmsg file may have the children signalled.                       *)
LEMMA CheckShutmsgPreserves == ASSUME IInv, CheckShutmsg PROVE IInv'
<1>1. /\ pc = "shut" /\ pc' = "select" /\ shutting_down' \in BOOLEAN
      /\ UNCHANGED <<kids, pending, blocked, shut, child_list, child_listlen,
                     have_dead_child, recvd_signal_flags, scheds, todo, i, readfds,
                     nconnects, pid, hups, termed, select_failed>>
  BY DEF CheckShutmsg, children, history
<1>2. Tame /\ Ahead
  BY <1>1, TameSame
<1>3. Kids' = Kids /\ Known' = Known /\ Running' = Running /\ Entries' = Entries
  BY <1>1 DEF Kids, Known, Running, Entries
<1>4. BookType /\ RestType /\ Scheduled /\ Counted /\ Masked /\ MaxHups \in Nat
  BY <1>1, TypeParts, MasterAssumption DEF IInv
<1>5. doomed' \in SUBSET Running
  <2>1. \A n \in Entries : child_list[n].pid \in Pids
    BY <1>4, EntryTyped DEF BookType
  <2>2. \/ doomed' = doomed
        \/ doomed' = doomed \cup {p \in {child_list[n].pid : n \in Entries} :
                                    kids[p] \in Live}
    BY DEF CheckShutmsg, disc_children, child_signal, Entries
  <2> QED BY <1>4, <2>1, <2>2 DEF BookType, Running
<1>6. BookType' /\ Listed'
  BY <1>1, <1>3, <1>4, <1>5, ListSame DEF BookType, IInv
<1>7. Counted' /\ NoOrphans' /\ Masked'
  BY <1>1, <1>3, <1>4 DEF Counted, NoOrphans, Masked
<1>8. RestType'
  BY <1>1, <1>4 DEF RestType, Pcs
<1>9. Scheduled'
  BY <1>1, <1>4 DEF Scheduled, Restarting
<1>10. PipesTold'
  BY <1>1, <1>2, PipesStep DEF Told
<1> QED BY <1>6, <1>7, <1>8, <1>9, <1>10, Assemble

(* select returns, in one of its ways.                                     *)
LEMMA SelectPreserves == ASSUME IInv, Select PROVE IInv'
<1>1. /\ pc = "select" /\ pc' = "update" /\ i' \in {"none", "ready", "error"}
      /\ select_failed => select_failed'
      /\ select_failed' \in BOOLEAN
      /\ UNCHANGED <<kids, doomed, pending, blocked, shut, child_list, child_listlen,
                     have_dead_child, recvd_signal_flags, scheds, hups, termed,
                     todo, nconnects, shutting_down, pid>>
  BY DEF Select, kernel, children, IInv, TypeOK
<1>2. Tame /\ Ahead
  BY <1>1, TameSame
<1>3. Kids' = Kids /\ Known' = Known /\ Running' = Running /\ Entries' = Entries
  BY <1>1 DEF Kids, Known, Running, Entries
<1>4. BookType /\ RestType /\ Scheduled /\ Counted /\ Masked /\ MaxHups \in Nat
  BY <1>1, TypeParts, MasterAssumption DEF IInv
<1>5. BookType' /\ Listed'
  BY <1>1, <1>3, <1>4, ListSame DEF BookType, IInv
<1>6. Counted' /\ NoOrphans' /\ Masked'
  BY <1>1, <1>3, <1>4 DEF Counted, NoOrphans, Masked
<1>7. \/ select_failed' /\ readfds' = readfds
      \/ readfds' \subseteq readfds /\ readfds' \subseteq (readfds \cap AtEof) \cup {LISTEN}
  <2>1. CASE SelectFails /\ UNCHANGED readfds /\ select_failed' = TRUE
    BY <2>1
  <2>2. CASE \E client \in BOOLEAN :
                readfds' = readfds \cap (AtEof \cup IF client THEN {LISTEN} ELSE {})
    BY <2>2
  <2> QED BY <2>1, <2>2 DEF Select
<1>8. RestType'
  BY <1>1, <1>4, <1>7 DEF RestType, Pcs
<1>9. Scheduled'
  BY <1>1, <1>4 DEF Scheduled, Restarting
<1>10. \/ select_failed'
       \/ \A n \in Entries' : child_list'[n].fd \in readfds' => Eof(child_list[n])'
  <2> SUFFICES ASSUME ~select_failed', NEW n \in Entries, child_list[n].fd \in readfds'
               PROVE  Eof(child_list[n])
    BY <1>1, <1>3 DEF Eof
  <2> QED BY <1>7, ReportedEof
<1>11. PipesTold'
  BY <1>1, <1>2, <1>10, PipesStep
<1> QED BY <1>5, <1>6, <1>8, <1>9, <1>11, Assemble

-----------------------------------------------------------------------------
(* child_update and fork_server.                                           *)

(* child_update drops the dead entries and keeps the others.               *)
LEMMA PurgePreserves ==
  ASSUME IInv, pc # "add", child_update, pc' # "add",
         UNCHANGED <<kids, doomed, select_failed>>,
         have_dead_child' \in BOOLEAN
  PROVE  BookType' /\ Listed' /\ Tame /\ child_listlen' = child_listlen
<1>0. /\ child_list \in Seq(Child) /\ OwnFds /\ Listed /\ BookType
      /\ child_listlen = Cardinality(Kids) /\ Known = Kids /\ Known' = Kids
      /\ Running' = Running
  BY TypeParts DEF IInv, BookType, OwnFds, Counted, Known, Kids, Running
<1>1. PICK g : Keeps(Len(child_list), child_list', g)
  BY <1>0, PurgedKeeps DEF child_update
<1> DEFINE L == Len(child_list')
<1>2. /\ child_list' \in Seq(Child) /\ L \in Nat /\ Entries' = 1 .. L
      /\ Entries = 1 .. Len(child_list) /\ Len(child_list) \in Nat
      /\ g \in [1 .. L -> Entries]
  BY <1>0, <1>1 DEF Keeps, Entries
<1>3. /\ \A k \in Entries' : /\ g[k] \in Entries /\ ~child_list[g[k]].dead
                             /\ child_list'[k] = child_list[g[k]]
      /\ \A j, k \in Entries' : g[j] = g[k] => j = k
      /\ \A m \in Entries : ~child_list[m].dead => \E k \in Entries' : g[k] = m
  BY <1>1, <1>2 DEF Keeps
<1>4. Listed'
  <2>1. \A n \in Entries' : child_list'[n].pid \in Known'
    BY <1>0, <1>3 DEF Listed
  <2>2. \A p \in Known' : \E n \in Entries' : /\ child_list'[n].pid = p
                                              /\ ~child_list'[n].dead
    <3> TAKE p \in Known'
    <3>1. PICK m \in Entries : child_list[m].pid = p /\ ~child_list[m].dead
      BY <1>0 DEF Listed
    <3>2. PICK k \in Entries' : g[k] = m
      BY <1>3, <3>1
    <3> QED BY <1>3, <3>1, <3>2
  <2>3. ASSUME NEW m \in Entries', NEW n \in Entries', m < n,
               child_list'[m].pid = child_list'[n].pid
        PROVE  FALSE
    <3>1. /\ g[m] \in Entries /\ g[n] \in Entries /\ g[m] # g[n]
          /\ child_list[g[m]].pid = child_list[g[n]].pid
          /\ ~child_list[g[m]].dead /\ ~child_list[g[n]].dead
      BY <1>2, <1>3, <2>3
    <3>2. g[m] \in Nat /\ g[n] \in Nat
      BY <1>2, <3>1
    <3>3. g[m] < g[n] \/ g[n] < g[m]
      BY <3>1, <3>2
    <3> QED BY <1>0, <3>1, <3>3 DEF Listed
  <2> QED BY <2>1, <2>2, <2>3 DEF Listed
<1>5. OwnFds'
  <2>1. ASSUME NEW m \in Entries', NEW n \in Entries', m # n,
               child_list'[m].fd = child_list'[n].fd
        PROVE  child_list'[m].fd = NoFd
    <3>1. /\ g[m] \in Entries /\ g[n] \in Entries /\ g[m] # g[n]
          /\ child_list[g[m]].fd = child_list[g[n]].fd
          /\ child_list'[m].fd = child_list[g[m]].fd
      BY <1>3, <2>1
    <3> QED BY <1>0, <3>1 DEF OwnFds
  <2> QED BY <2>1 DEF OwnFds
<1>6. Tame
  <2>1. \A n \in Entries' : Eof(child_list[g[n]]) => Eof(child_list[n])'
    BY <1>3 DEF Eof
  <2> QED BY <1>3, <2>1 DEF Tame
<1>7. child_listlen' = child_listlen
  <2>1. CASE child_list' # <<>>
    BY <2>1 DEF child_update
  <2>2. CASE child_list' = <<>>
    <3>1. Entries' = {}
      BY <1>2, <2>2
    <3>2. Known = {}
      BY <1>0, <1>3, <3>1 DEF Listed
    <3>3. Cardinality(Kids) = 0
      BY <1>0, <3>2, FS_EmptySet
    <3> QED BY <1>0, <2>2, <3>3 DEF child_update
  <2> QED BY <2>1, <2>2
<1> QED BY <1>0, <1>2, <1>4, <1>5, <1>6, <1>7 DEF BookType, OwnFds

(* The purge after select.                                                 *)
LEMMA UpdateChildrenPreserves == ASSUME IInv, UpdateChildren PROVE IInv'
<1>1. /\ pc = "update" /\ pc' \in {"top", "pipes", "failed"}
      /\ UNCHANGED <<kids, doomed, pending, blocked, shut, recvd_signal_flags, scheds,
                     todo, i, readfds, nconnects, shutting_down, pid,
                     hups, termed, select_failed>>
  BY DEF UpdateChildren, kernel, loop, history
<1>2. RestType /\ Scheduled /\ Counted /\ Masked /\ BookType
  BY TypeParts DEF IInv
<1>3. Kids' = Kids /\ Known' = Known /\ Known' = Kids' /\ Running' = Running
  BY <1>1 DEF Kids, Known, Running
<1>4. BookType' /\ Listed' /\ Tame /\ child_listlen' = child_listlen
  <2>1. CASE have_dead_child
    BY <1>1, <2>1, PurgePreserves DEF UpdateChildren
  <2>2. CASE ~have_dead_child
    <3>1. UNCHANGED <<child_list, child_listlen, have_dead_child>>
      BY <2>2 DEF UpdateChildren, children
    <3>2. Entries' = Entries
      BY <3>1 DEF Entries
    <3>3. BookType'
      BY <1>1, <1>2, <1>3, <3>1, <3>2 DEF BookType
    <3> QED BY <1>1, <1>3, <3>1, <3>3, ListSame, TameSame DEF IInv
  <2> QED BY <2>1, <2>2
<1>5. Counted' /\ NoOrphans' /\ Masked'
  BY <1>1, <1>2, <1>3, <1>4 DEF Counted, NoOrphans, Masked
<1>6. RestType'
  BY <1>1, <1>2 DEF RestType, Pcs, Exited
<1>7. Scheduled'
  BY <1>1, <1>2 DEF Scheduled, Restarting
<1>8. Ahead
  BY <1>1 DEF Ahead
<1>9. PipesTold'
  BY <1>1, <1>4, <1>8, PipesStep DEF Told
<1> QED BY <1>4, <1>5, <1>6, <1>7, <1>9, Assemble

-----------------------------------------------------------------------------
(* fork_server: the fork, and the entry that child_add makes.              *)
LEMMA ForkPreserves == ASSUME IInv, Fork PROVE IInv'
<1>1. PICK p \in Pids : /\ kids[p] = "free" /\ kids' = [kids EXCEPT ![p] = "new"]
                        /\ pid' = p
  BY DEF Fork
<1>2. /\ pc = "fork" /\ pc' = "add" /\ blocked' = ForkMask
      /\ UNCHANGED <<doomed, pending, shut, child_list, child_listlen, have_dead_child,
                     recvd_signal_flags, scheds, todo, i, readfds, nconnects,
                     shutting_down, hups, termed, select_failed>>
  BY DEF Fork, children, history
<1>3. RestType /\ Scheduled /\ Counted /\ Masked /\ BookType /\ MaxInstances \in Nat
  BY TypeParts, MasterAssumption DEF IInv
<1>4. kids' \in [Pids -> KidStates] /\ kids'[p] = "new"
      /\ \A q \in Pids : q # p => kids'[q] = kids[q]
  BY <1>1, <1>3 DEF BookType, KidStates
<1>5. /\ Kids' = Kids \cup {p} /\ p \notin Kids
      /\ Known' = Kids /\ Known = Kids
      /\ Running \subseteq Running' /\ Entries' = Entries
  BY <1>1, <1>2, <1>4 DEF Kids, Known, Running, Entries, Live
<1>6. BookType'
  BY <1>2, <1>3, <1>4, <1>5 DEF BookType
<1>7. Listed'
  BY <1>2, <1>5, ListSame DEF IInv
<1>8. Counted'
  <2>1. Kids \in SUBSET Pids
    BY DEF Kids
  <2>2. IsFiniteSet(Kids) /\ Cardinality(Kids) \in Nat
    BY <2>1, PidsFinite
  <2>3. Cardinality(Kids \cup {p}) = Cardinality(Kids) + 1
    BY <1>5, <2>2, FS_AddElement
  <2>4. MaxInstances > 0 => Cardinality(Kids) < MaxInstances
    BY <1>2, <1>3, <1>5 DEF Counted
  <2>5. MaxInstances > 0 => Cardinality(Kids') <= MaxInstances
    BY <1>3, <1>5, <2>2, <2>3, <2>4
  <2> QED BY <1>2, <1>3, <1>5, <2>5 DEF Counted
<1>9. NoOrphans' /\ Masked'
  BY <1>1, <1>2, <1>4 DEF NoOrphans, Masked
<1>10. RestType'
  BY <1>1, <1>2, <1>3 DEF RestType, Pcs, ForkMask
<1>11. Scheduled'
  BY <1>2, <1>3 DEF Scheduled, Restarting
<1>12. PipesTold'
  <2>1. ASSUME NEW n \in Entries, Eof(child_list[n])
        PROVE  Eof(child_list[n])'
    <3>1. child_list[n].pid \in Pids
      BY <1>3, EntryTyped DEF BookType
    <3>2. CASE child_list[n].dead
      BY <1>2, <3>2 DEF Eof
    <3>3. CASE ~child_list[n].dead
      <4>1. child_list[n].pid \in Kids
        BY <1>5, <3>3 DEF IInv, Listed
      <4>2. child_list[n].pid # p
        BY <1>5, <4>1
      <4> QED BY <1>2, <1>4, <2>1, <3>1, <4>2 DEF Eof
    <3> QED BY <3>2, <3>3
  <2> QED BY <1>2, <1>5, <2>1 DEF IInv, PipesTold
<1> QED BY <1>6, <1>7, <1>8, <1>9, <1>10, <1>11, <1>12, Assemble

(* child_add, and the end of the blocking.                                 *)
LEMMA RecordChildPreserves == ASSUME IInv, RecordChild PROVE IInv'
<1>1. /\ pc = "add" /\ pc' = "top" /\ blocked' = {} /\ child_add(pid)
      /\ UNCHANGED <<kids, doomed, pending, shut, recvd_signal_flags, scheds,
                     todo, i, readfds, nconnects, shutting_down, pid,
                     hups, termed, select_failed>>
  BY DEF RecordChild, loop, history
<1>2. RestType /\ Scheduled /\ Counted /\ Masked /\ BookType /\ Listed
  BY TypeParts DEF IInv
<1>3. /\ Kids' = Kids /\ Known = Kids \ {pid} /\ Known' = Kids /\ Running' = Running
      /\ pid \in Kids /\ pid \in Pids
  BY <1>1, <1>2 DEF Kids, Known, Running, Masked, RestType
<1>4. child_list \in Seq(Child)
  BY <1>2 DEF BookType
<1> PICK c : c = [pid |-> pid, fd |-> LowestFd, dead |-> FALSE, recent |-> TRUE]
  OBVIOUS
<1>5. /\ LowestFd \in Nat \ {LISTEN}
      /\ \A n \in Entries : child_list[n].fd # LowestFd
  BY <1>4, FreshFd
<1>6. c \in Child /\ c.pid = pid /\ c.fd = LowestFd /\ c.dead = FALSE
  BY <1>3, <1>5 DEF Child
<1>7. /\ child_list' = <<c>> \o child_list
      /\ child_listlen' = child_listlen + 1 /\ have_dead_child' = have_dead_child
  BY <1>1 DEF child_add
<1>8. /\ child_list' \in Seq(Child) /\ child_list'[1] = c
      /\ Entries = 1 .. Len(child_list) /\ Len(child_list) \in Nat
      /\ Entries' = 1 .. Len(child_list) + 1
      /\ \A n \in Entries : child_list'[n + 1] = child_list[n] /\ n + 1 \in Entries'
      /\ \A n \in Entries' : n # 1 => n - 1 \in Entries /\ child_list'[n] = child_list[n - 1]
  BY <1>4, <1>6, <1>7 DEF Entries
<1>9. Listed'
  <2>1. ASSUME NEW n \in Entries', ~child_list'[n].dead
        PROVE  child_list'[n].pid \in Known'
    <3>1. CASE n = 1
      BY <1>3, <1>6, <1>8, <3>1
    <3>2. CASE n # 1
      BY <1>2, <1>3, <1>8, <2>1, <3>2 DEF Listed
    <3> QED BY <3>1, <3>2
  <2>2. ASSUME NEW p \in Known'
        PROVE  \E n \in Entries' : child_list'[n].pid = p /\ ~child_list'[n].dead
    <3>1. CASE p = pid
      <4>1. 1 \in Entries'
        BY <1>8
      <4> QED BY <1>6, <1>8, <3>1, <4>1
    <3>2. CASE p # pid
      <4>1. PICK n \in Entries : child_list[n].pid = p /\ ~child_list[n].dead
        BY <1>2, <1>3, <2>2, <3>2 DEF Listed
      <4> QED BY <1>8, <4>1
    <3> QED BY <3>1, <3>2
  <2>3. ASSUME NEW m \in Entries', NEW n \in Entries', m < n,
               child_list'[m].pid = child_list'[n].pid
        PROVE  child_list'[n].dead
    <3>1. n # 1 /\ n - 1 \in Entries /\ child_list'[n] = child_list[n - 1]
          /\ m \in Nat /\ n \in Nat
      BY <1>8, <2>3
    <3>2. CASE m = 1
      <4>1. child_list[n - 1].pid = pid
        BY <1>6, <1>8, <2>3, <3>1, <3>2
      <4>2. child_list[n - 1].pid \notin Known
        BY <1>3, <4>1
      <4> QED BY <1>2, <3>1, <4>2 DEF Listed
    <3>3. CASE m # 1
      <4>1. m - 1 \in Entries /\ child_list'[m] = child_list[m - 1] /\ m - 1 < n - 1
        BY <1>8, <2>3, <3>1, <3>3
      <4> QED BY <1>2, <2>3, <3>1, <4>1 DEF Listed
    <3> QED BY <3>2, <3>3
  <2> QED BY <2>1, <2>2, <2>3 DEF Listed
<1>10. OwnFds'
  <2>1. ASSUME NEW m \in Entries', NEW n \in Entries', m # n,
               child_list'[m].fd = child_list'[n].fd
        PROVE  child_list'[m].fd = NoFd
    <3>1. CASE m = 1
      BY <1>5, <1>6, <1>8, <2>1, <3>1
    <3>2. CASE n = 1
      BY <1>5, <1>6, <1>8, <2>1, <3>2
    <3>3. CASE m # 1 /\ n # 1
      <4>1. /\ m - 1 \in Entries /\ child_list'[m] = child_list[m - 1]
            /\ n - 1 \in Entries /\ child_list'[n] = child_list[n - 1]
            /\ m \in Nat /\ n \in Nat
        BY <1>8, <3>3
      <4>2. m - 1 # n - 1
        BY <2>1, <4>1
      <4> QED BY <1>2, <2>1, <4>1, <4>2 DEF BookType
    <3> QED BY <3>1, <3>2, <3>3
  <2> QED BY <2>1 DEF OwnFds
<1>11. BookType'
  BY <1>1, <1>2, <1>3, <1>7, <1>8, <1>10 DEF BookType, OwnFds
<1>12. Counted'
  <2>1. Kids \in SUBSET Pids
    BY DEF Kids
  <2>2. IsFiniteSet(Kids) /\ Cardinality(Kids) \in Nat
    BY <2>1, PidsFinite
  <2>3. Cardinality(Kids \ {pid}) = Cardinality(Kids) - 1
    BY <1>3, <2>2, FS_RemoveElement
  <2>4. child_listlen = Cardinality(Kids \ {pid})
    BY <1>2, <1>3 DEF Counted
  <2> QED BY <1>1, <1>2, <1>3, <1>7, <2>2, <2>3, <2>4 DEF Counted
<1>13. NoOrphans' /\ Masked'
  BY <1>1 DEF NoOrphans, Masked
<1>14. RestType'
  BY <1>1, <1>2 DEF RestType, Pcs
<1>15. Scheduled'
  BY <1>1, <1>2 DEF Scheduled, Restarting
<1>16. PipesTold'
  <2> SUFFICES ASSUME ~select_failed, NEW n \in Entries', ~Eof(child_list[n])'
               PROVE  child_list'[n].fd # NoFd
    BY <1>1 DEF PipesTold
  <2>1. CASE n = 1
    BY <1>5, <1>6, <1>8, <2>1 DEF NoFd
  <2>2. CASE n # 1
    <3>1. n - 1 \in Entries /\ child_list'[n] = child_list[n - 1]
      BY <1>8, <2>2
    <3>2. ~Eof(child_list[n - 1])
      BY <1>1, <3>1 DEF Eof
    <3> QED BY <3>1, <3>2 DEF IInv, PipesTold
  <2> QED BY <2>1, <2>2
<1> QED BY <1>9, <1>11, <1>12, <1>13, <1>14, <1>15, <1>16, Assemble

-----------------------------------------------------------------------------
(* Signals, children and the theorems.                                     *)

(* Where a signal handler leaves the master.                               *)
LEMMA InterruptedAt ==
  ASSUME IInv, pc \notin Exited
  PROVE  /\ Interrupted(pc) \in Pcs \ Exited
         /\ \/ Interrupted(pc) = pc
            \/ Interrupted(pc) = "eintr" /\ pc = "select"
            \/ Interrupted(pc) = "restart_fds" /\ pc = "restart_select"
<1>1. pc \in Pcs
  BY DEF IInv, TypeOK
<1>2. CASE readfds \cap AtEof # {}
  BY <1>1, <1>2 DEF Interrupted
<1>3. CASE readfds \cap AtEof = {}
  <2>1. CASE pc = "select"
    <3>1. Interrupted(pc) = "eintr"
      BY <1>3, <2>1 DEF Interrupted
    <3> QED BY <2>1, <3>1 DEF Pcs, Exited
  <2>2. CASE pc = "restart_select"
    <3>1. Interrupted(pc) = "restart_fds"
      BY <1>3, <2>2 DEF Interrupted
    <3> QED BY <2>2, <3>1 DEF Pcs, Exited
  <2>3. CASE pc # "select" /\ pc # "restart_select"
    <3>1. Interrupted(pc) = pc
      BY <1>3, <2>3 DEF Interrupted
    <3> QED BY <1>1, <3>1
  <2> QED BY <2>1, <2>2, <2>3
<1> QED BY <1>2, <1>3

(* SIGCHLD reaps at once, between any two steps.                           *)
LEMMA SigChildPreserves == ASSUME IInv, sig_child PROVE IInv'
<1>1. /\ handle_chld(Zombies) /\ pc \notin Exited /\ "CHLD" \notin blocked
      /\ pending' = FALSE /\ pc' = Interrupted(pc)
      /\ recvd_signal_flags' = recvd_signal_flags \cup {"CHLD"}
      /\ UNCHANGED <<doomed, blocked, shut, scheds, todo, i, readfds, nconnects,
                     shutting_down, pid, hups, termed, select_failed>>
  BY DEF sig_child, Deliverable, loop, history
<1>2. RestType /\ Scheduled /\ Counted /\ Masked /\ BookType /\ MaxInstances \in Nat
  BY TypeParts, MasterAssumption DEF IInv
<1>3. pc # "add"
  BY <1>1, <1>2 DEF Masked, ForkMask
<1>4. /\ pc' \in Pcs \ Exited
      /\ \/ pc' = pc
         \/ pc' = "eintr" /\ pc = "select"
         \/ pc' = "restart_fds" /\ pc = "restart_select"
  BY <1>1, InterruptedAt
<1>5. Tame /\ Ahead
  BY <1>1, <1>3, ReapedTame
<1>6. /\ kids' \in [Pids -> KidStates]
      /\ Kids' = Kids \ Zombies /\ Zombies \subseteq Kids /\ Running' = Running
      /\ Marks(Zombies) /\ \A n \in Entries : child_list'[n].fd = child_list[n].fd
      /\ child_listlen' = Cardinality(Kids') /\ have_dead_child' \in BOOLEAN
  BY <1>1, <1>3, Reaped
<1>7. Known = Kids /\ Known' = Kids'
  BY <1>3, <1>4 DEF Known
<1>8. /\ child_list \in Seq(Child) /\ OwnFds /\ Listed /\ doomed \in SUBSET Running
      /\ child_list' \in Seq(Child)
  BY <1>6 DEF IInv, TypeOK, OwnFds, Marks
<1>9. Listed' /\ OwnFds'
  BY <1>6, <1>7, <1>8, ListMarked
<1>10. Counted' /\ child_listlen' \in Nat
  <2>1. Kids \in SUBSET Pids /\ Kids' \in SUBSET Pids
    BY DEF Kids
  <2>2. Cardinality(Kids') <= Cardinality(Kids)
    BY <1>6, <2>1, FewerKids
  <2>3. Cardinality(Kids) \in Nat /\ Cardinality(Kids') \in Nat
    BY <2>1, PidsFinite
  <2>4. MaxInstances > 0 => /\ Cardinality(Kids) <= MaxInstances
                            /\ pc = "fork" => Cardinality(Kids) < MaxInstances
    BY <1>2, <1>7 DEF Counted
  <2> QED BY <1>2, <1>4, <1>6, <1>7, <2>2, <2>3, <2>4 DEF Counted
<1>11. BookType'
  BY <1>1, <1>6, <1>8, <1>9, <1>10 DEF BookType, OwnFds
<1>12. NoOrphans' /\ Masked'
  BY <1>1, <1>2, <1>3, <1>4 DEF NoOrphans, Masked, Exited
<1>13. RestType'
  BY <1>1, <1>2, <1>4 DEF RestType
<1>14. Scheduled'
  BY <1>1, <1>2, <1>4 DEF Scheduled, Restarting
<1>15. PipesTold'
  BY <1>1, <1>4, <1>5, PipesStep DEF Told
<1> QED BY <1>9, <1>10, <1>11, <1>12, <1>13, <1>14, <1>15, Assemble

(* The other handlers only set their flag.                                 *)
LEMMA FlagPreserves ==
  ASSUME IInv, sig_terminate \/ sig_alarm \/ sig_restart
  PROVE  IInv'
<1>1. /\ pc \notin Exited /\ pc' = Interrupted(pc)
      /\ UNCHANGED <<kids, doomed, pending, blocked, shut, child_list, child_listlen,
                     have_dead_child, scheds, todo, i, readfds, nconnects,
                     shutting_down, pid, select_failed>>
  BY DEF sig_terminate, sig_alarm, sig_restart, Deliverable, kernel, children, loop,
         history
<1>2. /\ RestType /\ Scheduled /\ Counted /\ Masked /\ BookType /\ Listed
      /\ MaxHups \in Nat
  BY TypeParts, MasterAssumption DEF IInv
<1>3. /\ pc' \in Pcs \ Exited
      /\ \/ pc' = pc
         \/ pc' = "eintr" /\ pc = "select"
         \/ pc' = "restart_fds" /\ pc = "restart_select"
  BY <1>1, InterruptedAt
<1>4. /\ recvd_signal_flags' \in SUBSET {"TERM", "CHLD", "HUP", "ALRM"}
      /\ hups' \in 0 .. MaxHups /\ termed' \in BOOLEAN
      /\ scheds' + (IF "HUP" \in recvd_signal_flags' THEN 1 ELSE 0) <= hups'
  <2>1. CASE sig_terminate
    BY <1>1, <1>2, <2>1 DEF sig_terminate, RestType, Scheduled
  <2>2. CASE sig_alarm
    BY <1>1, <1>2, <2>2 DEF sig_alarm, RestType, Scheduled, history
  <2>3. CASE sig_restart
    <3>1. /\ hups' = hups + 1 /\ hups < MaxHups /\ termed' = termed
          /\ recvd_signal_flags' = recvd_signal_flags \cup {"HUP"}
      BY <2>3 DEF sig_restart
    <3>2. scheds + 1 <= hups'
      BY <1>2, <3>1 DEF RestType, Scheduled
    <3> QED BY <1>1, <1>2, <3>1, <3>2 DEF RestType
  <2> QED BY <2>1, <2>2, <2>3
<1>5. Tame /\ Ahead
  BY <1>1, TameSame
<1>6. Kids' = Kids /\ Known' = Known /\ Running' = Running /\ Entries' = Entries
  BY <1>1, <1>3 DEF Kids, Known, Running, Entries
<1>7. BookType' /\ Listed'
  BY <1>1, <1>2, <1>6, ListSame DEF BookType
<1>8. Counted' /\ NoOrphans' /\ Masked'
  BY <1>1, <1>2, <1>3, <1>6 DEF Counted, NoOrphans, Masked, Exited
<1>9. RestType'
  BY <1>1, <1>2, <1>3, <1>4 DEF RestType
<1>10. Scheduled'
  BY <1>1, <1>2, <1>3, <1>4 DEF Scheduled, Restarting
<1>11. PipesTold'
  BY <1>1, <1>3, <1>5, PipesStep DEF Told
<1> QED BY <1>7, <1>8, <1>9, <1>10, <1>11, Assemble

-----------------------------------------------------------------------------
(* A child goes on or ends; it stays a child until it is reaped.           *)
LEMMA ChildPreserves ==
  ASSUME IInv, NEW p \in Pids, ChildStarts(p) \/ ChildExits(p)
  PROVE  IInv'
<1>1. UNCHANGED <<blocked, shut, child_list, child_listlen, have_dead_child,
                  recvd_signal_flags, scheds, pc, todo, i, readfds, nconnects,
                  shutting_down, pid, hups, termed, select_failed>>
  BY DEF ChildStarts, ChildExits, ChildClosesListeners, ChildClosesPipe, children,
         loop, history
<1>2. /\ RestType /\ Scheduled /\ Counted /\ Masked /\ BookType /\ Listed
      /\ NoOrphans /\ kids \in [Pids -> KidStates]
  BY TypeParts DEF IInv, BookType
<1>3. PICK k \in {"closed", "up", "zombie"} :
          /\ kids' = [kids EXCEPT ![p] = k] /\ kids[p] \in Live
          /\ k # "zombie" => doomed' = doomed
          /\ k = "zombie" => doomed' = doomed \ {p}
          /\ k = "closed" => kids[p] = "new"
          /\ pending' \in BOOLEAN
  <2>1. CASE ChildStarts(p)
    BY <1>2, <2>1 DEF ChildStarts, ChildClosesListeners, ChildClosesPipe, Live, RestType
  <2>2. CASE ChildExits(p)
    BY <2>2 DEF ChildExits, Running
  <2> QED BY <2>1, <2>2
<1>4. /\ kids' \in [Pids -> KidStates] /\ kids'[p] = k
      /\ \A q \in Pids : q # p => kids'[q] = kids[q]
  BY <1>2, <1>3 DEF KidStates
<1>5. /\ Kids' = Kids /\ Known' = Known /\ Entries' = Entries
      /\ Running' = IF k = "zombie" THEN Running \ {p} ELSE Running
  BY <1>1, <1>3, <1>4 DEF Kids, Known, Running, Entries, Live
<1>6. BookType' /\ NoOrphans'
  BY <1>1, <1>2, <1>3, <1>4, <1>5 DEF BookType, NoOrphans
<1>7. Listed'
  BY <1>1, <1>2, <1>5, ListSame
<1>8. Counted'
  BY <1>1, <1>2, <1>5 DEF Counted
<1>9. Masked'
  <2>1. pc = "add" => kids'[pid] # "free"
    BY <1>2, <1>4 DEF Masked, RestType
  <2> QED BY <1>1, <1>2, <2>1 DEF Masked
<1>10. RestType' /\ Scheduled'
  BY <1>1, <1>2, <1>3 DEF RestType, Scheduled
<1>11. Ahead
  BY <1>3, <1>4 DEF Ahead, Live
<1>12. Tame
  <2>1. ASSUME NEW n \in Entries, Eof(child_list[n])
        PROVE  Eof(child_list[n])'
    <3>1. child_list[n].pid \in Pids
      BY <1>2, EntryTyped DEF BookType
    <3>2. kids[child_list[n].pid] \notin {"new", "closed"}
              => kids'[child_list[n].pid] \notin {"new", "closed"}
      BY <1>11, <3>1 DEF Ahead
    <3> QED BY <1>1, <2>1, <3>2 DEF Eof
  <2> QED BY <1>1, <1>5, <2>1 DEF Tame
<1>13. PipesTold'
  BY <1>1, <1>11, <1>12, PipesStep
<1> QED BY <1>6, <1>7, <1>8, <1>9, <1>10, <1>13, Assemble

(* Connections are no longer recent.                                       *)
LEMMA IntervalPreserves == ASSUME IInv, Interval PROVE IInv'
<1>1. /\ child_list' = [n \in Entries |-> [child_list[n] EXCEPT !.recent = FALSE]]
      /\ UNCHANGED <<kids, doomed, pending, blocked, shut, child_listlen,
                     have_dead_child, recvd_signal_flags, scheds, pc, todo, i, readfds,
                     nconnects, shutting_down, pid, hups, termed, select_failed>>
  BY DEF Interval, kernel, loop, history
<1>2. /\ RestType /\ Scheduled /\ Counted /\ Masked /\ BookType /\ NoOrphans
      /\ child_list \in Seq(Child)
  BY TypeParts DEF IInv, BookType
<1>3. \A n \in Entries : child_list[n] \in Child
  BY <1>2, EntryTyped
<1>4. \A n \in Entries :
         /\ child_list'[n] \in Child
         /\ child_list'[n].pid = child_list[n].pid
         /\ child_list'[n].dead = child_list[n].dead
         /\ child_list'[n].fd = child_list[n].fd
  BY <1>1, <1>3 DEF Child
<1>5. child_list' \in Seq(Child) /\ Len(child_list') = Len(child_list)
  <2>1. Entries = 1 .. Len(child_list) /\ Len(child_list) \in Nat
    BY <1>2 DEF Entries
  <2>2. child_list' \in [1 .. Len(child_list) -> Child]
    BY <1>1, <1>4, <2>1
  <2> QED BY <2>1, <2>2
<1>6. Marks({})
  BY <1>4, <1>5 DEF Marks
<1>7. Kids' = Kids /\ Known' = Known /\ Running' = Running
  BY <1>1 DEF Kids, Known, Running
<1>8. BookType' /\ Listed' /\ Entries' = Entries
  BY <1>1, <1>4, <1>6, <1>7, Touched
<1>9. Counted' /\ Masked' /\ NoOrphans' /\ RestType' /\ Scheduled'
  BY <1>1, <1>2, <1>7 DEF Counted, Masked, NoOrphans, RestType, Scheduled
<1>10. Tame /\ Ahead
  BY <1>1, <1>4, <1>8 DEF Tame, Ahead, Eof
<1>11. PipesTold'
  BY <1>1, <1>10, PipesStep
<1> QED BY <1>8, <1>9, <1>11, Assemble

(* The shutmsg file, and steps that change nothing.                        *)
LEMMA QuietPreserves ==
  ASSUME IInv, Shutmsg \/ UNCHANGED vars
  PROVE  IInv'
<1>1. /\ UNCHANGED <<kids, doomed, pending, blocked, child_list, child_listlen,
                     have_dead_child, recvd_signal_flags, scheds, pc, todo, i, readfds,
                     nconnects, shutting_down, pid, hups, termed, select_failed>>
      /\ shut' \in {"none", "later", "due"} \cup {shut}
  BY DEF Shutmsg, vars, kernel, children, loop, history
<1>2. /\ RestType /\ Scheduled /\ Counted /\ Masked /\ BookType /\ NoOrphans /\ Listed
      /\ PipesTold
  BY TypeParts DEF IInv
<1>3. Kids' = Kids /\ Known' = Known /\ Running' = Running /\ Entries' = Entries
  BY <1>1 DEF Kids, Known, Running, Entries
<1>4. BookType' /\ Listed'
  BY <1>1, <1>2, <1>3, ListSame DEF BookType
<1>5. Counted' /\ Masked' /\ NoOrphans' /\ RestType' /\ Scheduled'
  BY <1>1, <1>2, <1>3 DEF Counted, Masked, NoOrphans, RestType, Scheduled
<1>6. PipesTold'
  BY <1>1, <1>2, <1>3 DEF PipesTold, Eof
<1> QED BY <1>4, <1>5, <1>6, Assemble

(* Every step of the master keeps the invariant.                           *)
LEMMA MasterPreserves == ASSUME IInv, Master PROVE IInv'
<1>1. CASE Restart
  BY <1>1, RestartFdsPreserves, RestartTestPreserves, RestartSelectPreserves,
     RestartClosePreserves DEF Restart
<1>2. CASE Loop
  BY <1>2, RunSchedulePreserves, ScheduleDonePreserves, CallRestartPreserves,
     ListenFdsPreserves, CheckShutmsgPreserves, SelectPreserves, WaitingPreserves,
     UpdateChildrenPreserves, ClosePipesPreserves, DecidePreserves,
     RecordChildPreserves DEF Loop
<1>3. CASE Forking \/ Rebinding
  BY <1>3, ForkPreserves, DecidePreserves, RebindPreserves, RebindFailsPreserves
     DEF Forking, Rebinding
<1> QED BY <1>1, <1>2, <1>3 DEF Master

(* The invariant at first.                                                 *)
LEMMA InitInvariant == Init => IInv
<1> SUFFICES ASSUME Init PROVE IInv
  OBVIOUS
<1>1. Kids = {} /\ Known = {} /\ Entries = {} /\ Running = {}
  BY DEF Init, Kids, Known, Entries, Running, Live
<1>2. Cardinality({}) = 0
  BY FS_EmptySet
<1>3. BookType
  <2>1. child_list \in Seq(Child)
    BY DEF Init
  <2> QED BY <1>1, <2>1 DEF Init, BookType, KidStates
<1>4. RestType
  <2>1. /\ blocked \in SUBSET {"TERM", "CHLD"} /\ readfds \in SUBSET Nat
        /\ recvd_signal_flags \in SUBSET {"TERM", "CHLD", "HUP", "ALRM"}
    BY DEF Init
  <2>2. /\ scheds \in 0 .. MaxHups /\ todo \in 0 .. scheds /\ hups \in 0 .. MaxHups
        /\ nconnects \in Nat \ {0}
    BY MasterAssumption DEF Init
  <2> QED BY <2>1, <2>2 DEF Init, RestType, Pcs
<1>5. Masked /\ Listed /\ PipesTold /\ NoOrphans /\ Scheduled
  BY <1>1 DEF Init, Masked, Listed, PipesTold, NoOrphans, Scheduled, Restarting
<1>6. Counted
  BY <1>1, <1>2, MasterAssumption DEF Init, Counted
<1> QED BY <1>3, <1>4, <1>5, <1>6, TypeParts DEF IInv

(* The invariant of the master: its list of children agrees with the       *)
(* kernel's, whatever signals come in between.  Fairness is not used.      *)
THEOREM Inductive == Spec => []IInv
<1>1. Init => IInv
  BY InitInvariant
<1>2. IInv /\ [Next]_vars => IInv'
  <2> SUFFICES ASSUME IInv, [Next]_vars PROVE IInv'
    OBVIOUS
  <2>1. CASE Master
    BY <2>1, MasterPreserves
  <2>2. CASE Signal
    BY <2>2, SigChildPreserves, FlagPreserves DEF Signal
  <2>3. CASE Shutmsg \/ Gone \/ UNCHANGED vars
    BY <2>3, QuietPreserves DEF Gone
  <2>4. CASE Interval
    BY <2>4, IntervalPreserves
  <2>5. CASE \E p \in Pids : ChildStarts(p) \/ ChildExits(p)
    BY <2>5, ChildPreserves
  <2> QED BY <2>1, <2>2, <2>3, <2>4, <2>5 DEF Next
<1> QED BY <1>1, <1>2, PTL DEF Spec

(* Every variable of the master stays within its type; no pipe has the     *)
(* number of the listening socket, and two open pipes have two numbers.    *)
THEOREM TypeCorrect == Spec => []TypeOK
<1>1. IInv => TypeOK
  BY DEF IInv
<1> QED BY <1>1, Inductive, PTL

(* child_count() is exact whenever SIGCHLD is not blocked, for any number  *)
(* of process ids, and MaxInstances is never exceeded: sig_child reaps     *)
(* between any two steps, but not between fork and child_add.              *)
THEOREM CountIsExact == Spec => []CountExact
<1>1. IInv => CountExact
  <2> SUFFICES ASSUME IInv PROVE CountExact
    OBVIOUS
  <2>1. blocked = {} => pc # "add"
    BY DEF IInv, Masked, ForkMask
  <2> QED BY <2>1 DEF IInv, Counted, CountExact, Known
<1> QED BY <1>1, Inductive, PTL

(* restart_daemon rebinds only when every child has closed the listening   *)
(* sockets, as long as no select failed: what it waits for is told by      *)
(* pipes whose entries other loops, and signal handlers, change meanwhile. *)
THEOREM RebindWaits == Spec => []NoEarlyRebind
<1>1. IInv => NoEarlyRebind
  BY DEF IInv, PipesTold, NoEarlyRebind
<1> QED BY <1>1, Inductive, PTL

(* When the master has ended on SIGTERM, every session process that still  *)
(* runs was sent one: handle_terminate_with_kids reaps before it looks at  *)
(* the count, and the list has an entry of every child.                    *)
THEOREM TermReachesAll == Spec => []NoOrphans
<1>1. IInv => NoOrphans
  BY DEF IInv
<1> QED BY <1>1, Inductive, PTL
=============================================================================
