---------------------------- MODULE TimersProofs ----------------------------
(***************************************************************************)
(* Proofs about Timers: its types, the integrity of its lists, the mutual  *)
(* exclusion of passes and critical sections, that the alarm covers every  *)
(* timer, and that a removed timer is never invoked, for any number of     *)
(* timers, modules and intervals.                                          *)
(***************************************************************************)
EXTENDS Timers, SequenceTheorems, WellFoundedInduction, TLAPS

(* xaset_insert, on the members of the list. *)
LEMMA InsertMembers ==
    ASSUME NEW S, NEW l \in Seq(S), NEW t \in S
    PROVE  /\ xaset_insert(l, t) \in Seq(S)
           /\ \A u : Member(xaset_insert(l, t), u) <=> Member(l, u) \/ u = t
           /\ Distinct(l) /\ ~Member(l, t) => Distinct(xaset_insert(l, t))
<1> DEFINE r == <<t>> \o l
<1>1. /\ r \in Seq(S) /\ Len(r) = Len(l) + 1 /\ Len(l) \in Nat
      /\ r[1] = t /\ \A i \in 1..Len(l) : r[i + 1] = l[i]
  OBVIOUS
<1>2. \A i \in 1..Len(r) : i = 1 \/ (i - 1 \in 1..Len(l) /\ r[i] = l[i - 1])
  BY <1>1
<1> HIDE DEF r
<1>3. ASSUME NEW u PROVE Member(r, u) <=> Member(l, u) \/ u = t
  <2>1. Member(r, u) => Member(l, u) \/ u = t
    BY <1>1, <1>2 DEF Member
  <2>2. ASSUME NEW i \in 1..Len(l), l[i] = u PROVE Member(r, u)
    <3>1. i + 1 \in 1..Len(r) /\ r[i + 1] = u
      BY <2>2, <1>1
    <3> QED BY <3>1 DEF Member
  <2>3. Member(r, t)
    <3>1. 1 \in 1..Len(r)
      BY <1>1
    <3> QED BY <3>1, <1>1 DEF Member
  <2> QED BY <2>1, <2>2, <2>3 DEF Member
<1>4. Distinct(l) /\ ~Member(l, t) => Distinct(r)
  <2> SUFFICES ASSUME Distinct(l), ~Member(l, t),
                      NEW i \in 1..Len(r), NEW j \in 1..Len(r), i < j
               PROVE  r[i] # r[j]
    BY <1>1 DEF Distinct
  <2>1. j - 1 \in 1..Len(l) /\ r[j] = l[j - 1]
    BY <1>1, <1>2
  <2>2. CASE i = 1
    BY <2>1, <2>2, <1>1 DEF Member
  <2>3. CASE i # 1
    <3>1. i - 1 \in 1..Len(l) /\ r[i] = l[i - 1] /\ i - 1 # j - 1
      BY <2>3, <1>1, <1>2
    <3> QED BY <3>1, <2>1 DEF Distinct
  <2> QED BY <2>2, <2>3
<1> QED
  BY <1>1, <1>3, <1>4 DEF xaset_insert, r

(* What is where once a member is inserted. *)
LEMMA InsertAtIndex ==
    ASSUME NEW S, NEW l \in Seq(S), NEW t \in S, NEW k \in 1..(Len(l) + 1)
    PROVE  /\ InsertAt(l, k, t) \in Seq(S) /\ Len(InsertAt(l, k, t)) = Len(l) + 1
           /\ \A i \in 1..(Len(l) + 1) :
                InsertAt(l, k, t)[i] = IF i < k THEN l[i]
                                       ELSE IF i = k THEN t ELSE l[i - 1]
<1> DEFINE r == InsertAt(l, k, t)
       a == SubSeq(l, 1, k - 1)
       b == SubSeq(l, k, Len(l))
<1>0. /\ Len(l) \in Nat
      /\ a \in Seq(S) /\ Len(a) = k - 1 /\ \A i \in 1..(k - 1) : a[i] = l[i]
      /\ b \in Seq(S) /\ Len(b) = Len(l) - k + 1
      /\ \A i \in 1..(Len(l) - k + 1) : b[i] = l[k + i - 1]
  <2>1. Len(l) \in Nat /\ \A i \in 1..Len(l) : l[i] \in S
    OBVIOUS
  <2>2. \A i \in 1..(k - 1) : l[i] \in S
    BY <2>1
  <2>3. \A i \in k..Len(l) : l[i] \in S
    BY <2>1
  <2> QED BY <2>1, <2>2, <2>3, SubSeqProperties
<1> HIDE DEF a, b
<1>1. /\ a \o <<t>> \in Seq(S) /\ Len(a \o <<t>>) = k
      /\ \A i \in 1..k : (a \o <<t>>)[i] = IF i < k THEN l[i] ELSE t
  BY <1>0
<1>2. /\ (a \o <<t>>) \o b \in Seq(S)
      /\ Len((a \o <<t>>) \o b) = Len(l) + 1
      /\ \A i \in 1..(Len(l) + 1) : ((a \o <<t>>) \o b)[i] =
            IF i <= k THEN (a \o <<t>>)[i] ELSE b[i - k]
  <2>1. /\ (a \o <<t>>) \o b \in Seq(S)
        /\ Len((a \o <<t>>) \o b) = Len(a \o <<t>>) + Len(b)
        /\ \A i \in 1..(Len(a \o <<t>>) + Len(b)) : ((a \o <<t>>) \o b)[i] =
              IF i <= Len(a \o <<t>>) THEN (a \o <<t>>)[i]
              ELSE b[i - Len(a \o <<t>>)]
    BY <1>1, <1>0, ConcatProperties
  <2>2. Len(a \o <<t>>) + Len(b) = Len(l) + 1
    <3>1. k \in Nat /\ Len(l) \in Nat
      BY <1>0
    <3>2. Len(a \o <<t>>) = k /\ Len(b) = Len(l) - k + 1
      BY <1>1, <1>0
    <3> QED BY <3>1, <3>2
  <2> QED BY <2>1, <2>2, <1>1
<1>3. r = (a \o <<t>>) \o b
  BY DEF InsertAt, a, b
<1>4. PICK c, e : c = (a \o <<t>>) \o b /\ e = a \o <<t>>
  OBVIOUS
<1>5. /\ \A i \in 1..(Len(l) + 1) : c[i] = IF i <= k THEN e[i] ELSE b[i - k]
      /\ \A i \in 1..k : e[i] = IF i < k THEN l[i] ELSE t
      /\ \A i \in 1..(Len(l) - k + 1) : b[i] = l[k + i - 1]
      /\ Len(l) \in Nat /\ k \in Nat
  BY <1>0, <1>1, <1>2, <1>4
<1>6. \A i \in 1..(Len(l) + 1) : c[i] = IF i < k THEN l[i]
                                       ELSE IF i = k THEN t ELSE l[i - 1]
  <2> SUFFICES ASSUME NEW i \in 1..(Len(l) + 1)
               PROVE  c[i] = IF i < k THEN l[i] ELSE IF i = k THEN t ELSE l[i - 1]
    OBVIOUS
  <2>1. CASE i <= k
    BY <2>1, <1>5
  <2>2. CASE i > k
    <3>1. i - k \in 1..(Len(l) - k + 1) /\ k + (i - k) - 1 = i - 1 /\ ~(i <= k)
      BY <2>2, <1>5
    <3>2. c[i] = b[i - k] /\ b[i - k] = l[i - 1]
      BY <3>1, <1>5
    <3> QED BY <3>1, <3>2, <1>5
  <2> QED BY <2>1, <2>2, <1>5
<1> QED BY <1>2, <1>3, <1>4, <1>6, Zenon

(* Inserting at any position adds exactly the new member. *)
LEMMA InsertAtMembers ==
    ASSUME NEW S, NEW l \in Seq(S), NEW t \in S, NEW k \in 1..(Len(l) + 1)
    PROVE  /\ InsertAt(l, k, t) \in Seq(S)
           /\ \A u : Member(InsertAt(l, k, t), u) <=> Member(l, u) \/ u = t
           /\ Distinct(l) /\ ~Member(l, t) => Distinct(InsertAt(l, k, t))
<1> DEFINE r == InsertAt(l, k, t)
<1>1. /\ r \in Seq(S) /\ Len(r) = Len(l) + 1 /\ Len(l) \in Nat
      /\ \A i \in 1..Len(r) : r[i] = IF i < k THEN l[i]
                                     ELSE IF i = k THEN t ELSE l[i - 1]
  BY InsertAtIndex
<1> HIDE DEF r
<1>2. ASSUME NEW u PROVE Member(r, u) <=> Member(l, u) \/ u = t
  <2>1. ASSUME NEW i \in 1..Len(l), l[i] = u PROVE Member(r, u)
    <3>1. CASE i < k
      BY <3>1, <2>1, <1>1 DEF Member
    <3>2. CASE i >= k
      <4>1. i + 1 \in 1..Len(r) /\ r[i + 1] = l[i]
        BY <3>2, <1>1
      <4> QED BY <4>1, <2>1 DEF Member
    <3> QED BY <3>1, <3>2
  <2>2. Member(r, t)
    BY <1>1 DEF Member
  <2>3. ASSUME NEW i \in 1..Len(r), r[i] = u PROVE Member(l, u) \/ u = t
    <3>1. CASE i < k
      <4>1. i \in 1..Len(l) /\ l[i] = u
        BY <3>1, <2>3, <1>1
      <4> QED BY <4>1 DEF Member
    <3>2. CASE i = k
      BY <3>2, <2>3, <1>1
    <3>3. CASE i > k
      <4>1. i - 1 \in 1..Len(l) /\ l[i - 1] = u
        BY <3>3, <2>3, <1>1
      <4> QED BY <4>1 DEF Member
    <3>4. i < k \/ i = k \/ i > k
      BY <1>1
    <3> QED BY <3>1, <3>2, <3>3, <3>4
  <2> QED BY <2>1, <2>2, <2>3 DEF Member
<1>3. Distinct(l) /\ ~Member(l, t) => Distinct(r)
  <2> SUFFICES ASSUME Distinct(l), ~Member(l, t),
                      NEW i \in 1..Len(r), NEW j \in 1..Len(r), i < j
               PROVE  r[i] # r[j]
    BY <1>1 DEF Distinct
  <2>1. \A x \in 1..Len(l) : l[x] # t
    BY DEF Member
  <2>2. \A x, y \in 1..Len(l) : x # y => l[x] # l[y]
    BY DEF Distinct
  <2>3. CASE j < k
    BY <2>3, <2>2, <1>1
  <2>4. CASE j = k
    BY <2>4, <2>1, <1>1
  <2>5. CASE j > k
    <3>1. j - 1 \in 1..Len(l) /\ r[j] = l[j - 1]
      BY <2>5, <1>1
    <3>2. CASE i < k
      <4>1. i \in 1..Len(l) /\ r[i] = l[i] /\ i # j - 1
        BY <3>2, <2>5, <1>1
      <4> QED BY <4>1, <3>1, <2>2
    <3>3. CASE i = k
      BY <3>1, <3>3, <2>1, <1>1
    <3>4. CASE i > k
      <4>1. i - 1 \in 1..Len(l) /\ r[i] = l[i - 1] /\ i - 1 # j - 1
        BY <3>4, <1>1
      <4> QED BY <4>1, <3>1, <2>2
    <3> QED BY <3>2, <3>3, <3>4
  <2> QED BY <2>3, <2>4, <2>5, <1>1
<1> QED
  BY <1>1, <1>2, <1>3 DEF r

(* A non-empty set of natural numbers has a least element. *)
LEMMA LeastNatural ==
    ASSUME NEW T \in SUBSET Nat, T # {}
    PROVE  \E n \in T : \A m \in T : n <= m
<1>1. \E x \in T : \A y \in T : ~(<<y, x>> \in OpToRel(<, Nat))
  BY NatLessThanWellFounded, WFMin
<1>2. PICK x \in T : \A y \in T : ~(<<y, x>> \in OpToRel(<, Nat))
  BY <1>1
<1>3. \A y \in T : ~(y < x)
  BY <1>2 DEF OpToRel
<1> QED BY <1>3

(* xaset_insert_sort finds its position. *)
LEMMA SortPositionFound ==
    ASSUME NEW S, NEW l \in Seq(S), NEW t \in S, NEW rec,
           \A u \in S : rec[u].count \in Int
    PROVE  /\ SortPosition(l, t, rec) \in 1..(Len(l) + 1)
           /\ \A j \in 1..(SortPosition(l, t, rec) - 1) : rec[t].count > rec[l[j]].count
           /\ SortPosition(l, t, rec) <= Len(l) =>
                 rec[t].count <= rec[l[SortPosition(l, t, rec)]].count
<1> DEFINE ok == {i \in 1..(Len(l) + 1) :
                    i <= Len(l) => rec[t].count <= rec[l[i]].count}
<1>1. Len(l) + 1 \in ok /\ ok \in SUBSET Nat /\ Len(l) \in Nat
  OBVIOUS
<1>2. PICK k \in ok : \A m \in ok : k <= m
  BY <1>1, LeastNatural
<1>3. \A j \in 1..(k - 1) : rec[t].count > rec[l[j]].count
  <2> SUFFICES ASSUME NEW j \in 1..(k - 1) PROVE rec[t].count > rec[l[j]].count
    OBVIOUS
  <2>1. j \in 1..Len(l) /\ j \notin ok
    BY <1>1, <1>2
  <2>2. ~(rec[t].count <= rec[l[j]].count)
    BY <2>1, <1>1
  <2>3. l[j] \in S
    BY <2>1
  <2> QED BY <2>2, <2>3
<1>4. \E i \in 1..(Len(l) + 1) :
        /\ \A j \in 1..(i - 1) : rec[t].count > rec[l[j]].count
        /\ i <= Len(l) => rec[t].count <= rec[l[i]].count
  BY <1>2, <1>3
<1> QED BY <1>4 DEF SortPosition

(* The list r is l with t added. *)
Inserted(S, l, t, r) ==
    /\ r \in Seq(S)
    /\ \A u : Member(r, u) <=> Member(l, u) \/ u = t
    /\ Distinct(l) /\ ~Member(l, t) => Distinct(r)

(* xaset_insert_sort finds a position, and adds exactly the new member.    *)
LEMMA SortedInsertMembers ==
    ASSUME NEW S, NEW l \in Seq(S), NEW t \in S, NEW rec,
           \A u \in S : rec[u].count \in Int
    PROVE  Inserted(S, l, t, xaset_insert_sort(l, t, rec))
<1>1. SortPosition(l, t, rec) \in 1..(Len(l) + 1)
  BY SortPositionFound
<1> QED
  BY <1>1, InsertAtMembers DEF xaset_insert_sort, Inserted

(* Inserting a member at its place keeps the list in order.                *)
LEMMA SortedInsert ==
    ASSUME NEW S, NEW l \in Seq(S), NEW t \in S, NEW rec, NEW f \in [S -> Int],
           \A u \in S : rec[u].count = f[u],
           Sorted(l, f)
    PROVE  Sorted(xaset_insert_sort(l, t, rec), f)
<1> DEFINE k == SortPosition(l, t, rec)
           r == InsertAt(l, k, t)
<1>1. \A u \in S : rec[u].count \in Int
  OBVIOUS
<1>2. /\ k \in 1..(Len(l) + 1)
      /\ \A j \in 1..(k - 1) : rec[t].count > rec[l[j]].count
      /\ k <= Len(l) => rec[t].count <= rec[l[k]].count
  BY <1>1, SortPositionFound
<1> HIDE DEF k
<1>3. /\ r \in Seq(S) /\ Len(r) = Len(l) + 1 /\ Len(l) \in Nat
      /\ \A i \in 1..(Len(l) + 1) : r[i] = IF i < k THEN l[i]
                                           ELSE IF i = k THEN t ELSE l[i - 1]
  BY <1>2, InsertAtIndex
<1> HIDE DEF r
<1>4. \A i \in 1..Len(l) : l[i] \in S /\ f[l[i]] \in Int /\ rec[l[i]].count = f[l[i]]
  OBVIOUS
<1>5. \A i, j \in 1..Len(l) : i < j => f[l[i]] <= f[l[j]]
  BY DEF Sorted
<1>6. \A j \in 1..(k - 1) : f[l[j]] <= f[t]
  <2> SUFFICES ASSUME NEW j \in 1..(k - 1) PROVE f[l[j]] <= f[t]
    OBVIOUS
  <2>1. j \in 1..Len(l) /\ f[t] \in Int /\ rec[t].count = f[t]
    BY <1>2, <1>3
  <2>2. f[t] > f[l[j]]
    BY <2>1, <1>2, <1>4
  <2> QED BY <2>1, <2>2, <1>4
<1>7. \A j \in k..Len(l) : f[t] <= f[l[j]]
  <2> SUFFICES ASSUME NEW j \in k..Len(l) PROVE f[t] <= f[l[j]]
    OBVIOUS
  <2>1. /\ j \in 1..Len(l) /\ k \in 1..Len(l) /\ f[t] \in Int /\ rec[t].count = f[t]
        /\ j = k \/ k < j
    BY <1>2, <1>3
  <2>2. f[t] <= f[l[k]]
    BY <2>1, <1>2, <1>4
  <2>3. f[l[k]] <= f[l[j]]
    BY <2>1, <1>4, <1>5
  <2> QED BY <2>1, <2>2, <2>3, <1>4
<1>8. ASSUME NEW i \in 1..(Len(l) + 1), NEW j \in 1..(Len(l) + 1), i < j
      PROVE  f[r[i]] <= f[r[j]]
  <2>1. CASE j < k
    <3>1. i \in 1..Len(l) /\ j \in 1..Len(l) /\ r[i] = l[i] /\ r[j] = l[j]
      BY <2>1, <1>2, <1>3, <1>8
    <3> QED BY <3>1, <1>5, <1>8
  <2>2. CASE j = k
    <3>1. i \in 1..(k - 1) /\ r[i] = l[i] /\ r[j] = t
      BY <2>2, <1>2, <1>3, <1>8
    <3> QED BY <3>1, <1>6
  <2>3. CASE j > k
    <3>1. /\ j - 1 \in k..Len(l) /\ j - 1 \in 1..Len(l) /\ r[j] = l[j - 1]
      BY <2>3, <1>2, <1>3
    <3>2. CASE i < k
      <4>1. i \in 1..Len(l) /\ r[i] = l[i] /\ i < j - 1
        BY <3>2, <2>3, <1>2, <1>3
      <4> QED BY <4>1, <3>1, <1>5
    <3>3. CASE i = k
      <4>1. r[i] = t
        BY <3>3, <1>3
      <4> QED BY <4>1, <3>1, <1>7
    <3>4. CASE i > k
      <4>1. i - 1 \in 1..Len(l) /\ r[i] = l[i - 1] /\ i - 1 < j - 1
        BY <3>4, <1>2, <1>3, <1>8
      <4> QED BY <4>1, <3>1, <1>5
    <3> QED BY <3>2, <3>3, <3>4, <1>2
  <2> QED BY <2>1, <2>2, <2>3, <1>2
<1>9. Sorted(r, f)
  BY <1>3, <1>8 DEF Sorted
<1> QED BY <1>9 DEF xaset_insert_sort, k, r

(* Setting a timer's count leaves the mark of every timer as it is.        *)
LEMMA CountUpdated ==
    ASSUME NEW f \in [Slots -> TimerRec], NEW t \in Slots, NEW n \in Int
    PROVE  /\ [f EXCEPT ![t].count = n] \in [Slots -> TimerRec]
           /\ \A u \in Slots : [f EXCEPT ![t].count = n][u].remove = f[u].remove
<1>1. /\ [f[t] EXCEPT !.count = n] \in TimerRec
      /\ [f[t] EXCEPT !.count = n].remove = f[t].remove
  BY DEF TimerRec
<1> QED BY <1>1

(* The structs f with those of a set marked, and what that comes to.       *)
WithMarks(f, hit) ==
    [t \in Slots |-> IF t \in hit THEN [f[t] EXCEPT !.remove = TRUE] ELSE f[t]]
MarksAdded(f, hit, g) ==
    /\ g \in [Slots -> TimerRec]
    /\ \A u \in Slots : g[u].remove = (f[u].remove \/ u \in hit)

(* Marking the timers of a set marks no others. *)
LEMMA MarksUpdated ==
    ASSUME NEW f \in [Slots -> TimerRec], NEW hit \in SUBSET Slots
    PROVE  MarksAdded(f, hit, WithMarks(f, hit))
<1> DEFINE g == WithMarks(f, hit)
<1>0. g = [t \in Slots |-> IF t \in hit THEN [f[t] EXCEPT !.remove = TRUE] ELSE f[t]]
  BY DEF WithMarks
<1> HIDE DEF g
<1>1. ASSUME NEW u \in Slots, u \in hit
      PROVE  g[u] \in TimerRec /\ g[u].remove = TRUE
  <2>1. f[u] \in TimerRec /\ g[u] = [f[u] EXCEPT !.remove = TRUE]
    BY <1>0, <1>1
  <2> QED BY <2>1 DEF TimerRec
<1>2. ASSUME NEW u \in Slots, u \notin hit
      PROVE  g[u] \in TimerRec /\ g[u] = f[u] /\ f[u].remove \in BOOLEAN
  <2>1. f[u] \in TimerRec /\ g[u] = f[u]
    BY <1>0, <1>2
  <2> QED BY <2>1 DEF TimerRec
<1>3. g \in [Slots -> TimerRec]
  <2>1. \A u \in Slots : g[u] \in TimerRec
    BY <1>1, <1>2, Zenon
  <2> QED BY <1>0, <2>1
<1>4. ASSUME NEW u \in Slots PROVE g[u].remove = (f[u].remove \/ u \in hit)
  <2>1. CASE u \in hit
    BY <1>1, <2>1, Zenon
  <2>2. CASE u \notin hit
    <3>1. g[u].remove = f[u].remove /\ f[u].remove \in BOOLEAN
      BY <1>2, <2>2, Zenon
    <3> QED BY <3>1, <2>2, Zenon
  <2> QED BY <2>1, <2>2
<1> QED BY <1>3, <1>4, Zenon DEF MarksAdded, g

(* What is where once a member is removed. *)
LEMMA RemoveIndex ==
    ASSUME NEW S, NEW l \in Seq(S), NEW t
    PROVE  \/ ~Member(l, t) /\ xaset_remove(l, t) = l
           \/ \E k \in 1..Len(l) :
                /\ l[k] = t /\ xaset_remove(l, t) \in Seq(S)
                /\ Len(xaset_remove(l, t)) = Len(l) - 1
                /\ \A i \in 1..(Len(l) - 1) :
                     xaset_remove(l, t)[i] = IF i < k THEN l[i] ELSE l[i + 1]
<1>1. CASE ~Member(l, t)
  BY <1>1 DEF xaset_remove
<1>2. CASE Member(l, t)
  <2> DEFINE k == CHOOSE i \in 1..Len(l) : l[i] = t
             r == RemoveAt(l, k)
             a == SubSeq(l, 1, k - 1)
             b == SubSeq(l, k + 1, Len(l))
  <2>1. k \in 1..Len(l) /\ l[k] = t
    BY <1>2 DEF Member
  <2> HIDE DEF k
  <2>2. Len(l) \in Nat /\ \A i \in 1..Len(l) : l[i] \in S
    OBVIOUS
  <2>3. /\ a \in Seq(S) /\ Len(a) = k - 1 /\ \A i \in 1..(k - 1) : a[i] = l[i]
        /\ b \in Seq(S) /\ Len(b) = Len(l) - k
        /\ \A i \in 1..(Len(l) - k) : b[i] = l[k + i]
    <3>1. \A i \in 1..(k - 1) : l[i] \in S
      BY <2>1, <2>2
    <3>2. \A i \in (k + 1)..Len(l) : l[i] \in S
      BY <2>1, <2>2
    <3>3. k \in Int /\ k - 1 \in Int /\ k + 1 \in Int /\ Len(l) \in Int
      BY <2>1, <2>2
    <3>4. /\ a \in Seq(S) /\ Len(a) = k - 1
          /\ \A i \in 1..(k - 1) : a[i] = l[i]
      BY <3>1, <3>3, <2>1, SubSeqProperties
    <3>5. /\ b \in Seq(S) /\ Len(b) = Len(l) - k
          /\ \A i \in 1..(Len(l) - k) : b[i] = l[k + i]
      BY <3>2, <3>3, <2>1, SubSeqProperties
    <3> QED BY <3>4, <3>5
  <2>4. r = a \o b
    BY DEF RemoveAt
  <2>5. xaset_remove(l, t) = r
    BY <1>2 DEF xaset_remove, k
  <2> HIDE DEF a, b, r
  <2>6. /\ a \o b \in Seq(S) /\ Len(a \o b) = Len(l) - 1
        /\ \A i \in 1..(Len(l) - 1) : (a \o b)[i] =
              IF i <= k - 1 THEN a[i] ELSE b[i - (k - 1)]
    <3>1. /\ a \o b \in Seq(S) /\ Len(a \o b) = Len(a) + Len(b)
          /\ \A i \in 1..(Len(a) + Len(b)) : (a \o b)[i] =
                IF i <= Len(a) THEN a[i] ELSE b[i - Len(a)]
      BY <2>3, ConcatProperties
    <3>2. Len(a) + Len(b) = Len(l) - 1
      BY <2>1, <2>2, <2>3
    <3> QED BY <3>1, <3>2, <2>3
  <2>7. /\ r \in Seq(S) /\ Len(r) = Len(l) - 1
        /\ \A i \in 1..(Len(l) - 1) : r[i] = IF i < k THEN l[i] ELSE l[i + 1]
    BY <2>1, <2>2, <2>3, <2>4, <2>6
  <2> QED BY <2>1, <2>5, <2>7
<1> QED BY <1>1, <1>2

(* xaset_remove takes out exactly the named member. *)
LEMMA RemoveMembers ==
    ASSUME NEW S, NEW l \in Seq(S), NEW t, Distinct(l)
    PROVE  /\ xaset_remove(l, t) \in Seq(S)
           /\ Distinct(xaset_remove(l, t))
           /\ \A u : Member(xaset_remove(l, t), u) <=> Member(l, u) /\ u # t
<1>1. CASE ~Member(l, t)
  BY <1>1 DEF xaset_remove, Member
<1>2. CASE Member(l, t)
  <2> DEFINE r == xaset_remove(l, t)
  <2>1. PICK k \in 1..Len(l) :
           /\ l[k] = t /\ r \in Seq(S) /\ Len(r) = Len(l) - 1
           /\ \A i \in 1..(Len(l) - 1) : r[i] = IF i < k THEN l[i] ELSE l[i + 1]
    BY <1>2, RemoveIndex
  <2> HIDE DEF r
  <2>2. /\ r \in Seq(S) /\ Len(r) = Len(l) - 1 /\ Len(l) \in Nat
        /\ \A i \in 1..Len(r) : r[i] = IF i < k THEN l[i] ELSE l[i + 1]
    BY <2>1
  <2>4. Distinct(r)
    <3> SUFFICES ASSUME NEW i \in 1..Len(r), NEW j \in 1..Len(r), r[i] = r[j]
                 PROVE  i = j
      BY <2>2 DEF Distinct
    <3>1. PICK x \in 1..Len(l) : r[i] = l[x] /\ x = IF i < k THEN i ELSE i + 1
      BY <2>1, <2>2
    <3>2. PICK y \in 1..Len(l) : r[j] = l[y] /\ y = IF j < k THEN j ELSE j + 1
      BY <2>1, <2>2
    <3>3. x = y
      BY <3>1, <3>2 DEF Distinct
    <3> QED BY <3>1, <3>2, <3>3, <2>1, <2>2
  <2>5. ASSUME NEW u PROVE Member(r, u) <=> Member(l, u) /\ u # t
    <3>1. ASSUME NEW i \in 1..Len(l), l[i] = u, u # t PROVE Member(r, u)
      <4>1. CASE i < k
        BY <4>1, <3>1, <2>1, <2>2 DEF Member
      <4>2. CASE i > k
        <5>1. i - 1 \in 1..Len(r) /\ r[i - 1] = l[i]
          BY <4>2, <2>1, <2>2
        <5> QED BY <5>1, <3>1 DEF Member
      <4> QED BY <4>1, <4>2, <3>1, <2>1
    <3>2. Member(r, u) => Member(l, u) /\ u # t
      BY <2>1, <2>2 DEF Member, Distinct
    <3> QED BY <3>1, <3>2 DEF Member
  <2> QED BY <2>2, <2>4, <2>5 DEF r
<1> QED BY <1>1, <1>2

(* Removing a member keeps the list in order. *)
LEMMA SortedRemove ==
    ASSUME NEW S, NEW l \in Seq(S), NEW t, NEW f, Sorted(l, f)
    PROVE  Sorted(xaset_remove(l, t), f)
<1>1. CASE xaset_remove(l, t) = l
  BY <1>1, Zenon
<1>2. ASSUME NEW k \in 1..Len(l),
             Len(xaset_remove(l, t)) = Len(l) - 1,
             \A i \in 1..(Len(l) - 1) :
                xaset_remove(l, t)[i] = IF i < k THEN l[i] ELSE l[i + 1]
      PROVE  Sorted(xaset_remove(l, t), f)
  <2> DEFINE r == xaset_remove(l, t)
  <2>1. /\ Len(r) = Len(l) - 1 /\ Len(l) \in Nat
        /\ \A i \in 1..(Len(l) - 1) : r[i] = IF i < k THEN l[i] ELSE l[i + 1]
    BY <1>2
  <2> HIDE DEF r
  <2>2. ASSUME NEW i \in 1..Len(r), NEW j \in 1..Len(r), i < j
        PROVE  f[r[i]] <= f[r[j]]
    <3>1. PICK x \in 1..Len(l) : r[i] = l[x] /\ x = IF i < k THEN i ELSE i + 1
      BY <2>1
    <3>2. PICK y \in 1..Len(l) : r[j] = l[y] /\ y = IF j < k THEN j ELSE j + 1
      BY <2>1
    <3>3. x < y
      BY <3>1, <3>2, <2>1, <2>2
    <3> QED BY <3>1, <3>2, <3>3 DEF Sorted
  <2>3. Sorted(r, f)
    BY <2>2 DEF Sorted
  <2> QED BY <2>3 DEF r
<1> QED BY <1>1, <1>2, RemoveIndex, Zenon

(* An empty list has no members, another has. *)
LEMMA EmptyMembers ==
    ASSUME NEW S, NEW l \in Seq(S)
    PROVE  l = <<>> <=> \A u \in S : ~Member(l, u)
<1>1. l = <<>> => \A u \in S : ~Member(l, u)
  BY DEF Member
<1>2. l # <<>> => l[1] \in S /\ Member(l, l[1])
  BY DEF Member
<1> QED BY <1>1, <1>2

(* The tail of a list without duplicates. *)
LEMMA TailMembers ==
    ASSUME NEW S, NEW l \in Seq(S), l # <<>>, Distinct(l)
    PROVE  /\ Head(l) \in S /\ Tail(l) \in Seq(S)
           /\ Distinct(Tail(l))
           /\ \A u : Member(Tail(l), u) <=> Member(l, u) /\ u # Head(l)
           /\ Member(l, Head(l))
<1>1. /\ Len(l) \in Nat /\ Len(l) > 0 /\ Len(Tail(l)) = Len(l) - 1
      /\ Head(l) = l[1] /\ Head(l) \in S /\ Tail(l) \in Seq(S)
      /\ \A i \in 1..Len(Tail(l)) : Tail(l)[i] = l[i + 1]
  OBVIOUS
<1>2. ASSUME NEW u PROVE Member(Tail(l), u) <=> Member(l, u) /\ u # Head(l)
  <2>1. ASSUME NEW i \in 1..Len(l), l[i] = u, u # Head(l) PROVE Member(Tail(l), u)
    <3>1. i - 1 \in 1..Len(Tail(l)) /\ Tail(l)[i - 1] = l[i]
      BY <2>1, <1>1
    <3> QED BY <3>1, <2>1 DEF Member
  <2>2. Member(Tail(l), u) => Member(l, u) /\ u # Head(l)
    BY <1>1 DEF Member, Distinct
  <2> QED BY <2>1, <2>2 DEF Member
<1>3. Distinct(Tail(l))
  BY <1>1 DEF Distinct
<1>4. Member(l, Head(l))
  BY <1>1 DEF Member
<1> QED BY <1>1, <1>2, <1>3, <1>4
-----------------------------------------------------------------------------
(* The invariant holds of the freshly started program. *)
LEMMA InitInvariant == Init => IInv
<1> SUFFICES ASSUME Init PROVE IInv
  OBVIOUS
<1> USE TimersAssumption
<1>1. TypeLists /\ TypeClock
  BY DEF Init, TypeLists, TypeClock, TimerRec, Slots, Never, NoAlarm, Dynamic
<1>4. TypeSignals /\ TypePass
  <2>1. 1 \in Slots
    BY DEF Slots
  <2>2. TypePass
    BY <2>1 DEF Init, TypePass
  <2>3. TypeSignals
    BY DEF Init, TypeSignals
  <2> QED BY <2>2, <2>3
<1>5. TypeControl
  BY DEF Init, TypeControl, PCs
<1>2. OneList /\ PassOnTrack /\ Allocated /\ GoneMarked
  BY DEF Init, OneList, Distinct, Disjoint, Member, PassOnTrack, Allocated,
         GoneMarked
<1>3. PassExcluded /\ HasFrame
  BY DEF Init, PassExcluded, HasFrame
<1> QED BY <1>1, <1>2, <1>3, <1>4, <1>5 DEF IInv, TypeOK

(* Time passes. *)
LEMMA TickPreserves == IInv /\ Tick => IInv'
<1> SUFFICES ASSUME IInv, Tick PROVE IInv'
  OBVIOUS
<1> USE TimersAssumption
<1>1. TypeLists' /\ TypeClock'
  BY DEF IInv, TypeOK, TypeLists, TypeClock, Slots, Tick, vars, lists,
         signals, clock, pass, sleep, history, Sat, Never
<1>2. TypeSignals'
  BY DEF IInv, TypeOK, TypeSignals, PassExcluded, Tick, vars, lists, signals,
         clock, pass, sleep, history, Sat, Never
<1>3. TypePass'
  BY DEF IInv, TypeOK, TypeLists, TypePass, PassExcluded, Tick, vars, lists,
         signals, clock, pass, sleep, history, Sat, Never
<1>4. TypeControl'
  BY DEF IInv, TypeOK, TypeControl, PCs, Tick, vars, lists, signals, clock,
         pass, sleep, history, Sat, Never
<1>5. OneList' /\ Allocated' /\ GoneMarked'
  BY DEF IInv, OneList, Allocated, GoneMarked, Distinct, Disjoint, Member,
         Tick, vars, lists, signals, clock, pass, sleep, history, Sat, Never
<1>6. PassOnTrack'
  BY DEF IInv, PassOnTrack, Distinct, Member, Tick, vars, lists, signals,
         clock, pass, sleep, history, Sat, Never
<1>7. PassExcluded' /\ HasFrame'
  BY DEF IInv, TypeOK, TypeSignals, TypePass, PassExcluded, HasFrame, Tick,
         vars, lists, signals, clock, pass, sleep, history, Sat, Never
<1> QED BY <1>1, <1>2, <1>3, <1>4, <1>5, <1>6, <1>7 DEF IInv, TypeOK

(* The signal handler. *)
LEMMA sig_alarmPreserves == IInv /\ sig_alarm => IInv'
<1> SUFFICES ASSUME IInv, sig_alarm PROVE IInv'
  OBVIOUS
<1> USE TimersAssumption
<1>1. TypeLists' /\ TypeClock'
  BY DEF IInv, TypeOK, TypeLists, TypeClock, Slots, sig_alarm, vars, lists,
         signals, clock, pass, sleep, history, Sat, RearmTimeout, NoAlarm
<1>2. TypeSignals'
  BY DEF IInv, TypeOK, TypeSignals, PassExcluded, sig_alarm, vars, lists,
         signals, clock, pass, sleep, history, Sat, RearmTimeout, NoAlarm
<1>3. TypePass'
  BY DEF IInv, TypeOK, TypeLists, TypePass, PassExcluded, sig_alarm, vars,
         lists, signals, clock, pass, sleep, history, Sat, RearmTimeout,
         NoAlarm
<1>4. TypeControl'
  BY DEF IInv, TypeOK, TypeControl, PCs, sig_alarm, vars, lists, signals,
         clock, pass, sleep, history, Sat, RearmTimeout, NoAlarm
<1>5. OneList' /\ Allocated' /\ GoneMarked'
  BY DEF IInv, OneList, Allocated, GoneMarked, Distinct, Disjoint, Member,
         sig_alarm, vars, lists, signals, clock, pass, sleep, history, Sat,
         RearmTimeout, NoAlarm
<1>6. PassOnTrack'
  BY DEF IInv, PassOnTrack, Distinct, Member, sig_alarm, vars, lists, signals,
         clock, pass, sleep, history, Sat, RearmTimeout, NoAlarm
<1>7. PassExcluded' /\ HasFrame'
  BY DEF IInv, TypeOK, TypeSignals, TypePass, PassExcluded, HasFrame,
         sig_alarm, vars, lists, signals, clock, pass, sleep, history, Sat,
         RearmTimeout, NoAlarm
<1> QED BY <1>1, <1>2, <1>3, <1>4, <1>5, <1>6, <1>7 DEF IInv, TypeOK

(* pr_signals_handle. *)
LEMMA HandleSignalsPreserves == IInv /\ HandleSignals => IInv'
<1> SUFFICES ASSUME IInv, HandleSignals PROVE IInv'
  OBVIOUS
<1> USE TimersAssumption
<1>1. TypeLists' /\ TypeClock'
  BY DEF IInv, TypeOK, TypeLists, TypeClock, Slots, HandleSignals, vars,
         lists, signals, clock, pass, sleep, history, EnterHandleAlarm
<1>2. TypeSignals'
  BY DEF IInv, TypeOK, TypeSignals, PassExcluded, HandleSignals, vars, lists,
         signals, clock, pass, sleep, history, EnterHandleAlarm
<1>3. TypePass'
  BY DEF IInv, TypeOK, TypeLists, TypePass, PassExcluded, HandleSignals, vars,
         lists, signals, clock, pass, sleep, history, EnterHandleAlarm
<1>4. TypeControl'
  BY DEF IInv, TypeOK, TypeControl, PCs, HandleSignals, vars, lists, signals,
         clock, pass, sleep, history, EnterHandleAlarm
<1>5. OneList' /\ Allocated' /\ GoneMarked'
  BY DEF IInv, OneList, Allocated, GoneMarked, Distinct, Disjoint, Member,
         HandleSignals, vars, lists, signals, clock, pass, sleep, history,
         EnterHandleAlarm
<1>6. PassOnTrack'
  BY DEF IInv, PassOnTrack, Distinct, Member, HandleSignals, vars, lists,
         signals, clock, pass, sleep, history, EnterHandleAlarm
<1>7. PassExcluded' /\ HasFrame'
  BY DEF IInv, TypeOK, TypeSignals, TypePass, PassExcluded, HasFrame,
         HandleSignals, vars, lists, signals, clock, pass, sleep, history,
         EnterHandleAlarm
<1> QED BY <1>1, <1>2, <1>3, <1>4, <1>5, <1>6, <1>7 DEF IInv, TypeOK

(* The end of process_timers. *)
LEMMA EndPassPreserves == IInv /\ EndPass => IInv'
<1> SUFFICES ASSUME IInv, EndPass PROVE IInv'
  OBVIOUS
<1> USE TimersAssumption
<1>1. TypeLists' /\ TypeClock'
  BY DEF IInv, TypeOK, TypeLists, TypeClock, Slots, EndPass, vars, lists,
         signals, clock, pass, sleep, history
<1>2. TypeSignals'
  <2>1. alarms_blocked' \in Nat
    BY DEF IInv, TypeOK, TypeSignals, PassExcluded, EndPass
  <2>2. recvd_alrm' = recvd_alrm /\ recvd_alrm \in BOOLEAN
    BY DEF IInv, TypeOK, TypeSignals, EndPass, vars, lists, signals, clock,
           pass, sleep, history
  <2>3. CASE alarms_blocked = 1 /\ alarm_pending
    BY <2>1, <2>2, <2>3, Zenon DEF TypeSignals, EndPass
  <2>4. CASE ~(alarms_blocked = 1 /\ alarm_pending)
    BY <2>1, <2>2, <2>4, Zenon DEF IInv, TypeOK, TypeSignals, EndPass
  <2> QED BY <2>3, <2>4
<1>3. TypePass'
  BY DEF IInv, TypeOK, TypeLists, TypePass, PassExcluded, EndPass, vars,
         lists, signals, clock, pass, sleep, history
<1>4. TypeControl'
  BY DEF IInv, TypeOK, TypeControl, PCs, EndPass, vars, lists, signals, clock,
         pass, sleep, history
<1>5. OneList' /\ Allocated' /\ GoneMarked'
  BY DEF IInv, OneList, Allocated, GoneMarked, Distinct, Disjoint, Member,
         EndPass, vars, lists, signals, clock, pass, sleep, history
<1>6. PassOnTrack'
  BY DEF IInv, PassOnTrack, Distinct, Member, EndPass, vars, lists, signals,
         clock, pass, sleep, history
<1>7. PassExcluded' /\ HasFrame'
  BY DEF IInv, TypeOK, TypeSignals, TypePass, PassExcluded, HasFrame, EndPass,
         vars, lists, signals, clock, pass, sleep, history
<1> QED BY <1>1, <1>2, <1>3, <1>4, <1>5, <1>6, <1>7 DEF IInv, TypeOK

(* The end of handle_alarm. *)
LEMMA FinishPassPreserves == IInv /\ FinishPass => IInv'
<1> SUFFICES ASSUME IInv, FinishPass PROVE IInv'
  OBVIOUS
<1> USE TimersAssumption
<1>1. TypeLists' /\ TypeClock'
  <2>1. Head(frames) \in Int
    BY DEF IInv, TypeOK, TypePass, HasFrame, FinishPass
  <2>2. NextTimeout \in Int
    <3>1. timers # <<>> => timers[1] \in Slots
      BY DEF IInv, TypeOK, TypeLists
    <3>2. timers # <<>> => tm[timers[1]].count \in Int
      BY <3>1 DEF IInv, TypeOK, TypeLists, TimerRec
    <3> QED BY <3>2 DEF NextTimeout
  <2>3. TypeClock'
    BY <2>1, <2>2 DEF IInv, TypeOK, TypeClock, FinishPass, NextAlarm, NoAlarm
  <2> QED BY <2>3 DEF IInv, TypeOK, TypeLists, FinishPass, vars, lists,
                      signals, clock, pass, sleep, history
<1>2. TypeSignals'
  BY DEF IInv, TypeOK, TypeSignals, PassExcluded, FinishPass, vars, lists,
         signals, clock, pass, sleep, history, NextAlarm, NextTimeout,
         NoAlarm, TimerRec
<1>3. TypePass'
  <2>1. Tail(frames) \in Seq(Int)
    BY DEF IInv, TypeOK, TypePass, HasFrame, FinishPass
  <2> QED BY <2>1 DEF IInv, TypeOK, TypePass, FinishPass
<1>4. TypeControl'
  BY DEF IInv, TypeOK, TypeControl, PCs, FinishPass, vars, lists, signals,
         clock, pass, sleep, history, NextAlarm, NextTimeout, NoAlarm,
         TimerRec
<1>5. OneList' /\ Allocated' /\ GoneMarked'
  BY DEF IInv, OneList, Allocated, GoneMarked, Distinct, Disjoint, Member,
         FinishPass, vars, lists, signals, clock, pass, sleep, history,
         NextAlarm, NextTimeout, NoAlarm, TimerRec
<1>6. PassOnTrack'
  BY DEF IInv, PassOnTrack, Distinct, Member, FinishPass, vars, lists,
         signals, clock, pass, sleep, history, NextAlarm, NextTimeout,
         NoAlarm, TimerRec
<1>7. PassExcluded' /\ HasFrame'
  <2>2. HasFrame'
    BY DEF HasFrame, FinishPass
  <2>3. /\ in_dispatch' = 0 /\ alarms_blocked' = 0
        /\ pc' \in {"drain", "finish", "sleep_check", "run"}
    BY DEF IInv, PassExcluded, FinishPass
  <2>4. ~alarm_pending /\ alarm_pending' = alarm_pending
    BY DEF IInv, PassExcluded, FinishPass
  <2> QED BY <2>2, <2>3, <2>4 DEF PassExcluded
<1> QED BY <1>1, <1>2, <1>3, <1>4, <1>5, <1>6, <1>7 DEF IInv, TypeOK

(* pr_timer_remove(-1, m) starts. *)
LEMMA RemoveModuleBeginPreserves == IInv /\ RemoveModuleBegin => IInv'
<1> SUFFICES ASSUME IInv, RemoveModuleBegin PROVE IInv'
  OBVIOUS
<1> USE TimersAssumption
<1>1. TypeLists' /\ TypeClock'
  BY DEF IInv, TypeOK, TypeLists, TypeClock, Slots, RemoveModuleBegin, vars,
         lists, signals, clock, pass, sleep, history, Block
<1>2. TypeSignals'
  BY DEF IInv, TypeOK, TypeSignals, PassExcluded, RemoveModuleBegin, vars,
         lists, signals, clock, pass, sleep, history, Block
<1>3. TypePass'
  BY DEF IInv, TypeOK, TypeLists, TypePass, PassExcluded, RemoveModuleBegin,
         vars, lists, signals, clock, pass, sleep, history, Block
<1>4. TypeControl'
  BY DEF IInv, TypeOK, TypeControl, PCs, RemoveModuleBegin, vars, lists,
         signals, clock, pass, sleep, history, Block
<1>5. OneList' /\ Allocated' /\ GoneMarked'
  BY DEF IInv, OneList, Allocated, GoneMarked, Distinct, Disjoint, Member,
         RemoveModuleBegin, vars, lists, signals, clock, pass, sleep, history,
         Block
<1>6. PassOnTrack'
  BY DEF IInv, PassOnTrack, Distinct, Member, RemoveModuleBegin, vars, lists,
         signals, clock, pass, sleep, history, Block
<1>7. PassExcluded' /\ HasFrame'
  BY DEF IInv, TypeOK, TypeSignals, TypePass, PassExcluded, HasFrame,
         RemoveModuleBegin, vars, lists, signals, clock, pass, sleep, history,
         Block
<1> QED BY <1>1, <1>2, <1>3, <1>4, <1>5, <1>6, <1>7 DEF IInv, TypeOK

(* pr_timer_remove(-1, m) ends. *)
LEMMA RemoveModuleEndPreserves == IInv /\ RemoveModuleEnd => IInv'
<1> SUFFICES ASSUME IInv, RemoveModuleEnd PROVE IInv'
  OBVIOUS
<1> USE TimersAssumption
<1>1. TypeLists' /\ TypeClock'
  BY DEF IInv, TypeOK, TypeLists, TypeClock, Slots, RemoveModuleEnd, vars,
         lists, signals, clock, pass, sleep, history, Unblock
<1>2. TypeSignals'
  <2>1. alarms_blocked' \in Nat
    BY DEF IInv, TypeOK, TypeSignals, PassExcluded, RemoveModuleEnd, Unblock
  <2>2. recvd_alrm' = recvd_alrm /\ recvd_alrm \in BOOLEAN
    BY DEF IInv, TypeOK, TypeSignals, RemoveModuleEnd, Unblock, vars, lists,
           signals, clock, pass, sleep, history
  <2>3. CASE alarms_blocked = 1 /\ alarm_pending
    BY <2>1, <2>2, <2>3, Zenon DEF TypeSignals, RemoveModuleEnd, Unblock
  <2>4. CASE ~(alarms_blocked = 1 /\ alarm_pending)
    BY <2>1, <2>2, <2>4, Zenon DEF IInv, TypeOK, TypeSignals, RemoveModuleEnd,
                                   Unblock
  <2> QED BY <2>3, <2>4
<1>3. TypePass'
  BY DEF IInv, TypeOK, TypeLists, TypePass, PassExcluded, RemoveModuleEnd,
         vars, lists, signals, clock, pass, sleep, history, Unblock
<1>4. TypeControl'
  BY DEF IInv, TypeOK, TypeControl, PCs, RemoveModuleEnd, vars, lists,
         signals, clock, pass, sleep, history, Unblock
<1>5. OneList' /\ Allocated' /\ GoneMarked'
  BY DEF IInv, OneList, Allocated, GoneMarked, Distinct, Disjoint, Member,
         RemoveModuleEnd, vars, lists, signals, clock, pass, sleep, history,
         Unblock
<1>6. PassOnTrack'
  BY DEF IInv, PassOnTrack, Distinct, Member, RemoveModuleEnd, vars, lists,
         signals, clock, pass, sleep, history, Unblock
<1>7. PassExcluded' /\ HasFrame'
  BY DEF IInv, TypeOK, TypeSignals, TypePass, PassExcluded, HasFrame,
         RemoveModuleEnd, vars, lists, signals, clock, pass, sleep, history,
         Unblock
<1> QED BY <1>1, <1>2, <1>3, <1>4, <1>5, <1>6, <1>7 DEF IInv, TypeOK

(* pr_alarms_block. *)
LEMMA pr_alarms_blockPreserves == IInv /\ pr_alarms_block => IInv'
<1> SUFFICES ASSUME IInv, pr_alarms_block PROVE IInv'
  OBVIOUS
<1> USE TimersAssumption
<1>1. TypeLists' /\ TypeClock'
  BY DEF IInv, TypeOK, TypeLists, TypeClock, Slots, pr_alarms_block, vars,
         lists, signals, clock, pass, sleep, history, Block
<1>2. TypeSignals'
  BY DEF IInv, TypeOK, TypeSignals, PassExcluded, pr_alarms_block, vars,
         lists, signals, clock, pass, sleep, history, Block
<1>3. TypePass'
  BY DEF IInv, TypeOK, TypeLists, TypePass, PassExcluded, pr_alarms_block,
         vars, lists, signals, clock, pass, sleep, history, Block
<1>4. TypeControl'
  BY DEF IInv, TypeOK, TypeControl, PCs, pr_alarms_block, vars, lists,
         signals, clock, pass, sleep, history, Block
<1>5. OneList' /\ Allocated' /\ GoneMarked'
  BY DEF IInv, OneList, Allocated, GoneMarked, Distinct, Disjoint, Member,
         pr_alarms_block, vars, lists, signals, clock, pass, sleep, history,
         Block
<1>6. PassOnTrack'
  BY DEF IInv, PassOnTrack, Distinct, Member, pr_alarms_block, vars, lists,
         signals, clock, pass, sleep, history, Block
<1>7. PassExcluded' /\ HasFrame'
  BY DEF IInv, TypeOK, TypeSignals, TypePass, PassExcluded, HasFrame,
         pr_alarms_block, vars, lists, signals, clock, pass, sleep, history,
         Block
<1> QED BY <1>1, <1>2, <1>3, <1>4, <1>5, <1>6, <1>7 DEF IInv, TypeOK

(* pr_alarms_unblock. *)
LEMMA pr_alarms_unblockPreserves == IInv /\ pr_alarms_unblock => IInv'
<1> SUFFICES ASSUME IInv, pr_alarms_unblock PROVE IInv'
  OBVIOUS
<1> USE TimersAssumption
<1>1. TypeLists' /\ TypeClock'
  BY DEF IInv, TypeOK, TypeLists, TypeClock, Slots, pr_alarms_unblock, vars,
         lists, signals, clock, pass, sleep, history, Unblock
<1>2. TypeSignals'
  <2>1. alarms_blocked' \in Nat
    BY DEF IInv, TypeOK, TypeSignals, PassExcluded, pr_alarms_unblock, Unblock
  <2>2. recvd_alrm' = recvd_alrm /\ recvd_alrm \in BOOLEAN
    BY DEF IInv, TypeOK, TypeSignals, pr_alarms_unblock, Unblock, vars, lists,
           signals, clock, pass, sleep, history
  <2>3. CASE alarms_blocked = 1 /\ alarm_pending
    BY <2>1, <2>2, <2>3, Zenon DEF TypeSignals, pr_alarms_unblock, Unblock
  <2>4. CASE ~(alarms_blocked = 1 /\ alarm_pending)
    BY <2>1, <2>2, <2>4, Zenon DEF IInv, TypeOK, TypeSignals,
                                   pr_alarms_unblock, Unblock
  <2> QED BY <2>3, <2>4
<1>3. TypePass'
  BY DEF IInv, TypeOK, TypeLists, TypePass, PassExcluded, pr_alarms_unblock,
         vars, lists, signals, clock, pass, sleep, history, Unblock
<1>4. TypeControl'
  BY DEF IInv, TypeOK, TypeControl, PCs, pr_alarms_unblock, vars, lists,
         signals, clock, pass, sleep, history, Unblock
<1>5. OneList' /\ Allocated' /\ GoneMarked'
  BY DEF IInv, OneList, Allocated, GoneMarked, Distinct, Disjoint, Member,
         pr_alarms_unblock, vars, lists, signals, clock, pass, sleep, history,
         Unblock
<1>6. PassOnTrack'
  BY DEF IInv, PassOnTrack, Distinct, Member, pr_alarms_unblock, vars, lists,
         signals, clock, pass, sleep, history, Unblock
<1>7. PassExcluded' /\ HasFrame'
  BY DEF IInv, TypeOK, TypeSignals, TypePass, PassExcluded, HasFrame,
         pr_alarms_unblock, vars, lists, signals, clock, pass, sleep, history,
         Unblock
<1> QED BY <1>1, <1>2, <1>3, <1>4, <1>5, <1>6, <1>7 DEF IInv, TypeOK

(* The test of pr_timer_sleep. *)
LEMMA SleepCheckPreserves == IInv /\ SleepCheck => IInv'
<1> SUFFICES ASSUME IInv, SleepCheck PROVE IInv'
  OBVIOUS
<1> USE TimersAssumption
<1>1. TypeLists' /\ TypeClock'
  BY DEF IInv, TypeOK, TypeLists, TypeClock, Slots, SleepCheck, vars, lists,
         signals, clock, pass, sleep, history
<1>2. TypeSignals'
  BY DEF IInv, TypeOK, TypeSignals, PassExcluded, SleepCheck, vars, lists,
         signals, clock, pass, sleep, history
<1>3. TypePass'
  BY DEF IInv, TypeOK, TypeLists, TypePass, PassExcluded, SleepCheck, vars,
         lists, signals, clock, pass, sleep, history
<1>4. TypeControl'
  BY DEF IInv, TypeOK, TypeControl, PCs, SleepCheck, vars, lists, signals,
         clock, pass, sleep, history
<1>5. OneList' /\ Allocated' /\ GoneMarked'
  BY DEF IInv, OneList, Allocated, GoneMarked, Distinct, Disjoint, Member,
         SleepCheck, vars, lists, signals, clock, pass, sleep, history
<1>6. PassOnTrack'
  BY DEF IInv, PassOnTrack, Distinct, Member, SleepCheck, vars, lists,
         signals, clock, pass, sleep, history
<1>7. PassExcluded' /\ HasFrame'
  BY DEF IInv, TypeOK, TypeSignals, TypePass, PassExcluded, HasFrame,
         SleepCheck, vars, lists, signals, clock, pass, sleep, history
<1> QED BY <1>1, <1>2, <1>3, <1>4, <1>5, <1>6, <1>7 DEF IInv, TypeOK

(* pr_timer_sleep after sigsuspend. *)
LEMMA SleepWokenPreserves == IInv /\ SleepWoken => IInv'
<1> SUFFICES ASSUME IInv, SleepWoken PROVE IInv'
  OBVIOUS
<1> USE TimersAssumption
<1>1. TypeLists' /\ TypeClock'
  BY DEF IInv, TypeOK, TypeLists, TypeClock, Slots, SleepWoken, vars, lists,
         signals, clock, pass, sleep, history, EnterHandleAlarm
<1>2. TypeSignals'
  BY DEF IInv, TypeOK, TypeSignals, PassExcluded, SleepWoken, vars, lists,
         signals, clock, pass, sleep, history, EnterHandleAlarm
<1>3. TypePass'
  BY DEF IInv, TypeOK, TypeLists, TypePass, PassExcluded, SleepWoken, vars,
         lists, signals, clock, pass, sleep, history, EnterHandleAlarm
<1>4. TypeControl'
  BY DEF IInv, TypeOK, TypeControl, PCs, SleepWoken, vars, lists, signals,
         clock, pass, sleep, history, EnterHandleAlarm
<1>5. OneList' /\ Allocated' /\ GoneMarked'
  BY DEF IInv, OneList, Allocated, GoneMarked, Distinct, Disjoint, Member,
         SleepWoken, vars, lists, signals, clock, pass, sleep, history,
         EnterHandleAlarm
<1>6. PassOnTrack'
  BY DEF IInv, PassOnTrack, Distinct, Member, SleepWoken, vars, lists,
         signals, clock, pass, sleep, history, EnterHandleAlarm
<1>7. PassExcluded' /\ HasFrame'
  BY DEF IInv, TypeOK, TypeSignals, TypePass, PassExcluded, HasFrame,
         SleepWoken, vars, lists, signals, clock, pass, sleep, history,
         EnterHandleAlarm
<1> QED BY <1>1, <1>2, <1>3, <1>4, <1>5, <1>6, <1>7 DEF IInv, TypeOK

(* handle_alarm up to the loop of process_timers. *)
LEMMA BeginPassPreserves == IInv /\ BeginPass => IInv'
<1> SUFFICES ASSUME IInv, BeginPass PROVE IInv'
  OBVIOUS
<1> USE TimersAssumption
<1>1. TypeLists' /\ TypeClock'
  BY SMTT(30) DEF IInv, TypeOK, TypeLists, TypeClock, Slots, BeginPass, vars, lists,
         signals, clock, pass, sleep, history, ElapsedTime, Sat, NoAlarm,
         Never
<1>2. TypeSignals'
  BY DEF IInv, TypeOK, TypeSignals, PassExcluded, BeginPass, vars, lists,
         signals, clock, pass, sleep, history, ElapsedTime, Sat, NoAlarm,
         Never
<1>3. TypePass'
  <2>1. <<0>> \o frames \in Seq(Int)
    BY DEF IInv, TypeOK, TypePass
  <2>2. ElapsedTime \in Int
    BY DEF IInv, TypeOK, TypeClock, ElapsedTime, Sat
  <2>3. timers \in Seq(Slots) /\ <<>> \in Seq(Slots)
    BY DEF IInv, TypeOK, TypeLists
  <2>4. in_dispatch \in Nat /\ elapsed \in Int /\ todo \in Seq(Slots) /\ cur \in Slots
    BY DEF IInv, TypeOK, TypePass
  <2>5. frames' = <<0>> \o frames /\ cur' = cur
    BY DEF BeginPass
  <2>6. \/ in_dispatch' = in_dispatch /\ elapsed' = elapsed /\ todo' = todo
        \/ /\ in_dispatch' = in_dispatch + 1 /\ elapsed' = ElapsedTime
           /\ todo' = timers \/ todo' = <<>>
    BY DEF BeginPass
  <2>7. todo' \in Seq(Slots)
    BY <2>3, <2>4, <2>6
  <2>8. in_dispatch' \in Nat /\ elapsed' \in Int
    BY <2>2, <2>4, <2>6
  <2>9. frames' \in Seq(Int) /\ cur' \in Slots
    BY <2>1, <2>4, <2>5
  <2> QED BY <2>7, <2>8, <2>9, Zenon DEF TypePass
<1>4. TypeControl'
  BY DEF IInv, TypeOK, TypeControl, PCs, BeginPass, vars, lists, signals,
         clock, pass, sleep, history, ElapsedTime, Sat, NoAlarm, Never
<1>5. OneList' /\ Allocated' /\ GoneMarked'
  BY DEF IInv, OneList, Allocated, GoneMarked, Distinct, Disjoint, Member,
         BeginPass, vars, lists, signals, clock, pass, sleep, history,
         ElapsedTime, Sat, NoAlarm, Never
<1>6. PassOnTrack'
  <2>1. CASE pc' = "finish"
    BY <2>1 DEF PassOnTrack
  <2>2. CASE pc' = "loop"
    <3>1. timers' = timers /\ (todo' = timers \/ todo' = <<>>)
      BY <2>2 DEF BeginPass, lists
    <3>2. Distinct(timers)
      BY DEF IInv, OneList
    <3>3. Distinct(<<>>) /\ \A t : ~Member(<<>>, t)
      BY DEF Distinct, Member
    <3> QED BY <2>2, <3>1, <3>2, <3>3 DEF PassOnTrack, Distinct, Member
  <2> QED BY <2>1, <2>2 DEF BeginPass
<1>7. PassExcluded' /\ HasFrame'
  BY DEF IInv, TypeOK, TypeSignals, TypePass, PassExcluded, HasFrame,
         BeginPass, vars, lists, signals, clock, pass, sleep, history,
         ElapsedTime, Sat, NoAlarm, Never
<1> QED BY <1>1, <1>2, <1>3, <1>4, <1>5, <1>6, <1>7 DEF IInv, TypeOK

(* timers_init. *)
LEMMA timers_initPreserves == IInv /\ timers_init => IInv'
<1> SUFFICES ASSUME IInv, timers_init PROVE IInv'
  OBVIOUS
<1> USE TimersAssumption
<1>1. TypeLists' /\ TypeClock'
  BY DEF IInv, TypeOK, TypeLists, TypeClock, timers_init, vars, lists,
         signals, clock, pass, sleep, history, NoAlarm, Never
<1>2. TypeSignals' /\ TypePass' /\ TypeControl'
  BY DEF IInv, TypeOK, TypeSignals, TypePass, TypeControl, timers_init, vars,
         lists, signals, clock, pass, sleep, history
<1>3. OneList' /\ Allocated' /\ GoneMarked'
  BY DEF IInv, OneList, Allocated, GoneMarked, Distinct, Disjoint, Member,
         timers_init, vars, lists, signals, clock, pass, sleep, history
<1>4. PassOnTrack'
  BY DEF IInv, PassOnTrack, Distinct, Member, timers_init, vars, lists,
         signals, clock, pass, sleep, history
<1>5. PassExcluded' /\ HasFrame'
  BY DEF IInv, TypeOK, TypeSignals, TypePass, PassExcluded, HasFrame,
         timers_init, vars, lists, signals, clock, pass, sleep, history
<1> QED BY <1>1, <1>2, <1>3, <1>4, <1>5 DEF IInv, TypeOK

(* Freeing a timer of the main list keeps the lists sound. *)
LEMMA FreeTimer ==
    ASSUME IInv, NEW t \in Slots, Member(timers, t),
           timers' = xaset_remove(timers, t),
           free_timers' = xaset_insert(free_timers, t),
           recycled' = recycled, fresh' = fresh
    PROVE  /\ timers' \in Seq(Slots) /\ free_timers' \in Seq(Slots)
           /\ OneList' /\ Allocated'
           /\ \A u : Member(timers', u) <=> Member(timers, u) /\ u # t
<1>1. /\ timers' \in Seq(Slots) /\ Distinct(timers')
      /\ \A u : Member(timers', u) <=> Member(timers, u) /\ u # t
  BY RemoveMembers DEF IInv, TypeOK, TypeLists, OneList
<1>2. ~Member(free_timers, t) /\ ~Member(recycled, t)
  BY DEF IInv, OneList, Disjoint
<1>3. /\ free_timers' \in Seq(Slots) /\ Distinct(free_timers')
      /\ \A u : Member(free_timers', u) <=> Member(free_timers, u) \/ u = t
  BY <1>2, InsertMembers DEF IInv, TypeOK, TypeLists, OneList
<1>4. OneList'
  BY <1>1, <1>2, <1>3 DEF IInv, OneList, Disjoint
<1>5. Allocated'
  BY <1>1, <1>3 DEF IInv, Allocated
<1> QED BY <1>1, <1>3, <1>4, <1>5

(* So does moving one to recycled. *)
LEMMA RecycleTimer ==
    ASSUME IInv, NEW t \in Slots, Member(timers, t),
           timers' = xaset_remove(timers, t),
           recycled' = xaset_insert(recycled, t),
           free_timers' = free_timers, fresh' = fresh
    PROVE  /\ timers' \in Seq(Slots) /\ recycled' \in Seq(Slots)
           /\ OneList' /\ Allocated'
           /\ \A u : Member(timers', u) <=> Member(timers, u) /\ u # t
           /\ \A u : Member(recycled', u) <=> Member(recycled, u) \/ u = t
<1>1. /\ timers' \in Seq(Slots) /\ Distinct(timers')
      /\ \A u : Member(timers', u) <=> Member(timers, u) /\ u # t
  BY RemoveMembers DEF IInv, TypeOK, TypeLists, OneList
<1>2. ~Member(free_timers, t) /\ ~Member(recycled, t)
  BY DEF IInv, OneList, Disjoint
<1>3. /\ recycled' \in Seq(Slots) /\ Distinct(recycled')
      /\ \A u : Member(recycled', u) <=> Member(recycled, u) \/ u = t
  BY <1>2, InsertMembers DEF IInv, TypeOK, TypeLists, OneList
<1>4. OneList'
  BY <1>1, <1>2, <1>3 DEF IInv, OneList, Disjoint
<1>5. Allocated'
  BY <1>1, <1>3 DEF IInv, Allocated
<1> QED BY <1>1, <1>3, <1>4, <1>5

(* The struct of a new timer is on none of the lists. *)
LEMMA StructTaken ==
    ASSUME IInv, NEW t \in Slots, NEW prev, TakeStruct(t, prev)
    PROVE  /\ ~Member(timers, t) /\ ~Member(recycled, t)
           /\ free_timers' \in Seq(Slots) /\ Distinct(free_timers')
           /\ \A u : Member(free_timers', u) => Member(free_timers, u) /\ u # t
           /\ fresh' \in 0..MaxTimers /\ fresh <= fresh' /\ t <= fresh'
<1>1. CASE /\ free_timers # <<>> /\ t = Head(free_timers)
           /\ free_timers' = Tail(free_timers) /\ fresh' = fresh
  <2>1. /\ free_timers' \in Seq(Slots) /\ Distinct(free_timers')
        /\ \A u : Member(free_timers', u) <=> Member(free_timers, u) /\ u # t
        /\ Member(free_timers, t)
    BY <1>1, TailMembers DEF IInv, TypeOK, TypeLists, OneList
  <2>2. t <= fresh /\ fresh \in 0..MaxTimers
    BY <2>1 DEF IInv, TypeOK, TypeLists, Allocated
  <2>3. ~Member(timers, t) /\ ~Member(recycled, t)
    BY <2>1 DEF IInv, OneList, Disjoint
  <2> QED BY <1>1, <2>1, <2>2, <2>3, TimersAssumption
<1>2. CASE /\ free_timers = <<>> /\ fresh < MaxTimers /\ t = fresh + 1
           /\ fresh' = t /\ free_timers' = free_timers
  <2>1. ~(t <= fresh) /\ fresh' \in 0..MaxTimers /\ fresh <= fresh'
    BY <1>2, TimersAssumption DEF IInv, TypeOK, TypeLists
  <2>2. /\ ~Member(timers, t) /\ ~Member(recycled, t) /\ ~Member(free_timers, t)
    BY <2>1 DEF IInv, Allocated
  <2> QED BY <1>2, <2>1, <2>2, TimersAssumption DEF IInv, TypeOK, TypeLists, OneList,
                                        Slots
<1> QED BY <1>1, <1>2 DEF TakeStruct

(* Changing a count leaves the rest of the structs alone. *)
LEMMA CountChanged ==
    ASSUME NEW f \in [Slots -> TimerRec], NEW t \in Slots, NEW c \in Int
    PROVE  /\ [f EXCEPT ![t].count = c] \in [Slots -> TimerRec]
           /\ \A u \in Slots : [f EXCEPT ![t].count = c][u].remove = f[u].remove
  BY DEF TimerRec

(* One struct of the loop. *)
LEMMA VisitTimerPreserves == IInv /\ VisitTimer => IInv'
<1> SUFFICES ASSUME IInv, VisitTimer PROVE IInv'
  OBVIOUS
<1> USE TimersAssumption
<1>0. PICK t : t = Head(todo)
  OBVIOUS
<1>1. /\ t \in Slots /\ Tail(todo) \in Seq(Slots) /\ Distinct(Tail(todo))
      /\ \A u : Member(Tail(todo), u) <=> Member(todo, u) /\ u # t
      /\ Member(timers, t)
  BY <1>0, TailMembers DEF IInv, TypeOK, TypePass, PassOnTrack, VisitTimer
<1>2. /\ todo' = Tail(todo) /\ pc = "loop"
      /\ recycled' = recycled /\ fresh' = fresh /\ gone' = gone /\ lived' = lived
      /\ elapsed' = elapsed /\ in_dispatch' = in_dispatch /\ frames' = frames
      /\ alarms_blocked' = alarms_blocked /\ alarm_pending' = alarm_pending
  BY DEF VisitTimer, signals, history
<1>3. tm[t].count - elapsed \in Int
  BY <1>1 DEF IInv, TypeOK, TypeLists, TypePass, TimerRec
<1>4. CASE /\ timers' = xaset_remove(timers, t)
           /\ free_timers' = xaset_insert(free_timers, t)
           /\ tm' = tm \/ tm' = [tm EXCEPT ![t].count = tm[t].count - elapsed]
           /\ cur' = cur /\ pc' = pc
  <2>1. /\ timers' \in Seq(Slots) /\ free_timers' \in Seq(Slots)
        /\ OneList' /\ Allocated'
        /\ \A u : Member(timers', u) <=> Member(timers, u) /\ u # t
    BY <1>1, <1>2, <1>4, FreeTimer
  <2>2. /\ tm' \in [Slots -> TimerRec]
        /\ \A u \in Slots : tm'[u].remove = tm[u].remove
    <3>1. tm \in [Slots -> TimerRec]
      BY DEF IInv, TypeOK, TypeLists
    <3>2. LET f == [tm EXCEPT ![t].count = tm[t].count - elapsed]
          IN f \in [Slots -> TimerRec] /\ \A u \in Slots : f[u].remove = tm[u].remove
      BY <1>1, <1>3, <3>1, CountChanged
    <3> QED BY <1>4, <3>1, <3>2
  <2>3. TypeLists' /\ TypePass'
    BY <1>1, <1>2, <1>4, <2>1, <2>2 DEF IInv, TypeOK, TypeLists, TypePass
  <2>4. GoneMarked'
    BY <1>2, <2>1, <2>2 DEF IInv, TypeOK, TypeLists, GoneMarked
  <2>5. PassOnTrack'
    BY <1>1, <1>2, <1>4, <2>1 DEF IInv, PassOnTrack
  <2>6. PassExcluded' /\ HasFrame'
    BY <1>2, <1>4 DEF IInv, PassExcluded, HasFrame
  <2>7. TypeSignals' /\ TypeClock'
    BY DEF IInv, TypeOK, TypeSignals, TypeClock, VisitTimer, signals, clock
  <2>8. TypeControl'
    BY <1>4 DEF IInv, TypeOK, TypeControl, VisitTimer
  <2> QED BY <2>1, <2>3, <2>4, <2>5, <2>6, <2>7, <2>8 DEF IInv, TypeOK
<1>5. CASE /\ timers' = timers /\ free_timers' = free_timers
           /\ tm' = [tm EXCEPT ![t].count = tm[t].count - elapsed]
           /\ \/ cur' = cur /\ pc' = pc
              \/ cur' = t /\ pc' = "callback"
  <2>2. /\ tm' \in [Slots -> TimerRec]
        /\ \A u \in Slots : tm'[u].remove = tm[u].remove
    <3>1. tm \in [Slots -> TimerRec]
      BY DEF IInv, TypeOK, TypeLists
    <3>2. LET f == [tm EXCEPT ![t].count = tm[t].count - elapsed]
          IN f \in [Slots -> TimerRec] /\ \A u \in Slots : f[u].remove = tm[u].remove
      BY <1>1, <1>3, <3>1, CountChanged
    <3> QED BY <1>5, <3>1, <3>2
  <2>3. TypeLists' /\ TypePass'
    BY <1>1, <1>2, <1>5, <2>2 DEF IInv, TypeOK, TypeLists, TypePass
  <2>4. GoneMarked'
    BY <1>2, <1>5, <2>2 DEF IInv, TypeOK, TypeLists, GoneMarked
  <2>5. PassOnTrack'
    BY <1>1, <1>2, <1>5 DEF IInv, PassOnTrack
  <2>6. PassExcluded' /\ HasFrame'
    BY <1>2, <1>5 DEF IInv, PassExcluded, HasFrame
  <2>7. TypeSignals' /\ TypeClock'
    BY DEF IInv, TypeOK, TypeSignals, TypeClock, VisitTimer, signals, clock
  <2>8. TypeControl'
    BY DEF IInv, TypeOK, TypeControl, VisitTimer, PCs
  <2>9. OneList' /\ Allocated'
    BY <1>2, <1>5, SMTT(30) DEF IInv, OneList, Allocated, Disjoint, Distinct, Member
  <2> QED BY <2>3, <2>4, <2>5, <2>6, <2>7, <2>8, <2>9 DEF IInv, TypeOK
<1> QED BY <1>0, <1>4, <1>5 DEF VisitTimer

(* A callback that returns 0. *)
LEMMA CallbackDonePreserves == IInv /\ CallbackDone => IInv'
<1> SUFFICES ASSUME IInv, CallbackDone PROVE IInv'
  OBVIOUS
<1>1. /\ cur \in Slots /\ Member(timers, cur) /\ ~Member(todo, cur) /\ Distinct(todo)
      /\ \A t \in Slots : Member(todo, t) => Member(timers, t)
  BY DEF IInv, TypeOK, TypePass, PassOnTrack, CallbackDone
<1>2. /\ timers' \in Seq(Slots) /\ free_timers' \in Seq(Slots)
      /\ OneList' /\ Allocated'
      /\ \A u : Member(timers', u) <=> Member(timers, u) /\ u # cur
  BY <1>1, FreeTimer DEF CallbackDone
<1>3. TypeLists' /\ TypePass'
  BY <1>2 DEF IInv, TypeOK, TypeLists, TypePass, CallbackDone, pass, history
<1>4. TypeSignals' /\ TypeClock'
  BY DEF IInv, TypeOK, TypeSignals, TypeClock, CallbackDone, signals, clock
<1>5. TypeControl'
  BY DEF IInv, TypeOK, TypeControl, CallbackDone, PCs, sleep
<1>6. GoneMarked'
  BY <1>2 DEF IInv, GoneMarked, CallbackDone, history
<1>7. PassOnTrack'
  BY <1>1, <1>2 DEF PassOnTrack, CallbackDone, pass
<1>8. PassExcluded' /\ HasFrame'
  BY DEF IInv, PassExcluded, HasFrame, CallbackDone, signals, pass
<1> QED BY <1>2, <1>3, <1>4, <1>5, <1>6, <1>7, <1>8 DEF IInv, TypeOK

(* A callback that asks for a restart. *)
LEMMA CallbackRestartPreserves == IInv /\ CallbackRestart => IInv'
<1> SUFFICES ASSUME IInv, CallbackRestart PROVE IInv'
  OBVIOUS
<1>1. /\ cur \in Slots /\ Member(timers, cur) /\ ~Member(todo, cur) /\ Distinct(todo)
      /\ \A t \in Slots : Member(todo, t) => Member(timers, t)
  BY DEF IInv, TypeOK, TypePass, PassOnTrack, CallbackRestart
<1>2. /\ timers' \in Seq(Slots) /\ recycled' \in Seq(Slots)
      /\ OneList' /\ Allocated'
      /\ \A u : Member(timers', u) <=> Member(timers, u) /\ u # cur
      /\ \A u : Member(recycled', u) <=> Member(recycled, u) \/ u = cur
  BY <1>1, RecycleTimer DEF CallbackRestart
<1>3. /\ tm' \in [Slots -> TimerRec]
      /\ \A u \in Slots : tm'[u].remove = tm[u].remove
  <2>1. tm \in [Slots -> TimerRec] /\ tm[cur].interval \in Int
    BY <1>1 DEF IInv, TypeOK, TypeLists, TimerRec
  <2>2. tm' = [tm EXCEPT ![cur].count = tm[cur].interval]
    BY DEF CallbackRestart
  <2> QED BY <1>1, <2>1, <2>2, CountUpdated
<1>4. TypeLists' /\ TypePass'
  BY <1>1, <1>2, <1>3 DEF IInv, TypeOK, TypeLists, TypePass, CallbackRestart,
                          pass
<1>5. TypeSignals' /\ TypeClock'
  BY DEF IInv, TypeOK, TypeSignals, TypeClock, CallbackRestart, signals, clock
<1>6. TypeControl'
  BY DEF IInv, TypeOK, TypeControl, CallbackRestart, PCs, sleep
<1>7. GoneMarked'
  BY <1>1, <1>2, <1>3 DEF IInv, TypeOK, TypeLists, GoneMarked, CallbackRestart
<1>8. PassOnTrack'
  BY <1>1, <1>2 DEF PassOnTrack, CallbackRestart, pass
<1>9. PassExcluded' /\ HasFrame'
  BY DEF IInv, PassExcluded, HasFrame, CallbackRestart, signals, pass
<1> QED BY <1>2, <1>4, <1>5, <1>6, <1>7, <1>8, <1>9 DEF IInv, TypeOK

(* A recycled timer goes back to the main list. *)
LEMMA ResplicePreserves == IInv /\ Resplice => IInv'
<1> SUFFICES ASSUME IInv, Resplice PROVE IInv'
  OBVIOUS
<1>0. PICK t : t = Head(recycled)
  OBVIOUS
<1>1. /\ t \in Slots /\ Tail(recycled) \in Seq(Slots) /\ Distinct(Tail(recycled))
      /\ \A u : Member(Tail(recycled), u) <=> Member(recycled, u) /\ u # t
      /\ Member(recycled, t)
  BY <1>0, TailMembers DEF IInv, TypeOK, TypeLists, OneList, Resplice
<1>2. ~Member(timers, t) /\ ~Member(free_timers, t)
  BY <1>1 DEF IInv, OneList, Disjoint
<1>3. TypeSignals' /\ TypeClock' /\ TypePass'
  BY DEF IInv, TypeOK, TypeSignals, TypeClock, TypePass, Resplice, signals,
         clock, pass
<1>4. TypeControl'
  BY DEF IInv, TypeOK, TypeControl, Resplice, PCs, sleep
<1>5. PassExcluded' /\ HasFrame'
  BY DEF IInv, PassExcluded, HasFrame, Resplice, signals, pass
<1>6. CASE pc' = "corrupt" /\ tm' = tm /\ timers' = timers /\ recycled' = recycled
  <2>1. TypeLists'
    BY <1>6 DEF IInv, TypeOK, TypeLists, Resplice, history
  <2>2. OneList' /\ Allocated' /\ GoneMarked'
    BY <1>6 DEF IInv, OneList, Allocated, GoneMarked, Disjoint, Distinct,
                Member,
                Resplice, history
  <2>3. PassOnTrack'
    BY <1>6 DEF PassOnTrack
  <2> QED BY <1>3, <1>4, <1>5, <2>1, <2>2, <2>3 DEF IInv, TypeOK
<1>7. CASE /\ pc' = pc /\ recycled' = Tail(recycled)
           /\ timers' = xaset_insert_sort(timers, t, tm)
           /\ tm' = PrevWritten(Tail(recycled))
  <2>1. \A u \in Slots : tm[u].count \in Int
    BY DEF IInv, TypeOK, TypeLists, TimerRec
  <2>2. /\ timers' \in Seq(Slots) /\ Distinct(timers')
        /\ \A u : Member(timers', u) <=> Member(timers, u) \/ u = t
    <3>1. timers \in Seq(Slots) /\ Distinct(timers)
      BY DEF IInv, TypeOK, TypeLists, OneList
    <3>2. Inserted(Slots, timers, t, xaset_insert_sort(timers, t, tm))
      BY <1>1, <2>1, <3>1, SortedInsertMembers, Zenon
    <3>3. Inserted(Slots, timers, t, timers')
      BY <1>7, <3>2, Zenon
    <3> QED BY <1>2, <3>1, <3>3, Zenon DEF Inserted
  <2>8. /\ tm' \in [Slots -> TimerRec]
        /\ \A u \in Slots : tm'[u].remove = tm[u].remove
    <3>1. tm \in [Slots -> TimerRec]
      BY DEF IInv, TypeOK, TypeLists
    <3>2. \A r \in TimerRec : /\ [r EXCEPT !.prev = "null"] \in TimerRec
                              /\ [r EXCEPT !.prev = "null"].remove = r.remove
      BY DEF TimerRec
    <3> QED BY <1>7, <3>1, <3>2 DEF PrevWritten
  <2>3. TypeLists'
    BY <1>1, <1>7, <2>2, <2>8 DEF IInv, TypeOK, TypeLists, Resplice, history
  <2>4. free_timers' = free_timers /\ fresh' = fresh /\ gone' = gone
    BY DEF Resplice, history
  <2>5. OneList'
    BY <1>1, <1>2, <1>7, <2>2, <2>4 DEF IInv, OneList, Disjoint
  <2>6. Allocated' /\ GoneMarked'
    BY <1>1, <1>7, <2>2, <2>4, <2>8 DEF IInv, TypeOK, TypeLists, Allocated, GoneMarked
  <2>7. PassOnTrack'
    BY <1>7, <2>2 DEF IInv, PassOnTrack, Resplice, pass
  <2> QED BY <1>3, <1>4, <1>5, <2>3, <2>5, <2>6, <2>7 DEF IInv, TypeOK
<1> QED BY <1>0, <1>6, <1>7 DEF Resplice

(* What Readjust does to control and the critical-section variables. *)
LEMMA ReadjustFacts ==
    ASSUME IInv, pc = "run", Readjust,
           alarms_blocked' = alarms_blocked, recvd_alrm' = recvd_alrm,
           in_dispatch' = in_dispatch, frames' = frames
    PROVE  TypeSignals' /\ PassExcluded' /\ HasFrame' /\ pc' \in {"run", "drain"}
<1>1. alarms_blocked \in Nat /\ recvd_alrm \in BOOLEAN /\ in_dispatch = 0
  BY DEF IInv, TypeOK, TypeSignals, PassExcluded
<1>2. CASE alarms_blocked = 0
  <2>1. alarm_pending' = FALSE /\ pc' = "drain" /\ nalarms' = FALSE
    BY <1>2 DEF Readjust
  <2> QED BY <1>1, <1>2, <2>1 DEF TypeSignals, PassExcluded, HasFrame
<1>3. CASE alarms_blocked # 0
  <2>1. alarm_pending' = TRUE /\ pc' = "run" /\ nalarms' = FALSE /\ alarms_blocked > 0
    BY <1>1, <1>3 DEF Readjust
  <2> QED BY <1>1, <2>1 DEF TypeSignals, PassExcluded, HasFrame
<1> QED BY <1>2, <1>3

(* pr_timer_remove from the program. *)
LEMMA pr_timer_removePreserves == IInv /\ pr_timer_remove => IInv'
<1> SUFFICES ASSUME IInv, pr_timer_remove PROVE IInv'
  OBVIOUS
<1>1. PICK t \in Slots : /\ Member(timers, t)
                         /\ timers' = xaset_remove(timers, t)
                         /\ free_timers' = xaset_insert(free_timers, t)
                         /\ gone' = gone \cup {t}
  BY DEF pr_timer_remove, FirstMatch, Member
<1>2. /\ timers' \in Seq(Slots) /\ free_timers' \in Seq(Slots)
      /\ OneList' /\ Allocated'
      /\ \A u : Member(timers', u) <=> Member(timers, u) /\ u # t
  BY <1>1, FreeTimer DEF pr_timer_remove
<1>3. TypeSignals' /\ PassExcluded' /\ HasFrame' /\ pc' \in {"run", "drain"}
  BY ReadjustFacts DEF pr_timer_remove, pass
<1>4. TypeLists' /\ TypePass' /\ TypeClock'
  BY <1>1, <1>2 DEF IInv, TypeOK, TypeLists, TypePass, TypeClock,
                    pr_timer_remove, pass, clock
<1>5. TypeControl'
  BY <1>3 DEF IInv, TypeOK, TypeControl, pr_timer_remove, PCs, sleep
<1>6. GoneMarked'
  <2>1. ~Member(recycled, t)
    BY <1>1 DEF IInv, OneList, Disjoint
  <2> QED BY <1>1, <1>2, <2>1 DEF IInv, GoneMarked, pr_timer_remove
<1>7. PassOnTrack'
  BY <1>3 DEF PassOnTrack
<1> QED BY <1>2, <1>3, <1>4, <1>5, <1>6, <1>7 DEF IInv, TypeOK

(* One timer of a module that is being unloaded. *)
LEMMA RemoveModuleTimerPreserves == IInv /\ RemoveModuleTimer => IInv'
<1> SUFFICES ASSUME IInv, RemoveModuleTimer PROVE IInv'
  OBVIOUS
<1>1. PICK t \in Slots : /\ Member(timers, t)
                         /\ timers' = xaset_remove(timers, t)
                         /\ free_timers' = xaset_insert(free_timers, t)
                         /\ gone' = gone \cup {t}
  BY DEF RemoveModuleTimer, FirstMatch, Member
<1>2. /\ timers' \in Seq(Slots) /\ free_timers' \in Seq(Slots)
      /\ OneList' /\ Allocated'
      /\ \A u : Member(timers', u) <=> Member(timers, u) /\ u # t
  BY <1>1, FreeTimer DEF RemoveModuleTimer
<1>3. TypeSignals'
  BY DEF IInv, TypeOK, TypeSignals, RemoveModuleTimer
<1>4. TypeLists' /\ TypePass' /\ TypeClock'
  BY <1>1, <1>2 DEF IInv, TypeOK, TypeLists, TypePass, TypeClock,
                    RemoveModuleTimer, pass, clock
<1>5. TypeControl'
  BY DEF IInv, TypeOK, TypeControl, RemoveModuleTimer, sleep
<1>6. GoneMarked'
  <2>1. ~Member(recycled, t)
    BY <1>1 DEF IInv, OneList, Disjoint
  <2> QED BY <1>1, <1>2, <2>1 DEF IInv, GoneMarked, RemoveModuleTimer
<1>7. PassOnTrack' /\ HasFrame'
  BY DEF PassOnTrack, HasFrame, RemoveModuleTimer
<1>8. PassExcluded'
  BY DEF IInv, PassExcluded, RemoveModuleTimer, pass
<1> QED BY <1>2, <1>3, <1>4, <1>5, <1>6, <1>7, <1>8 DEF IInv, TypeOK

(* pr_timer_reset. *)
LEMMA pr_timer_resetPreserves == IInv /\ pr_timer_reset => IInv'
<1> SUFFICES ASSUME IInv, pr_timer_reset PROVE IInv'
  OBVIOUS
<1>1. PICK t \in Slots : /\ Member(timers, t)
                         /\ timers' = xaset_remove(timers, t)
                         /\ recycled' = xaset_insert(recycled, t)
                         /\ tm' = [tm EXCEPT ![t].count = tm[t].interval]
                         /\ lived' = [lived EXCEPT ![t] = 0]
  BY DEF pr_timer_reset, FirstMatch, Member
<1>2. /\ timers' \in Seq(Slots) /\ recycled' \in Seq(Slots)
      /\ OneList' /\ Allocated'
      /\ \A u : Member(timers', u) <=> Member(timers, u) /\ u # t
      /\ \A u : Member(recycled', u) <=> Member(recycled, u) \/ u = t
  BY <1>1, RecycleTimer DEF pr_timer_reset
<1>3. /\ tm' \in [Slots -> TimerRec]
      /\ \A u \in Slots : tm'[u].remove = tm[u].remove
  <2>1. tm \in [Slots -> TimerRec] /\ tm[t].interval \in Int
    BY <1>1 DEF IInv, TypeOK, TypeLists, TimerRec
  <2> QED BY <1>1, <2>1, CountUpdated
<1>4. TypeSignals' /\ PassExcluded' /\ HasFrame' /\ pc' \in {"run", "drain"}
  BY ReadjustFacts DEF pr_timer_reset, pass
<1>5. TypeLists' /\ TypePass' /\ TypeClock'
  BY <1>1, <1>2, <1>3, SMTT(30) DEF IInv, TypeOK, TypeLists, TypePass, TypeClock,
                          pr_timer_reset, pass, clock
<1>6. TypeControl'
  BY <1>4 DEF IInv, TypeOK, TypeControl, pr_timer_reset, PCs, sleep
<1>7. GoneMarked'
  BY <1>1, <1>2, <1>3 DEF IInv, TypeOK, TypeLists, GoneMarked, pr_timer_reset
<1>8. PassOnTrack'
  BY <1>4 DEF PassOnTrack
<1> QED BY <1>2, <1>4, <1>5, <1>6, <1>7, <1>8 DEF IInv, TypeOK

(* Marking timers of the main list during a pass. *)
LEMMA MarkingPreserves ==
    ASSUME IInv, pc = "callback", NEW hit \in SUBSET Slots,
           tm' \in [Slots -> TimerRec],
           \A u \in Slots : tm'[u].remove = (tm[u].remove \/ u \in hit),
           gone' = gone \cup hit,
           UNCHANGED <<timers, recycled, free_timers, fresh, signals, clock,
                       pass, sleep, rmod, pc, lived>>
    PROVE  IInv'
<1>1. TypeLists' /\ TypePass'
  BY DEF IInv, TypeOK, TypeLists, TypePass, pass
<1>2. TypeSignals' /\ TypeClock'
  BY DEF IInv, TypeOK, TypeSignals, TypeClock, signals, clock
<1>3. TypeControl'
  BY DEF IInv, TypeOK, TypeControl, sleep
<1>4. OneList' /\ Allocated'
  BY DEF IInv, OneList, Allocated, Disjoint, Distinct, Member
<1>5. GoneMarked'
  BY DEF IInv, TypeOK, TypeLists, GoneMarked
<1>6. PassOnTrack'
  BY DEF IInv, PassOnTrack, Distinct, Member, pass
<1>7. PassExcluded' /\ HasFrame'
  BY DEF IInv, PassExcluded, HasFrame, signals, pass
<1> QED BY <1>1, <1>2, <1>3, <1>4, <1>5, <1>6, <1>7 DEF IInv, TypeOK

(* pr_timer_remove from a callback. *)
LEMMA RemoveInDispatchPreserves == IInv /\ pr_timer_remove_in_dispatch => IInv'
<1> SUFFICES ASSUME IInv, pr_timer_remove_in_dispatch PROVE IInv'
  OBVIOUS
<1>1. PICK t \in Slots : /\ tm' = [tm EXCEPT ![t].remove = TRUE]
                         /\ gone' = gone \cup {t}
  BY DEF pr_timer_remove_in_dispatch
<1>2. /\ tm' \in [Slots -> TimerRec]
      /\ \A u \in Slots : tm'[u].remove = (tm[u].remove \/ u \in {t})
  <2>1. tm \in [Slots -> TimerRec]
    BY DEF IInv, TypeOK, TypeLists
  <2>2. tm' = WithMarks(tm, {t})
    BY <1>1, <2>1 DEF WithMarks
  <2>3. {t} \in SUBSET Slots
    OBVIOUS
  <2>4. MarksAdded(tm, {t}, WithMarks(tm, {t}))
    BY <2>1, <2>3, MarksUpdated, Zenon
  <2> QED BY <2>2, <2>4, Zenon DEF MarksAdded
<1> QED BY <1>1, <1>2, MarkingPreserves, ZenonT(60) DEF pr_timer_remove_in_dispatch

(* pr_timer_remove(-1, m) from a callback. *)
LEMMA RemoveModuleInDispatchPreserves == IInv /\ RemoveModuleInDispatch => IInv'
<1> SUFFICES ASSUME IInv, RemoveModuleInDispatch PROVE IInv'
  OBVIOUS
<1>1. PICK hit \in SUBSET Slots :
         /\ tm' = [t \in Slots |-> IF t \in hit THEN [tm[t] EXCEPT !.remove = TRUE]
                                   ELSE tm[t]]
         /\ gone' = gone \cup hit
  BY DEF RemoveModuleInDispatch
<1>2. /\ tm' \in [Slots -> TimerRec]
      /\ \A u \in Slots : tm'[u].remove = (tm[u].remove \/ u \in hit)
  <2>1. tm \in [Slots -> TimerRec]
    BY DEF IInv, TypeOK, TypeLists
  <2>2. tm' = WithMarks(tm, hit)
    BY <1>1 DEF WithMarks
  <2>3. MarksAdded(tm, hit, WithMarks(tm, hit))
    BY <2>1, MarksUpdated, Zenon
  <2> QED BY <2>2, <2>3, Zenon DEF MarksAdded
<1> QED BY <1>1, <1>2, MarkingPreserves, ZenonT(60) DEF RemoveModuleInDispatch

(* A new timer is well formed. *)
LEMMA NewTimerType ==
    ASSUME NEW id \in Ids \cup {Dynamic}, NEW s \in Seconds,
           NEW m \in Modules \cup {NoModule}, NEW cb \in {"user", "sleep_cb"},
           NEW prev \in {"null", "junk"}
    PROVE  NewTimer(id, s, m, cb, prev) \in TimerRec /\ ~NewTimer(id, s, m, cb, prev).remove
  BY TimersAssumption DEF NewTimer, TimerRec

(* The common part of pr_timer_add and pr_timer_sleep. *)
LEMMA AddTimerFacts ==
    ASSUME IInv, pc = "run", NEW id \in Ids \cup {Dynamic}, NEW s \in Seconds,
           NEW m \in Modules \cup {NoModule}, NEW cb \in {"user", "sleep_cb"},
           AddTimer(id, s, m, cb)
    PROVE  /\ TypeLists' /\ TypeSignals' /\ TypeClock' /\ TypePass'
           /\ OneList' /\ Allocated' /\ GoneMarked' /\ PassOnTrack'
           /\ PassExcluded' /\ HasFrame'
           /\ pc' \in {"run", "drain"} /\ rmod' = rmod
<1>1. PICK t \in Slots, prev \in {"null", "junk"} :
         /\ TakeStruct(t, prev)
         /\ tm' = [tm EXCEPT ![t] = NewTimer(id, s, m, cb, "null")]
         /\ timers' = xaset_insert_sort(timers, t, tm')
         /\ gone' = gone \ {t}
         /\ lived' = [lived EXCEPT ![t] = 0]
  BY DEF AddTimer
<1>2. /\ ~Member(timers, t) /\ ~Member(recycled, t)
      /\ free_timers' \in Seq(Slots) /\ Distinct(free_timers')
      /\ \A u : Member(free_timers', u) => Member(free_timers, u) /\ u # t
      /\ fresh' \in 0..MaxTimers /\ fresh <= fresh' /\ t <= fresh'
  BY <1>1, StructTaken
<1>3. /\ tm' \in [Slots -> TimerRec]
      /\ \A u \in Slots : u # t => tm'[u] = tm[u]
      /\ ~tm'[t].remove
  <2>1. NewTimer(id, s, m, cb, "null") \in TimerRec /\ ~NewTimer(id, s, m, cb, "null").remove
    BY NewTimerType
  <2> QED BY <1>1, <2>1 DEF IInv, TypeOK, TypeLists
<1>4. /\ timers' \in Seq(Slots) /\ Distinct(timers')
      /\ \A u : Member(timers', u) <=> Member(timers, u) \/ u = t
  <2>1. timers \in Seq(Slots) /\ Distinct(timers)
    BY DEF IInv, TypeOK, TypeLists, OneList
  <2>2. PICK rec : rec = tm'
    OBVIOUS
  <2>3. \A u \in Slots : rec[u].count \in Int
    BY <1>3, <2>2 DEF TimerRec
  <2>4. Inserted(Slots, timers, t, xaset_insert_sort(timers, t, rec))
    BY <2>1, <2>3, SortedInsertMembers, Zenon
  <2>5. Inserted(Slots, timers, t, timers')
    BY <1>1, <2>2, <2>4, Zenon
  <2> QED BY <1>2, <2>1, <2>5, Zenon DEF Inserted
<1>5. /\ recycled' = recycled /\ alarms_blocked' = alarms_blocked
      /\ recvd_alrm' = recvd_alrm /\ in_dispatch' = in_dispatch
      /\ frames' = frames /\ rmod' = rmod /\ Readjust
  BY DEF AddTimer, pass
<1>6. TypeSignals' /\ PassExcluded' /\ HasFrame' /\ pc' \in {"run", "drain"}
  BY <1>5, ReadjustFacts
<1>7. TypeLists'
  BY <1>1, <1>2, <1>3, <1>4, <1>5 DEF IInv, TypeOK, TypeLists
<1>8. TypeClock' /\ TypePass'
  BY DEF IInv, TypeOK, TypeClock, TypePass, AddTimer, clock, pass
<1>9. OneList'
  BY <1>2, <1>4, <1>5 DEF IInv, OneList, Disjoint
<1>10. Allocated'
  <2> SUFFICES ASSUME NEW u \in Slots,
                      Member(timers', u) \/ Member(recycled', u) \/ Member(free_timers', u)
               PROVE  u <= fresh'
    BY DEF Allocated
  <2>1. u = t \/ u <= fresh
    BY <1>2, <1>4, <1>5 DEF IInv, Allocated
  <2>2. u \in Int /\ fresh \in Int /\ fresh' \in Int
    BY <1>2 DEF IInv, TypeOK, TypeLists, Slots
  <2> QED BY <1>2, <2>1, <2>2
<1>11. GoneMarked'
  BY <1>1, <1>3, <1>4, <1>5 DEF IInv, TypeOK, TypeLists, GoneMarked
<1>12. PassOnTrack'
  BY <1>6 DEF PassOnTrack
<1> QED BY <1>5, <1>6, <1>7, <1>8, <1>9, <1>10, <1>11, <1>12

(* pr_timer_add from the program. *)
LEMMA pr_timer_addPreserves == IInv /\ pr_timer_add => IInv'
<1> SUFFICES ASSUME IInv, pr_timer_add PROVE IInv'
  OBVIOUS
<1>1. PICK id \in Ids \cup {Dynamic}, s \in Seconds, m \in Modules :
         AddTimer(id, s, m, "user")
  BY DEF pr_timer_add
<1>2. /\ TypeLists' /\ TypeSignals' /\ TypeClock' /\ TypePass'
      /\ OneList' /\ Allocated' /\ GoneMarked' /\ PassOnTrack'
      /\ PassExcluded' /\ HasFrame'
      /\ pc' \in {"run", "drain"} /\ rmod' = rmod
  BY <1>1, AddTimerFacts DEF pr_timer_add
<1>3. TypeControl'
  BY <1>2 DEF IInv, TypeOK, TypeControl, pr_timer_add, PCs, sleep
<1> QED BY <1>2, <1>3 DEF IInv, TypeOK

(* pr_timer_sleep. *)
LEMMA pr_timer_sleepPreserves == IInv /\ pr_timer_sleep => IInv'
<1> SUFFICES ASSUME IInv, pr_timer_sleep PROVE IInv'
  OBVIOUS
<1>1. PICK s \in Seconds : AddTimer(Dynamic, s, NoModule, "sleep_cb")
  BY DEF pr_timer_sleep
<1>2. /\ TypeLists' /\ TypeSignals' /\ TypeClock' /\ TypePass'
      /\ OneList' /\ Allocated' /\ GoneMarked' /\ PassOnTrack'
      /\ PassExcluded' /\ HasFrame'
      /\ pc' \in {"run", "drain"} /\ rmod' = rmod
  BY <1>1, AddTimerFacts DEF pr_timer_sleep
<1>3. TypeControl'
  BY <1>2 DEF IInv, TypeOK, TypeControl, pr_timer_sleep, PCs
<1> QED BY <1>2, <1>3 DEF IInv, TypeOK

(* pr_timer_add from a callback. *)
LEMMA AddInDispatchPreserves == IInv /\ pr_timer_add_in_dispatch => IInv'
<1> SUFFICES ASSUME IInv, pr_timer_add_in_dispatch PROVE IInv'
  OBVIOUS
<1>1. PICK id \in Ids \cup {Dynamic}, s \in Seconds, m \in Modules,
           t \in Slots, prev \in {"null", "junk"} :
         /\ TakeStruct(t, prev)
         /\ tm' = [tm EXCEPT ![t] = NewTimer(id, s, m, "user", prev)]
         /\ recycled' = xaset_insert(recycled, t)
         /\ gone' = gone \ {t}
         /\ lived' = [lived EXCEPT ![t] = 0]
  BY DEF pr_timer_add_in_dispatch
<1>2. /\ ~Member(timers, t) /\ ~Member(recycled, t)
      /\ free_timers' \in Seq(Slots) /\ Distinct(free_timers')
      /\ \A u : Member(free_timers', u) => Member(free_timers, u) /\ u # t
      /\ fresh' \in 0..MaxTimers /\ fresh <= fresh' /\ t <= fresh'
  BY <1>1, StructTaken
<1>3. /\ tm' \in [Slots -> TimerRec]
      /\ \A u \in Slots : u # t => tm'[u] = tm[u]
      /\ ~tm'[t].remove
  <2>1. NewTimer(id, s, m, "user", prev) \in TimerRec /\ ~NewTimer(id, s, m, "user", prev).remove
    BY NewTimerType
  <2> QED BY <1>1, <2>1 DEF IInv, TypeOK, TypeLists
<1>4. /\ recycled' \in Seq(Slots) /\ Distinct(recycled')
      /\ \A u : Member(recycled', u) <=> Member(recycled, u) \/ u = t
  BY <1>1, <1>2, InsertMembers DEF IInv, TypeOK, TypeLists, OneList
<1>5. timers' = timers /\ pc' = pc /\ pc = "callback" /\ todo' = todo /\ cur' = cur
  BY DEF pr_timer_add_in_dispatch, pass
<1>6. TypeLists'
  BY <1>1, <1>2, <1>3, <1>4, <1>5 DEF IInv, TypeOK, TypeLists
<1>7. TypeClock' /\ TypePass' /\ TypeSignals'
  BY DEF IInv, TypeOK, TypeClock, TypePass, TypeSignals,
         pr_timer_add_in_dispatch, clock, pass, signals
<1>8. TypeControl'
  BY DEF IInv, TypeOK, TypeControl, pr_timer_add_in_dispatch, sleep
<1>9. OneList'
  BY <1>2, <1>4, <1>5 DEF IInv, OneList, Disjoint
<1>10. Allocated'
  <2> SUFFICES ASSUME NEW u \in Slots,
                      Member(timers', u) \/ Member(recycled', u) \/ Member(free_timers', u)
               PROVE  u <= fresh'
    BY DEF Allocated
  <2>1. u = t \/ u <= fresh
    BY <1>2, <1>4, <1>5 DEF IInv, Allocated
  <2>2. u \in Int /\ fresh \in Int /\ fresh' \in Int
    BY <1>2 DEF IInv, TypeOK, TypeLists, Slots
  <2> QED BY <1>2, <2>1, <2>2
<1>11. GoneMarked'
  BY <1>1, <1>3, <1>4, <1>5 DEF IInv, TypeOK, TypeLists, GoneMarked
<1>12. PassOnTrack'
  BY <1>5 DEF IInv, PassOnTrack, Member, Distinct
<1>13. PassExcluded' /\ HasFrame'
  BY DEF IInv, PassExcluded, HasFrame, pr_timer_add_in_dispatch, signals, pass
<1> QED BY <1>6, <1>7, <1>8, <1>9, <1>10, <1>11, <1>12, <1>13 DEF IInv, TypeOK
-----------------------------------------------------------------------------
(* Every step preserves the invariant. *)
LEMMA NextInvariant == IInv /\ [Next]_vars => IInv'
<1> SUFFICES ASSUME IInv, [Next]_vars PROVE IInv'
  OBVIOUS
<1>1. CASE UNCHANGED vars
  <2>1. OneList' /\ Allocated' /\ GoneMarked' /\ PassOnTrack' /\ HasFrame' /\ PassExcluded'
    BY <1>1 DEF IInv, OneList, Allocated, GoneMarked, PassOnTrack, HasFrame,
                PassExcluded, Disjoint, Distinct, Member, vars, lists, signals,
                clock, pass, sleep, history
  <2>2. TypeLists' /\ TypeSignals' /\ TypeClock'
    BY <1>1 DEF IInv, TypeOK, TypeLists, TypeSignals, TypeClock,
                vars, lists, signals, clock, pass, sleep, history
  <2>3. TypePass' /\ TypeControl'
    BY <1>1 DEF IInv, TypeOK, TypePass, TypeControl,
                vars, lists, signals, clock, pass, sleep, history
  <2> QED BY <2>1, <2>2, <2>3 DEF IInv, TypeOK
<1>2. CASE Tick \/ sig_alarm
  BY <1>2, TickPreserves, sig_alarmPreserves
<1>3. CASE Internal
  BY <1>3, BeginPassPreserves, VisitTimerPreserves, CallbackDonePreserves,
     CallbackRestartPreserves, ResplicePreserves, EndPassPreserves,
     FinishPassPreserves, RemoveModuleTimerPreserves, RemoveModuleEndPreserves,
     SleepCheckPreserves, SleepWokenPreserves DEF Internal
<1>4. CASE Interface
  BY <1>4, HandleSignalsPreserves, pr_timer_addPreserves, AddInDispatchPreserves,
     pr_timer_resetPreserves, pr_timer_removePreserves, RemoveInDispatchPreserves,
     RemoveModuleBeginPreserves, RemoveModuleInDispatchPreserves,
     pr_alarms_blockPreserves, pr_alarms_unblockPreserves,
     pr_timer_sleepPreserves, timers_initPreserves DEF Interface
<1> QED BY <1>1, <1>2, <1>3, <1>4 DEF Next

(* The invariant holds in every reachable state. *)
LEMMA Invariance == Spec => []IInv
  BY InitInvariant, NextInvariant, PTL DEF Spec

-----------------------------------------------------------------------------
(* What remains of each timer is a number. *)
LEMMA RemainingType == IInv => Remaining \in [Slots -> Int]
<1> SUFFICES ASSUME IInv, NEW t \in Slots
             PROVE  tm[t].count - (IF Member(todo, t) THEN elapsed ELSE 0) \in Int
  BY DEF Remaining
<1>1. tm[t].count \in Int /\ elapsed \in Int
  BY DEF IInv, TypeOK, TypeLists, TypePass, TimerRec
<1> QED BY <1>1

(* Outside the loop that is the count of the timer. *)
LEMMA RemainingCount ==
    ASSUME IInv, todo = <<>>, NEW t \in Slots
    PROVE  Remaining[t] = tm[t].count
<1>1. tm[t].count \in Int
  BY DEF IInv, TypeOK, TypeLists, TimerRec
<1>2. ~Member(todo, t)
  BY DEF Member
<1> QED BY <1>1, <1>2 DEF Remaining

(* A step that at most removes a timer, and takes the same time from all   *)
(* the others, keeps the main list in order.                               *)
LEMMA OrderKept ==
    ASSUME IInv, IInv', TimersSorted, NEW d \in Int,
           timers' = timers \/ \E t : timers' = xaset_remove(timers, t),
           \A u \in Slots : Member(timers', u) => Remaining'[u] = Remaining[u] - d
    PROVE  TimersSorted'
<1>1. PICK l, f, g : l = timers' /\ f = Remaining /\ g = Remaining'
  OBVIOUS
<1>2. f \in [Slots -> Int]
  BY <1>1, RemainingType
<1>3. g \in [Slots -> Int]
  <2>1. (IInv => Remaining \in [Slots -> Int])'
    BY RemainingType, PTL
  <2> QED BY <1>1, <2>1
<1>4. timers \in Seq(Slots) /\ l \in Seq(Slots)
  BY <1>1 DEF IInv, TypeOK, TypeLists
<1>5. Sorted(l, f)
  <2>1. Sorted(timers, f)
    BY <1>1 DEF TimersSorted
  <2> QED BY <1>1, <1>4, <2>1, SortedRemove, Zenon
<1>6. \A u \in Slots : Member(l, u) => g[u] = f[u] - d
  BY <1>1
<1>7. Sorted(l, g)
  <2> SUFFICES ASSUME NEW i \in 1..Len(l), NEW j \in 1..Len(l), i < j
               PROVE  g[l[i]] <= g[l[j]]
    BY DEF Sorted
  <2>1. l[i] \in Slots /\ l[j] \in Slots /\ Member(l, l[i]) /\ Member(l, l[j])
    BY <1>4 DEF Member
  <2>2. f[l[i]] <= f[l[j]]
    BY <1>5 DEF Sorted
  <2>3. f[l[i]] \in Int /\ f[l[j]] \in Int
    BY <1>2, <2>1
  <2>4. g[l[i]] = f[l[i]] - d /\ g[l[j]] = f[l[j]] - d
    BY <1>6, <2>1
  <2> QED BY <2>2, <2>3, <2>4
<1> QED BY <1>1, <1>7 DEF TimersSorted

(* In particular a step that leaves the lists alone. *)
LEMMA OrderStands ==
    ASSUME IInv, IInv', TimersSorted, tm' = tm, timers' = timers, todo' = todo,
           elapsed' = elapsed \/ todo = <<>>
    PROVE  TimersSorted'
<1>1. \A u \in Slots : Remaining'[u] = Remaining[u]
  <2>1. CASE elapsed' = elapsed
    BY <2>1 DEF Remaining, Member
  <2>2. CASE todo = <<>>
    BY <2>2 DEF Remaining, Member
  <2> QED BY <2>1, <2>2
<1>2. \A u \in Slots : Remaining[u] = Remaining[u] - 0
  BY RemainingType
<1> QED BY <1>1, <1>2, OrderKept

(* The invariant holds of the freshly started program. *)
LEMMA InitAlarm == Init => AlarmInv
<1> SUFFICES ASSUME Init PROVE AlarmInv
  OBVIOUS
<1>1. TimersSorted
  BY DEF Init, TimersSorted, Sorted
<1>2. TimeLeft /\ PassComes /\ Covered
  BY DEF Init, TimeLeft, PassComes, Covered, Member
<1> QED BY <1>1, <1>2 DEF AlarmInv

(* Time passes: the alarm comes closer, and is still there.                *)
LEMMA TickAlarm ==
    ASSUME IInv, IInv', AlarmInv, Tick PROVE AlarmInv'
<1>1. /\ tm' = tm /\ timers' = timers /\ recycled' = recycled /\ todo' = todo
      /\ cur' = cur /\ (elapsed' = elapsed \/ todo = <<>>)
  BY DEF Tick, lists, pass
<1>2. TimersSorted'
  BY <1>1, OrderStands DEF AlarmInv
<1>3. TimeLeft'
  BY <1>1 DEF IInv, PassExcluded, AlarmInv, TimeLeft, Member, Tick, NoAlarm
<1>4. PassComes'
  BY <1>1 DEF IInv, TypeOK, TypeSignals, PassExcluded, AlarmInv, PassComes, Tick, signals, NoAlarm
<1>5. Covered'
  BY <1>1 DEF IInv, TypeOK, TypeSignals, TypeClock, PassExcluded, AlarmInv, Covered, Member,
              Tick, signals, clock, NoAlarm
<1> QED BY <1>2, <1>3, <1>4, <1>5 DEF AlarmInv

(* The handler asks for the same alarm again.                              *)
LEMMA sig_alarmAlarm ==
    ASSUME IInv, IInv', AlarmInv, sig_alarm PROVE AlarmInv'
<1>1. /\ tm' = tm /\ timers' = timers /\ recycled' = recycled /\ todo' = todo
      /\ cur' = cur /\ (elapsed' = elapsed \/ todo = <<>>)
  BY DEF sig_alarm, lists, pass
<1>2. TimersSorted'
  BY <1>1, OrderStands DEF AlarmInv
<1>3. TimeLeft'
  BY <1>1 DEF IInv, PassExcluded, AlarmInv, TimeLeft, Member, sig_alarm, RearmTimeout, NoAlarm
<1>4. PassComes'
  BY <1>1 DEF IInv, TypeOK, TypeSignals, PassExcluded, AlarmInv, PassComes, sig_alarm, signals, RearmTimeout, NoAlarm
<1>5. Covered'
  BY <1>1 DEF IInv, TypeOK, TypeSignals, TypeClock, PassExcluded, AlarmInv, Covered, Member,
              sig_alarm, signals, clock, RearmTimeout, NoAlarm
<1> QED BY <1>2, <1>3, <1>4, <1>5 DEF AlarmInv

(* pr_signals_handle: a pass begins, or is left pending.                   *)
LEMMA HandleSignalsAlarm ==
    ASSUME IInv, IInv', AlarmInv, HandleSignals PROVE AlarmInv'
<1>1. /\ tm' = tm /\ timers' = timers /\ recycled' = recycled /\ todo' = todo
      /\ cur' = cur /\ (elapsed' = elapsed \/ todo = <<>>)
  BY DEF HandleSignals, lists, pass
<1>2. TimersSorted'
  BY <1>1, OrderStands DEF AlarmInv
<1>3. TimeLeft'
  BY <1>1 DEF IInv, PassExcluded, AlarmInv, TimeLeft, Member, HandleSignals, EnterHandleAlarm
<1>4. PassComes'
  BY <1>1 DEF IInv, TypeOK, TypeSignals, PassExcluded, AlarmInv, PassComes, HandleSignals, signals, EnterHandleAlarm
<1>5. Covered'
  BY <1>1 DEF IInv, TypeOK, TypeSignals, TypeClock, PassExcluded, AlarmInv, Covered, Member,
              HandleSignals, signals, clock, EnterHandleAlarm
<1> QED BY <1>2, <1>3, <1>4, <1>5 DEF AlarmInv

(* The end of a pass: recycled is empty.                                   *)
LEMMA EndPassAlarm ==
    ASSUME IInv, IInv', AlarmInv, EndPass PROVE AlarmInv'
<1>1. /\ tm' = tm /\ timers' = timers /\ recycled' = recycled /\ todo' = todo
      /\ cur' = cur /\ (elapsed' = elapsed \/ todo = <<>>)
  BY DEF EndPass, lists, pass
<1>2. TimersSorted'
  BY <1>1, OrderStands DEF AlarmInv
<1>3. TimeLeft'
  BY <1>1 DEF IInv, PassExcluded, AlarmInv, TimeLeft, Member, EndPass
<1>4. PassComes'
  BY <1>1 DEF IInv, TypeOK, TypeSignals, PassExcluded, AlarmInv, PassComes, EndPass, signals
<1>5. Covered'
  BY <1>1 DEF IInv, TypeOK, TypeSignals, TypeClock, PassExcluded, AlarmInv, Covered, Member,
              EndPass, signals, clock
<1> QED BY <1>2, <1>3, <1>4, <1>5 DEF AlarmInv

(* The start of pr_timer_remove(-1, mod).                                  *)
LEMMA RemoveModuleBeginAlarm ==
    ASSUME IInv, IInv', AlarmInv, RemoveModuleBegin PROVE AlarmInv'
<1>1. /\ tm' = tm /\ timers' = timers /\ recycled' = recycled /\ todo' = todo
      /\ cur' = cur /\ (elapsed' = elapsed \/ todo = <<>>)
  BY DEF RemoveModuleBegin, lists, pass
<1>2. TimersSorted'
  BY <1>1, OrderStands DEF AlarmInv
<1>3. TimeLeft'
  BY <1>1 DEF IInv, PassExcluded, AlarmInv, TimeLeft, Member, RemoveModuleBegin
<1>4. PassComes'
  BY <1>1 DEF IInv, TypeOK, TypeSignals, PassExcluded, AlarmInv, PassComes, RemoveModuleBegin, signals
<1>5. Covered'
  BY <1>1 DEF IInv, TypeOK, TypeSignals, TypeClock, PassExcluded, AlarmInv, Covered, Member,
              RemoveModuleBegin, signals, clock
<1> QED BY <1>2, <1>3, <1>4, <1>5 DEF AlarmInv

(* Its end.                                                                *)
LEMMA RemoveModuleEndAlarm ==
    ASSUME IInv, IInv', AlarmInv, RemoveModuleEnd PROVE AlarmInv'
<1>1. /\ tm' = tm /\ timers' = timers /\ recycled' = recycled /\ todo' = todo
      /\ cur' = cur /\ (elapsed' = elapsed \/ todo = <<>>)
  BY DEF RemoveModuleEnd, lists, pass
<1>2. TimersSorted'
  BY <1>1, OrderStands DEF AlarmInv
<1>3. TimeLeft'
  BY <1>1 DEF IInv, PassExcluded, AlarmInv, TimeLeft, Member, RemoveModuleEnd, Unblock
<1>4. PassComes'
  BY <1>1 DEF IInv, TypeOK, TypeSignals, PassExcluded, AlarmInv, PassComes, RemoveModuleEnd, signals, Unblock
<1>5. Covered'
  BY <1>1 DEF IInv, TypeOK, TypeSignals, TypeClock, PassExcluded, AlarmInv, Covered, Member,
              RemoveModuleEnd, signals, clock, Unblock
<1> QED BY <1>2, <1>3, <1>4, <1>5 DEF AlarmInv

(* pr_alarms_block.                                                        *)
LEMMA pr_alarms_blockAlarm ==
    ASSUME IInv, IInv', AlarmInv, pr_alarms_block PROVE AlarmInv'
<1>1. /\ tm' = tm /\ timers' = timers /\ recycled' = recycled /\ todo' = todo
      /\ cur' = cur /\ (elapsed' = elapsed \/ todo = <<>>)
  BY DEF pr_alarms_block, lists, pass
<1>2. TimersSorted'
  BY <1>1, OrderStands DEF AlarmInv
<1>3. TimeLeft'
  BY <1>1 DEF IInv, PassExcluded, AlarmInv, TimeLeft, Member, pr_alarms_block
<1>4. PassComes'
  BY <1>1 DEF IInv, TypeOK, TypeSignals, PassExcluded, AlarmInv, PassComes, pr_alarms_block, signals
<1>5. Covered'
  BY <1>1 DEF IInv, TypeOK, TypeSignals, TypeClock, PassExcluded, AlarmInv, Covered, Member,
              pr_alarms_block, signals, clock
<1> QED BY <1>2, <1>3, <1>4, <1>5 DEF AlarmInv

(* pr_alarms_unblock serves what is pending.                               *)
LEMMA pr_alarms_unblockAlarm ==
    ASSUME IInv, IInv', AlarmInv, pr_alarms_unblock PROVE AlarmInv'
<1>1. /\ tm' = tm /\ timers' = timers /\ recycled' = recycled /\ todo' = todo
      /\ cur' = cur /\ (elapsed' = elapsed \/ todo = <<>>)
  BY DEF pr_alarms_unblock, lists, pass
<1>2. TimersSorted'
  BY <1>1, OrderStands DEF AlarmInv
<1>3. TimeLeft'
  BY <1>1 DEF IInv, PassExcluded, AlarmInv, TimeLeft, Member, pr_alarms_unblock, Unblock
<1>4. PassComes'
  BY <1>1 DEF IInv, TypeOK, TypeSignals, PassExcluded, AlarmInv, PassComes, pr_alarms_unblock, signals, Unblock
<1>5. Covered'
  BY <1>1 DEF IInv, TypeOK, TypeSignals, TypeClock, PassExcluded, AlarmInv, Covered, Member,
              pr_alarms_unblock, signals, clock, Unblock
<1> QED BY <1>2, <1>3, <1>4, <1>5 DEF AlarmInv

(* The test of pr_timer_sleep.                                             *)
LEMMA SleepCheckAlarm ==
    ASSUME IInv, IInv', AlarmInv, SleepCheck PROVE AlarmInv'
<1>1. /\ tm' = tm /\ timers' = timers /\ recycled' = recycled /\ todo' = todo
      /\ cur' = cur /\ (elapsed' = elapsed \/ todo = <<>>)
  BY DEF SleepCheck, lists, pass
<1>2. TimersSorted'
  BY <1>1, OrderStands DEF AlarmInv
<1>3. TimeLeft'
  BY <1>1 DEF IInv, PassExcluded, AlarmInv, TimeLeft, Member, SleepCheck
<1>4. PassComes'
  BY <1>1 DEF IInv, TypeOK, TypeSignals, PassExcluded, AlarmInv, PassComes, SleepCheck, signals
<1>5. Covered'
  BY <1>1 DEF IInv, TypeOK, TypeSignals, TypeClock, PassExcluded, AlarmInv, Covered, Member,
              SleepCheck, signals, clock
<1> QED BY <1>2, <1>3, <1>4, <1>5 DEF AlarmInv

(* pr_timer_sleep after sigsuspend.                                        *)
LEMMA SleepWokenAlarm ==
    ASSUME IInv, IInv', AlarmInv, SleepWoken PROVE AlarmInv'
<1>1. /\ tm' = tm /\ timers' = timers /\ recycled' = recycled /\ todo' = todo
      /\ cur' = cur /\ (elapsed' = elapsed \/ todo = <<>>)
  BY DEF SleepWoken, lists, pass
<1>2. TimersSorted'
  BY <1>1, OrderStands DEF AlarmInv
<1>3. TimeLeft'
  BY <1>1 DEF IInv, PassExcluded, AlarmInv, TimeLeft, Member, SleepWoken, EnterHandleAlarm
<1>4. PassComes'
  BY <1>1 DEF IInv, TypeOK, TypeSignals, PassExcluded, AlarmInv, PassComes, SleepWoken, signals, EnterHandleAlarm
<1>5. Covered'
  BY <1>1 DEF IInv, TypeOK, TypeSignals, TypeClock, PassExcluded, AlarmInv, Covered, Member,
              SleepWoken, signals, clock, EnterHandleAlarm
<1> QED BY <1>2, <1>3, <1>4, <1>5 DEF AlarmInv

(* The start of a pass takes the elapsed time from every timer.            *)
LEMMA BeginPassAlarm ==
    ASSUME IInv, IInv', AlarmInv, BeginPass PROVE AlarmInv'
<1>1. /\ tm' = tm /\ timers' = timers /\ recycled' = recycled /\ cur' = cur
      /\ alarm_pending' = alarm_pending /\ pc = "drain" /\ pc' \in {"finish", "loop"}
      /\ pc' = "finish" => recycled = <<>>
  BY DEF BeginPass, lists
<1>2. todo = <<>>
  BY <1>1 DEF AlarmInv, PassComes
<1>3. TimersSorted'
  <2>1. CASE pc' = "finish"
    <3>1. todo' = todo /\ elapsed' = elapsed
      BY <2>1 DEF BeginPass
    <3> QED BY <1>1, <3>1, OrderStands DEF AlarmInv
  <2>2. CASE pc' = "loop"
    <3>1. PICK e : e = ElapsedTime
      OBVIOUS
    <3>2. e \in Int
      BY <3>1, TimersAssumption DEF ElapsedTime, Sat, IInv, TypeOK, TypeClock
    <3>3. elapsed' = e /\ todo' = IF e > 0 THEN timers ELSE <<>>
      BY <2>2, <3>1 DEF BeginPass
    <3>4. ASSUME NEW u \in Slots, Member(timers', u)
          PROVE  Remaining'[u] = Remaining[u] - (IF e > 0 THEN e ELSE 0)
      <4>1. Remaining[u] = tm[u].count
        BY <1>2, RemainingCount
      <4>2. tm[u].count \in Int
        BY DEF IInv, TypeOK, TypeLists, TimerRec
      <4>3. CASE e > 0
        <5>1. Member(todo', u)
          BY <1>1, <3>3, <3>4, <4>3
        <5> QED BY <1>1, <3>3, <4>1, <4>2, <4>3, <5>1 DEF Remaining
      <4>4. CASE ~(e > 0)
        <5>1. ~Member(todo', u)
          BY <3>3, <4>4 DEF Member
        <5> QED BY <1>1, <4>1, <4>2, <4>4, <5>1 DEF Remaining
      <4> QED BY <4>3, <4>4
    <3>5. (IF e > 0 THEN e ELSE 0) \in Int
      BY <3>2
    <3> QED BY <1>1, <3>4, <3>5, OrderKept DEF AlarmInv
  <2> QED BY <1>1, <2>1, <2>2
<1>4. TimeLeft'
  BY <1>1 DEF AlarmInv, TimeLeft, Member
<1>5. PassComes' /\ Covered'
  <2>1. pc' = "finish" => todo' = todo
    BY DEF BeginPass
  <2> QED BY <1>1, <1>2, <2>1 DEF PassComes, Covered
<1> QED BY <1>3, <1>4, <1>5 DEF AlarmInv

(* The end of handle_alarm: the first timer of the main list bounds the    *)
(* others, so the alarm it is given covers them all.                       *)
LEMMA FinishPassAlarm ==
    ASSUME IInv, IInv', AlarmInv, FinishPass PROVE AlarmInv'
<1>1. /\ tm' = tm /\ timers' = timers /\ recycled' = recycled /\ todo' = todo
      /\ cur' = cur /\ elapsed' = elapsed /\ pc = "finish" /\ pc' # "callback"
      /\ alarm_pending' = alarm_pending
      /\ current_timeout' = NextTimeout /\ alarm' = NextAlarm
  BY DEF FinishPass, lists
<1>2. todo = <<>> /\ ~alarm_pending
  BY <1>1 DEF AlarmInv, PassComes, IInv, PassExcluded
<1>3. TimersSorted'
  BY <1>1, OrderStands DEF AlarmInv
<1>4. TimeLeft'
  BY <1>1 DEF AlarmInv, TimeLeft, Member
<1>5. PassComes'
  BY <1>1, <1>2 DEF AlarmInv, PassComes
<1>6. Covered'
  <2> SUFFICES ASSUME NEW t \in Slots, Member(timers, t)
               PROVE  /\ NextAlarm # NoAlarm
                      /\ 0 < NextTimeout /\ NextTimeout <= tm[t].count
    BY <1>1 DEF Covered, Member
  <2>1. PICK i \in 1..Len(timers) : timers[i] = t
    BY DEF Member
  <2>2. /\ timers \in Seq(Slots) /\ timers # <<>>
        /\ 1 \in 1..Len(timers) /\ timers[1] \in Slots /\ Member(timers, timers[1])
    <3>1. timers \in Seq(Slots)
      BY DEF IInv, TypeOK, TypeLists
    <3>2. timers # <<>> /\ 1 \in 1..Len(timers) /\ timers[1] \in Slots
      BY <2>1, <3>1
    <3> QED BY <3>1, <3>2 DEF Member
  <2>3. PICK h : h = timers[1]
    OBVIOUS
  <2>4. tm[h].count \in Int /\ tm[t].count \in Int
    BY <2>2, <2>3 DEF IInv, TypeOK, TypeLists, TimerRec
  <2>5. tm[h].count > 0
    BY <1>1, <2>2, <2>3 DEF AlarmInv, TimeLeft
  <2>6. tm[h].count <= tm[t].count
    <3>1. CASE i = 1
      BY <2>1, <2>3, <2>4, <3>1
    <3>2. CASE i # 1
      <4>1. Remaining[h] <= Remaining[t]
        BY <2>1, <2>2, <2>3, <3>2 DEF AlarmInv, TimersSorted, Sorted
      <4>2. Remaining[h] = tm[h].count /\ Remaining[t] = tm[t].count
        BY <1>2, <2>2, <2>3, RemainingCount
      <4> QED BY <4>1, <4>2
    <3> QED BY <3>1, <3>2
  <2>7. NextTimeout = IF tm[h].count > AlarmCap THEN AlarmCap ELSE tm[h].count
    BY <2>2, <2>3 DEF NextTimeout
  <2>8. NextTimeout \in Int /\ 0 < NextTimeout /\ NextTimeout <= tm[h].count
    BY <2>4, <2>5, <2>7, TimersAssumption
  <2> QED BY <2>4, <2>6, <2>8 DEF NextAlarm, NoAlarm
<1> QED BY <1>3, <1>4, <1>5, <1>6 DEF AlarmInv

(* timers_init starts afresh. *)
LEMMA timers_initAlarm ==
    ASSUME IInv, IInv', AlarmInv, timers_init PROVE AlarmInv'
<1>1. /\ timers' = <<>> /\ recycled' = <<>> /\ todo' = todo /\ pc' = pc
  BY DEF timers_init, pass
<1>2. TimersSorted'
  BY <1>1 DEF TimersSorted, Sorted
<1>3. TimeLeft' /\ PassComes' /\ Covered'
  BY <1>1 DEF AlarmInv, TimeLeft, PassComes, Covered, Member
<1> QED BY <1>2, <1>3 DEF AlarmInv

(* Marking timers changes neither a list nor a count. *)
LEMMA MarkingAlarm ==
    ASSUME IInv, IInv', AlarmInv,
           pc = "callback",
           \A u \in Slots : tm'[u].count = tm[u].count /\ tm'[u].interval = tm[u].interval,
           UNCHANGED <<timers, recycled, signals, clock, pass, pc>>
    PROVE  AlarmInv'
<1>1. \A u \in Slots : Remaining'[u] = Remaining[u]
  BY DEF Remaining, Member, pass
<1>2. \A u \in Slots : Remaining[u] = Remaining[u] - 0
  BY RemainingType
<1>3. TimersSorted'
  BY <1>1, <1>2, OrderKept DEF AlarmInv
<1>4. TimeLeft'
  BY DEF AlarmInv, TimeLeft, Member, pass
<1>5. PassComes' /\ Covered'
  BY DEF AlarmInv, PassComes, Covered, pass, signals
<1> QED BY <1>3, <1>4, <1>5 DEF AlarmInv

(* pr_timer_remove from a callback. *)
LEMMA RemoveInDispatchAlarm ==
    ASSUME IInv, IInv', AlarmInv, pr_timer_remove_in_dispatch PROVE AlarmInv'
<1>1. PICK t \in Slots : tm' = [tm EXCEPT ![t].remove = TRUE]
  BY DEF pr_timer_remove_in_dispatch
<1>2. \A u \in Slots : tm'[u].count = tm[u].count /\ tm'[u].interval = tm[u].interval
  BY <1>1 DEF IInv, TypeOK, TypeLists, TimerRec
<1> QED BY <1>2, MarkingAlarm, Zenon DEF pr_timer_remove_in_dispatch

(* pr_timer_remove(-1, m) from a callback. *)
LEMMA RemoveModuleInDispatchAlarm ==
    ASSUME IInv, IInv', AlarmInv, RemoveModuleInDispatch PROVE AlarmInv'
<1>1. PICK hit : tm' = [t \in Slots |-> IF t \in hit THEN [tm[t] EXCEPT !.remove = TRUE]
                                        ELSE tm[t]]
  BY DEF RemoveModuleInDispatch
<1>2. ASSUME NEW u \in Slots
      PROVE  tm'[u].count = tm[u].count /\ tm'[u].interval = tm[u].interval
  <2>1. tm[u] \in TimerRec
    BY DEF IInv, TypeOK, TypeLists
  <2>2. tm'[u] = [tm[u] EXCEPT !.remove = TRUE] \/ tm'[u] = tm[u]
    BY <1>1
  <2> QED BY <2>1, <2>2 DEF TimerRec
<1> QED BY <1>2, MarkingAlarm, Zenon DEF RemoveModuleInDispatch

(* Taking a timer off the main list leaves the others in order.            *)
LEMMA RemovalAlarm ==
    ASSUME IInv, IInv', AlarmInv, NEW t \in Slots,
           timers' = xaset_remove(timers, t),
           \A u \in Slots : u # t => tm'[u] = tm[u],
           todo' = todo, elapsed' = elapsed
    PROVE  /\ TimersSorted'
           /\ \A u : Member(timers', u) <=> Member(timers, u) /\ u # t
<1>1. \A u : Member(timers', u) <=> Member(timers, u) /\ u # t
  BY RemoveMembers DEF IInv, TypeOK, TypeLists, OneList
<1>2. \A u \in Slots : Member(timers', u) => Remaining'[u] = Remaining[u]
  BY <1>1 DEF Remaining, Member
<1>3. \A u \in Slots : Remaining[u] = Remaining[u] - 0
  BY RemainingType
<1>4. TimersSorted'
  <2>1. \E x : timers' = xaset_remove(timers, x)
    OBVIOUS
  <2>2. \A u \in Slots : Member(timers', u) => Remaining'[u] = Remaining[u] - 0
    BY <1>2, <1>3
  <2> QED BY <2>1, <2>2, OrderKept DEF AlarmInv
<1> QED BY <1>1, <1>4

(* A list operation of the program is followed by a pass, or leaves        *)
(* alarm_pending behind for the one who unblocks alarms.                   *)
LEMMA ReadjustAlarm ==
    ASSUME AlarmInv, pc = "run", Readjust, todo' = todo
    PROVE  PassComes' /\ Covered' /\ pc' # "callback"
  BY DEF AlarmInv, PassComes, Covered, Readjust

(* pr_timer_remove from the program. *)
LEMMA pr_timer_removeAlarm ==
    ASSUME IInv, IInv', AlarmInv, pr_timer_remove PROVE AlarmInv'
<1>1. PICK t \in Slots : timers' = xaset_remove(timers, t)
  BY DEF pr_timer_remove
<1>2. /\ tm' = tm /\ recycled' = recycled /\ todo' = todo /\ elapsed' = elapsed
      /\ pc = "run" /\ Readjust
  BY DEF pr_timer_remove, pass
<1>3. TimersSorted' /\ \A u : Member(timers', u) <=> Member(timers, u) /\ u # t
  BY <1>1, <1>2, RemovalAlarm
<1>4. PassComes' /\ Covered' /\ pc' # "callback"
  BY <1>2, ReadjustAlarm
<1>5. TimeLeft'
  BY <1>2, <1>3, <1>4 DEF AlarmInv, TimeLeft
<1> QED BY <1>3, <1>4, <1>5 DEF AlarmInv

(* One timer of a module that is being unloaded. *)
LEMMA RemoveModuleTimerAlarm ==
    ASSUME IInv, IInv', AlarmInv, RemoveModuleTimer PROVE AlarmInv'
<1>1. PICK t \in Slots : timers' = xaset_remove(timers, t)
  BY DEF RemoveModuleTimer
<1>2. /\ tm' = tm /\ recycled' = recycled /\ todo' = todo /\ elapsed' = elapsed
      /\ pc = "remove_all" /\ pc' = pc /\ alarm_pending'
  BY DEF RemoveModuleTimer, pass
<1>3. TimersSorted' /\ \A u : Member(timers', u) <=> Member(timers, u) /\ u # t
  BY <1>1, <1>2, RemovalAlarm
<1>4. PassComes' /\ Covered'
  BY <1>2 DEF AlarmInv, PassComes, Covered
<1>5. TimeLeft'
  BY <1>2, <1>3 DEF AlarmInv, TimeLeft
<1> QED BY <1>3, <1>4, <1>5 DEF AlarmInv

(* A callback that returns 0. *)
LEMMA CallbackDoneAlarm ==
    ASSUME IInv, IInv', AlarmInv, CallbackDone PROVE AlarmInv'
<1>1. /\ tm' = tm /\ recycled' = recycled /\ todo' = todo /\ elapsed' = elapsed
      /\ pc = "callback" /\ pc' = "loop" /\ cur \in Slots
      /\ timers' = xaset_remove(timers, cur)
  BY DEF CallbackDone, pass, IInv, TypeOK, TypePass
<1>2. TimersSorted' /\ \A u : Member(timers', u) <=> Member(timers, u) /\ u # cur
  BY <1>1, RemovalAlarm
<1>3. PassComes' /\ Covered'
  BY <1>1 DEF PassComes, Covered
<1>4. TimeLeft'
  BY <1>1, <1>2 DEF AlarmInv, TimeLeft
<1> QED BY <1>2, <1>3, <1>4 DEF AlarmInv

(* A timer that starts again has its whole interval before it.             *)
LEMMA IntervalRestored ==
    ASSUME IInv, AlarmInv, NEW t \in Slots, Member(timers, t)
    PROVE  /\ \A u \in Slots : u # t => [tm EXCEPT ![t].count = tm[t].interval][u] = tm[u]
           /\ [tm EXCEPT ![t].count = tm[t].interval][t].count > 0
           /\ [tm EXCEPT ![t].count = tm[t].interval][t].interval > 0
<1>1. tm[t] \in TimerRec /\ tm \in [Slots -> TimerRec] /\ tm[t].interval > 0
  BY DEF IInv, TypeOK, TypeLists, AlarmInv, TimeLeft
<1>2. [tm EXCEPT ![t].count = tm[t].interval][t] = [tm[t] EXCEPT !.count = tm[t].interval]
  BY <1>1
<1>3. /\ [tm[t] EXCEPT !.count = tm[t].interval].count = tm[t].interval
      /\ [tm[t] EXCEPT !.count = tm[t].interval].interval = tm[t].interval
  BY <1>1 DEF TimerRec
<1> QED BY <1>1, <1>2, <1>3

(* A callback that returns nonzero. *)
LEMMA CallbackRestartAlarm ==
    ASSUME IInv, IInv', AlarmInv, CallbackRestart PROVE AlarmInv'
<1>1. /\ tm' = [tm EXCEPT ![cur].count = tm[cur].interval]
      /\ recycled' = xaset_insert(recycled, cur)
      /\ todo' = todo /\ elapsed' = elapsed
      /\ pc = "callback" /\ pc' = "loop" /\ cur \in Slots /\ Member(timers, cur)
      /\ timers' = xaset_remove(timers, cur)
  BY DEF CallbackRestart, pass, IInv, TypeOK, TypePass, PassOnTrack
<1>2. /\ \A u \in Slots : u # cur => tm'[u] = tm[u]
      /\ tm'[cur].count > 0 /\ tm'[cur].interval > 0
  BY <1>1, IntervalRestored
<1>3. TimersSorted' /\ \A u : Member(timers', u) <=> Member(timers, u) /\ u # cur
  BY <1>1, <1>2, RemovalAlarm
<1>4. \A u : Member(recycled', u) <=> Member(recycled, u) \/ u = cur
  BY <1>1, InsertMembers DEF IInv, TypeOK, TypeLists
<1>5. PassComes' /\ Covered'
  BY <1>1 DEF PassComes, Covered
<1>6. TimeLeft'
  BY <1>1, <1>2, <1>3, <1>4 DEF AlarmInv, TimeLeft
<1> QED BY <1>3, <1>5, <1>6 DEF AlarmInv

(* pr_timer_reset. *)
LEMMA pr_timer_resetAlarm ==
    ASSUME IInv, IInv', AlarmInv, pr_timer_reset PROVE AlarmInv'
<1>1. PICK t \in Slots : /\ Member(timers, t)
                         /\ tm' = [tm EXCEPT ![t].count = tm[t].interval]
                         /\ timers' = xaset_remove(timers, t)
                         /\ recycled' = xaset_insert(recycled, t)
  BY DEF pr_timer_reset, FirstMatch, Member
<1>2. /\ todo' = todo /\ elapsed' = elapsed /\ pc = "run" /\ Readjust
  BY DEF pr_timer_reset, pass
<1>3. /\ \A u \in Slots : u # t => tm'[u] = tm[u]
      /\ tm'[t].count > 0 /\ tm'[t].interval > 0
  BY <1>1, IntervalRestored
<1>4. TimersSorted' /\ \A u : Member(timers', u) <=> Member(timers, u) /\ u # t
  BY <1>1, <1>2, <1>3, RemovalAlarm
<1>5. \A u : Member(recycled', u) <=> Member(recycled, u) \/ u = t
  BY <1>1, InsertMembers DEF IInv, TypeOK, TypeLists
<1>6. PassComes' /\ Covered' /\ pc' # "callback"
  BY <1>2, ReadjustAlarm
<1>7. TimeLeft'
  BY <1>2, <1>3, <1>4, <1>5, <1>6 DEF AlarmInv, TimeLeft
<1> QED BY <1>4, <1>6, <1>7 DEF AlarmInv

(* One struct of the loop: what remains of its timer does not change when  *)
(* the elapsed time is taken from its count and it leaves those to visit.  *)
LEMMA VisitTimerAlarm ==
    ASSUME IInv, IInv', AlarmInv, VisitTimer PROVE AlarmInv'
<1>0. PICK t : t = Head(todo)
  OBVIOUS
<1>1. /\ t \in Slots /\ Member(todo, t)
      /\ \A u : Member(Tail(todo), u) <=> Member(todo, u) /\ u # t
      /\ Member(timers, t)
  BY <1>0, TailMembers DEF IInv, TypeOK, TypePass, PassOnTrack, VisitTimer
<1>2. /\ todo' = Tail(todo) /\ pc = "loop" /\ pc' \in {"loop", "callback"}
      /\ recycled' = recycled /\ elapsed' = elapsed
      /\ timers' = timers \/ timers' = xaset_remove(timers, t)
      /\ tm' = tm \/ tm' = [tm EXCEPT ![t].count = tm[t].count - elapsed]
      /\ \/ timers' = xaset_remove(timers, t)
         \/ /\ tm' = [tm EXCEPT ![t].count = tm[t].count - elapsed]
            /\ tm[t].count - elapsed > 0 \/ (pc' = "callback" /\ cur' = t)
  BY <1>0 DEF VisitTimer
<1>3. tm \in [Slots -> TimerRec] /\ tm[t] \in TimerRec /\ elapsed \in Int /\ tm[t].count \in Int
  BY <1>1 DEF IInv, TypeOK, TypeLists, TypePass, TimerRec
<1>4. \A u : Member(xaset_remove(timers, t), u) <=> Member(timers, u) /\ u # t
  BY RemoveMembers DEF IInv, TypeOK, TypeLists, OneList
<1>5. \A u \in Slots : u # t => tm'[u] = tm[u]
  BY <1>1, <1>2, <1>3
<1>6. tm' = [tm EXCEPT ![t].count = tm[t].count - elapsed] =>
         tm'[t].count = tm[t].count - elapsed /\ tm'[t].interval = tm[t].interval
  <2>1. [tm EXCEPT ![t].count = tm[t].count - elapsed][t] =
            [tm[t] EXCEPT !.count = tm[t].count - elapsed]
    BY <1>1, <1>3
  <2>2. /\ [tm[t] EXCEPT !.count = tm[t].count - elapsed].count = tm[t].count - elapsed
        /\ [tm[t] EXCEPT !.count = tm[t].count - elapsed].interval = tm[t].interval
    BY <1>3 DEF TimerRec
  <2> QED BY <2>1, <2>2
<1>7. TimersSorted'
  <2>1. ASSUME NEW u \in Slots, Member(timers', u)
        PROVE  Remaining'[u] = Remaining[u]
    <3>1. CASE u # t
      <4>1. Member(todo', u) <=> Member(todo, u)
        BY <1>1, <1>2, <3>1
      <4> QED BY <1>2, <1>5, <3>1, <4>1 DEF Remaining
    <3>2. CASE u = t
      <4>1. tm'[t].count = tm[t].count - elapsed
        BY <1>2, <1>4, <1>6, <2>1, <3>2
      <4>2. ~Member(todo', t)
        BY <1>1, <1>2
      <4>3. Remaining'[t] = (tm[t].count - elapsed) - 0
        BY <1>1, <4>1, <4>2 DEF Remaining
      <4>4. Remaining[t] = tm[t].count - elapsed
        BY <1>1 DEF Remaining
      <4> QED BY <1>3, <3>2, <4>3, <4>4
    <3> QED BY <3>1, <3>2
  <2>2. \A u \in Slots : Remaining[u] = Remaining[u] - 0
    BY RemainingType
  <2>3. timers' = timers \/ \E x : timers' = xaset_remove(timers, x)
    BY <1>2
  <2>4. \A u \in Slots : Member(timers', u) => Remaining'[u] = Remaining[u] - 0
    BY <2>1, <2>2
  <2> QED BY <2>3, <2>4, OrderKept DEF AlarmInv
<1>8. PassComes' /\ Covered'
  BY <1>2 DEF PassComes, Covered
<1>9. TimeLeft'
  <2>1. ~Member(recycled, t)
    BY <1>1 DEF IInv, OneList, Disjoint
  <2> SUFFICES ASSUME NEW u \in Slots
               PROVE  /\ Member(timers', u) \/ Member(recycled', u) => tm'[u].interval > 0
                      /\ Member(timers', u) =>
                            tm'[u].count > 0 \/ (pc' = "callback" /\ u = cur')
                      /\ Member(recycled', u) => tm'[u].count > 0
    BY DEF TimeLeft
  <2>2. CASE u # t
    <3>1. tm'[u] = tm[u] /\ (Member(timers', u) => Member(timers, u)) /\ recycled' = recycled
      BY <1>2, <1>4, <1>5, <2>2
    <3> QED BY <1>2, <3>1 DEF AlarmInv, TimeLeft
  <2>3. CASE u = t
    <3>1. tm[t].interval > 0
      BY <1>1 DEF AlarmInv, TimeLeft
    <3> QED BY <1>2, <1>4, <1>6, <2>1, <2>3, <3>1
  <2> QED BY <2>2, <2>3
<1> QED BY <1>7, <1>8, <1>9 DEF AlarmInv

(* xaset_insert_sort, of a timer that was not on the main list.            *)
LEMMA InsertionAlarm ==
    ASSUME IInv, IInv', AlarmInv, NEW t \in Slots, ~Member(timers, t),
           timers' = xaset_insert_sort(timers, t, tm'),
           \A u \in Slots : u # t => tm'[u].count = tm[u].count,
           todo = <<>>, todo' = <<>>
    PROVE  /\ TimersSorted'
           /\ \A u : Member(timers', u) <=> Member(timers, u) \/ u = t
<1>1. PICK rec, f, g : rec = tm' /\ f = Remaining /\ g = Remaining'
  OBVIOUS
<1>2. f \in [Slots -> Int] /\ \A u \in Slots : f[u] = tm[u].count
  BY <1>1, RemainingType, RemainingCount
<1>3. g \in [Slots -> Int] /\ \A u \in Slots : rec[u].count = g[u]
  <2>1. \A u \in Slots : tm'[u].count \in Int
    BY DEF IInv, TypeOK, TypeLists, TimerRec
  <2>2. (IInv => Remaining \in [Slots -> Int])'
    BY RemainingType, PTL
  <2>3. \A u \in Slots : Remaining'[u] = tm'[u].count
    BY <2>1 DEF Remaining, Member
  <2> QED BY <1>1, <2>2, <2>3
<1>4. timers \in Seq(Slots)
  BY DEF IInv, TypeOK, TypeLists
<1>5. Sorted(timers, g)
  <2> SUFFICES ASSUME NEW i \in 1..Len(timers), NEW j \in 1..Len(timers), i < j
               PROVE  g[timers[i]] <= g[timers[j]]
    BY DEF Sorted
  <2>1. /\ timers[i] \in Slots /\ timers[j] \in Slots
        /\ timers[i] # t /\ timers[j] # t
    BY <1>4 DEF Member
  <2>2. f[timers[i]] <= f[timers[j]]
    BY <1>1 DEF AlarmInv, TimersSorted, Sorted
  <2> QED BY <1>1, <1>2, <1>3, <2>1, <2>2
<1>6. Sorted(xaset_insert_sort(timers, t, rec), g)
  BY <1>3, <1>4, <1>5, SortedInsert
<1>7. Inserted(Slots, timers, t, xaset_insert_sort(timers, t, rec))
  <2>1. \A u \in Slots : rec[u].count \in Int
    BY <1>3
  <2> QED BY <1>4, <2>1, SortedInsertMembers, Zenon
<1>8. timers' = xaset_insert_sort(timers, t, rec)
  BY <1>1
<1> QED BY <1>1, <1>6, <1>7, <1>8, Zenon DEF TimersSorted, Inserted

(* A new timer has its whole interval before it. *)
LEMMA NewTimerTime ==
    ASSUME NEW id, NEW s \in Seconds, NEW m, NEW cb, NEW prev
    PROVE  NewTimer(id, s, m, cb, prev).count > 0 /\ NewTimer(id, s, m, cb, prev).interval > 0
  BY TimersAssumption DEF NewTimer

(* The common part of pr_timer_add and pr_timer_sleep. *)
LEMMA AddTimerAlarm ==
    ASSUME IInv, IInv', AlarmInv, pc = "run", NEW id, NEW s \in Seconds, NEW m, NEW cb,
           AddTimer(id, s, m, cb)
    PROVE  AlarmInv'
<1>1. PICK t \in Slots, prev \in {"null", "junk"} :
         /\ TakeStruct(t, prev)
         /\ tm' = [tm EXCEPT ![t] = NewTimer(id, s, m, cb, "null")]
         /\ timers' = xaset_insert_sort(timers, t, tm')
  BY DEF AddTimer
<1>2. ~Member(timers, t) /\ ~Member(recycled, t)
  BY <1>1, StructTaken
<1>3. recycled' = recycled /\ todo' = todo /\ Readjust /\ todo = <<>>
  BY DEF AddTimer, pass, AlarmInv, PassComes
<1>4. /\ \A u \in Slots : u # t => tm'[u] = tm[u]
      /\ tm'[t].count > 0 /\ tm'[t].interval > 0
  BY <1>1, NewTimerTime DEF IInv, TypeOK, TypeLists
<1>5. \A u \in Slots : u # t => tm'[u].count = tm[u].count
  BY <1>4
<1>6. TimersSorted' /\ \A u : Member(timers', u) <=> Member(timers, u) \/ u = t
  BY <1>1, <1>2, <1>3, <1>5, InsertionAlarm
<1>7. PassComes' /\ Covered' /\ pc' # "callback"
  BY <1>3, ReadjustAlarm
<1>8. TimeLeft'
  BY <1>2, <1>3, <1>4, <1>6, <1>7 DEF AlarmInv, TimeLeft
<1> QED BY <1>6, <1>7, <1>8 DEF AlarmInv

(* pr_timer_add from a callback. *)
LEMMA AddInDispatchAlarm ==
    ASSUME IInv, IInv', AlarmInv, pr_timer_add_in_dispatch PROVE AlarmInv'
<1>1. PICK id \in Ids \cup {Dynamic}, s \in Seconds, m \in Modules,
           t \in Slots, prev \in {"null", "junk"} :
         /\ TakeStruct(t, prev)
         /\ tm' = [tm EXCEPT ![t] = NewTimer(id, s, m, "user", prev)]
         /\ recycled' = xaset_insert(recycled, t)
  BY DEF pr_timer_add_in_dispatch
<1>2. ~Member(timers, t) /\ ~Member(recycled, t)
  BY <1>1, StructTaken
<1>3. /\ timers' = timers /\ todo' = todo /\ elapsed' = elapsed /\ cur' = cur
      /\ pc = "callback" /\ pc' = pc
  BY DEF pr_timer_add_in_dispatch, pass
<1>4. /\ \A u \in Slots : u # t => tm'[u] = tm[u]
      /\ tm'[t].count > 0 /\ tm'[t].interval > 0
  BY <1>1, NewTimerTime DEF IInv, TypeOK, TypeLists
<1>5. \A u : Member(recycled', u) <=> Member(recycled, u) \/ u = t
  BY <1>1, InsertMembers DEF IInv, TypeOK, TypeLists
<1>6. TimersSorted'
  <2>1. \A u \in Slots : Member(timers', u) => Remaining'[u] = Remaining[u]
    BY <1>2, <1>3, <1>4 DEF Remaining
  <2>2. \A u \in Slots : Remaining[u] = Remaining[u] - 0
    BY RemainingType
  <2> QED BY <1>3, <2>1, <2>2, OrderKept DEF AlarmInv
<1>7. PassComes' /\ Covered'
  BY <1>3 DEF PassComes, Covered
<1>8. TimeLeft'
  BY <1>2, <1>3, <1>4, <1>5 DEF AlarmInv, TimeLeft
<1> QED BY <1>6, <1>7, <1>8 DEF AlarmInv

(* A struct put back from recycled. *)
LEMMA RespliceAlarm ==
    ASSUME IInv, IInv', AlarmInv, Resplice PROVE AlarmInv'
<1>0. PICK t : t = Head(recycled)
  OBVIOUS
<1>1. /\ t \in Slots /\ Member(recycled, t) /\ ~Member(timers, t)
      /\ \A u : Member(Tail(recycled), u) <=> Member(recycled, u) /\ u # t
  BY <1>0, TailMembers DEF IInv, TypeOK, TypeLists, OneList, Disjoint, Resplice
<1>2. /\ todo = <<>> /\ todo' = <<>> /\ elapsed' = elapsed /\ pc = "loop" /\ cur' = cur
  BY DEF Resplice, pass
<1>3. CASE tm[t].prev = "junk"
  <2>1. tm' = tm /\ timers' = timers /\ recycled' = recycled /\ pc' = "corrupt"
    BY <1>0, <1>3 DEF Resplice
  <2>2. TimersSorted'
    BY <1>2, <2>1, OrderStands DEF AlarmInv
  <2>3. PassComes' /\ Covered'
    BY <1>2, <2>1 DEF PassComes, Covered
  <2>4. TimeLeft'
    BY <1>2, <2>1 DEF AlarmInv, TimeLeft, Member
  <2> QED BY <2>2, <2>3, <2>4 DEF AlarmInv
<1>4. CASE tm[t].prev # "junk"
  <2>1. /\ recycled' = Tail(recycled) /\ pc' = pc
        /\ timers' = xaset_insert_sort(timers, t, tm)
        /\ tm' = PrevWritten(Tail(recycled))
    BY <1>0, <1>4 DEF Resplice
  <2>2. ASSUME NEW u \in Slots
        PROVE  tm'[u].count = tm[u].count /\ tm'[u].interval = tm[u].interval
    <3>1. tm[u] \in TimerRec
      BY DEF IInv, TypeOK, TypeLists
    <3>2. tm'[u] = [tm[u] EXCEPT !.prev = "null"] \/ tm'[u] = tm[u]
      BY <2>1 DEF PrevWritten
    <3> QED BY <3>1, <3>2 DEF TimerRec
  <2>3. xaset_insert_sort(timers, t, tm) = xaset_insert_sort(timers, t, tm')
    <3>1. timers \in Seq(Slots)
      BY DEF IInv, TypeOK, TypeLists
    <3>2. \A i \in 1..Len(timers) : tm'[timers[i]].count = tm[timers[i]].count
      BY <2>2, <3>1
    <3>3. SortPosition(timers, t, tm) = SortPosition(timers, t, tm')
      BY <1>1, <2>2, <3>1, <3>2 DEF SortPosition
    <3> QED BY <3>3 DEF xaset_insert_sort
  <2>4. \A u \in Slots : u # t => tm'[u].count = tm[u].count
    BY <2>2
  <2>5. TimersSorted' /\ \A u : Member(timers', u) <=> Member(timers, u) \/ u = t
    BY <1>1, <1>2, <2>1, <2>3, <2>4, InsertionAlarm
  <2>6. PassComes' /\ Covered'
    BY <1>2, <2>1 DEF PassComes, Covered
  <2>7. TimeLeft'
    BY <1>1, <1>2, <2>1, <2>2, <2>5 DEF AlarmInv, TimeLeft
  <2> QED BY <2>5, <2>6, <2>7 DEF AlarmInv
<1> QED BY <1>3, <1>4

(* Every step preserves the invariant. *)
LEMMA NextAlarmInv == IInv /\ AlarmInv /\ [Next]_vars => AlarmInv'
<1> SUFFICES ASSUME IInv, AlarmInv, [Next]_vars PROVE AlarmInv'
  OBVIOUS
<1>0. IInv'
  BY NextInvariant
<1>1. CASE UNCHANGED vars
  <2>1. /\ tm' = tm /\ timers' = timers /\ recycled' = recycled /\ todo' = todo
        /\ elapsed' = elapsed /\ cur' = cur /\ pc' = pc
        /\ alarm_pending' = alarm_pending /\ alarm' = alarm
        /\ current_timeout' = current_timeout
    BY <1>1 DEF vars, lists, signals, clock, pass
  <2>2. TimersSorted'
    BY <1>0, <2>1, OrderStands DEF AlarmInv
  <2>3. TimeLeft' /\ PassComes' /\ Covered'
    BY <2>1 DEF AlarmInv, TimeLeft, PassComes, Covered, Member
  <2> QED BY <2>2, <2>3 DEF AlarmInv
<1>2. CASE Tick \/ sig_alarm
  BY <1>0, <1>2, TickAlarm, sig_alarmAlarm
<1>3. CASE Internal
  BY <1>0, <1>3, BeginPassAlarm, VisitTimerAlarm, CallbackDoneAlarm,
     CallbackRestartAlarm, RespliceAlarm, EndPassAlarm, FinishPassAlarm,
     RemoveModuleTimerAlarm, RemoveModuleEndAlarm, SleepCheckAlarm,
     SleepWokenAlarm DEF Internal
<1>4. CASE pr_timer_add \/ pr_timer_sleep
  BY <1>0, <1>4, AddTimerAlarm DEF pr_timer_add, pr_timer_sleep
<1>5. CASE Interface /\ ~(pr_timer_add \/ pr_timer_sleep)
  BY <1>0, <1>5, HandleSignalsAlarm, AddInDispatchAlarm, pr_timer_resetAlarm,
     pr_timer_removeAlarm, RemoveInDispatchAlarm, RemoveModuleBeginAlarm,
     RemoveModuleInDispatchAlarm, pr_alarms_blockAlarm, pr_alarms_unblockAlarm,
     timers_initAlarm DEF Interface
<1> QED BY <1>1, <1>2, <1>3, <1>4, <1>5 DEF Next

-----------------------------------------------------------------------------
(* The variables of timers.c keep their types; in particular               *)
(* alarms_blocked and _indispatch never underflow.                         *)
THEOREM TypeCorrect == Spec => []TypeOK
<1>1. IInv => TypeOK
  BY DEF IInv
<1> QED BY <1>1, Invariance, PTL

(* A struct timer is on at most one list, once, whatever the callbacks of  *)
(* a pass add, remove and restart.                                         *)
THEOREM ListIntegrity == Spec => []OneList
<1>1. IInv => OneList
  BY DEF IInv
<1> QED BY <1>1, Invariance, PTL

(* The pass of process_timers never follows a pointer off the main list.   *)
THEOREM PassSound == Spec => []PassOnTrack
<1>1. IInv => PassOnTrack
  BY DEF IInv
<1> QED BY <1>1, Invariance, PTL

(* Passes exclude each other and the critical sections that                *)
(* pr_alarms_block opens.                                                  *)
THEOREM PassExclusion == Spec => []PassExcluded
<1>1. IInv => PassExcluded
  BY DEF IInv
<1> QED BY <1>1, Invariance, PTL

(* No lost wakeup: whenever the program runs outside timer code and no     *)
(* handle_alarm is pending, alarm(2) is set if there is a timer, and goes  *)
(* off before any of them is due.                                          *)
THEOREM NoLostWakeup == Spec => []AlarmSet
<1>1. IInv /\ AlarmInv => AlarmSet
  <2> SUFFICES ASSUME IInv, AlarmInv, pc \in {"run", "sleep_check", "suspend"},
                      ~alarm_pending
               PROVE  /\ recycled = <<>>
                      /\ timers # <<>> => alarm # NoAlarm
                      /\ \A i \in 1..Len(timers) : current_timeout <= tm[timers[i]].count
    BY DEF AlarmSet
  <2>1. recycled = <<>>
    BY DEF AlarmInv, PassComes
  <2>2. \A t \in Slots : Member(timers, t) =>
            alarm # NoAlarm /\ current_timeout <= tm[t].count
    BY DEF AlarmInv, Covered
  <2>3. timers \in Seq(Slots)
    BY DEF IInv, TypeOK, TypeLists
  <2>4. timers # <<>> => \E t \in Slots : Member(timers, t)
    BY <2>3, EmptyMembers
  <2>5. \A i \in 1..Len(timers) : timers[i] \in Slots /\ Member(timers, timers[i])
    BY <2>3 DEF Member
  <2> QED BY <2>1, <2>2, <2>4, <2>5
<1> QED BY <1>1, InitInvariant, NextInvariant, InitAlarm, NextAlarmInv, PTL DEF Spec

(* A timer that pr_timer_remove has removed is never invoked afterwards.   *)
THEOREM NoRunAfterRemove == Spec => RemovedNeverRuns
<1>1. IInv /\ [Next]_vars => [pc # "callback" /\ pc' = "callback" => cur' \notin gone]_vars
  <2> SUFFICES ASSUME IInv, Next, pc # "callback", pc' = "callback"
               PROVE  cur' \notin gone
    OBVIOUS
  <2>1. VisitTimer
    BY DEF Next, Internal, Interface, Tick, sig_alarm, BeginPass, CallbackDone,
           CallbackRestart, Resplice, EndPass, FinishPass, RemoveModuleTimer,
           RemoveModuleEnd, SleepCheck, SleepWoken, HandleSignals, pr_timer_add,
           pr_timer_add_in_dispatch, pr_timer_reset, pr_timer_remove,
           pr_timer_remove_in_dispatch, RemoveModuleBegin, RemoveModuleInDispatch,
           pr_alarms_block, pr_alarms_unblock, pr_timer_sleep, timers_init,
           AddTimer, Readjust, Unblock, EnterHandleAlarm
  <2>2. cur' = Head(todo) /\ ~tm[Head(todo)].remove
    BY <2>1 DEF VisitTimer, Marked
  <2>3. Member(timers, Head(todo))
    <3>1. todo \in Seq(Slots) /\ todo # <<>> /\ Distinct(todo)
      BY <2>1 DEF IInv, TypeOK, TypePass, PassOnTrack, VisitTimer
    <3>2. Head(todo) \in Slots /\ Member(todo, Head(todo))
      BY <3>1, TailMembers
    <3> QED BY <2>1, <3>2 DEF IInv, PassOnTrack, VisitTimer
  <2> QED BY <2>2, <2>3 DEF IInv, GoneMarked
<1> QED BY <1>1, Invariance, PTL DEF Spec, RemovedNeverRuns
=============================================================================
