---------------------------- MODULE EventsProofs ----------------------------
(***************************************************************************)
(* Proofs about Events, for any events, handlers and nesting.              *)
(***************************************************************************)
EXTENDS Events, FiniteSetTheorems, WellFoundedInduction, TLAPS

(* A set of numbers that is not empty has a smallest one.                  *)
LEMMA Least ==
  ASSUME NEW T \in SUBSET Nat, T # {}
  PROVE  \E n \in T : \A m \in T : n <= m
<1>1. \E x \in T : \A y \in T : ~(<<y, x>> \in OpToRel(<, Nat))
  BY NatLessThanWellFounded, WFMin
<1>2. PICK x \in T : \A y \in T : ~(<<y, x>> \in OpToRel(<, Nat))
  BY <1>1
<1>3. \A y \in T : ~(y < x)
  BY <1>2 DEF OpToRel
<1> QED BY <1>3

(* A set that has 0, and with a number the next up to N, has all up to N.  *)
LEMMA UpTo ==
  ASSUME NEW N \in Nat, NEW T, 0 \in T, \A n \in 0 .. N - 1 : n \in T => n + 1 \in T
  PROVE  \A n \in 0 .. N : n \in T
<1> PICK B : B = {n \in 0 .. N : n \notin T}
  OBVIOUS
<1> SUFFICES ASSUME B # {} PROVE FALSE
  OBVIOUS
<1>1. B \in SUBSET Nat
  OBVIOUS
<1>2. PICK m \in B : \A k \in B : m <= k
  BY <1>1, Least
<1>3. m # 0 /\ m \in 0 .. N /\ m \notin T
  BY <1>2
<1>4. m - 1 \in 0 .. N - 1 /\ m - 1 \in 0 .. N /\ ~(m <= m - 1) /\ m - 1 + 1 = m
  BY <1>3
<1>5. m - 1 \in T
  BY <1>2, <1>4
<1> QED BY <1>3, <1>4, <1>5

(* A step that can be taken again and again defines a run of any length.   *)
IsRun(f, N, a, g) == f = [n \in 0 .. N |-> IF n = 0 THEN a ELSE g[f[n - 1]]]

(* Such a run exists.                                                      *)
LEMMA RunExists ==
  ASSUME NEW a, NEW g, NEW N \in Nat
  PROVE  \E f : IsRun(f, N, a, g)
<1> PICK T : T = {m \in 0 .. N : \E f : IsRun(f, m, a, g)}
  OBVIOUS
<1>1. 0 \in T
  <2> PICK f : f = [n \in 0 .. 0 |-> a]
    OBVIOUS
  <2>1. IsRun(f, 0, a, g)
    BY DEF IsRun
  <2> QED BY <2>1
<1>2. ASSUME NEW m \in 0 .. N - 1, m \in T PROVE m + 1 \in T
  <2> PICK f : IsRun(f, m, a, g)
    BY <1>2
  <2>0. m \in Nat /\ m + 1 \in 0 .. N
    OBVIOUS
  <2> PICK h : h = [n \in 0 .. m + 1 |-> IF n = m + 1 THEN g[f[m]] ELSE f[n]]
    OBVIOUS
  <2>1. h[m + 1] = g[f[m]] /\ \A n \in 0 .. m : h[n] = f[n]
    BY <2>0
  <2>2. ASSUME NEW n \in 0 .. m + 1 PROVE h[n] = IF n = 0 THEN a ELSE g[h[n - 1]]
    <3>1. CASE n = m + 1
      <4>1. n # 0 /\ n - 1 = m /\ h[n - 1] = f[m]
        BY <2>0, <2>1, <3>1
      <4> QED BY <2>1, <3>1, <4>1
    <3>2. CASE n # m + 1
      <4>1. n \in 0 .. m /\ (n = 0 \/ n - 1 \in 0 .. m)
        BY <2>0, <3>2
      <4>2. f[n] = IF n = 0 THEN a ELSE g[f[n - 1]]
        BY <4>1 DEF IsRun
      <4> QED BY <2>1, <4>1, <4>2
    <3> QED BY <3>1, <3>2
  <2>3. IsRun(h, m + 1, a, g)
    BY <2>2 DEF IsRun
  <2> QED BY <2>0, <2>3
<1>3. N \in T
  <2>1. \A n \in 0 .. N : n \in T
    BY <1>1, <1>2, UpTo
  <2> QED BY <2>1
<1> QED BY <1>3

(* What holds at first and after each step holds all along.                *)
LEMMA RunStays ==
  ASSUME NEW N \in Nat, NEW f, NEW S, f[0] \in S,
         \A n \in 1 .. N : f[n - 1] \in S => f[n] \in S
  PROVE  \A n \in 0 .. N : f[n] \in S
<1> PICK T : T = {m \in 0 .. N : f[m] \in S}
  OBVIOUS
<1>1. 0 \in T
  OBVIOUS
<1>2. ASSUME NEW n \in 0 .. N - 1, n \in T PROVE n + 1 \in T
  <2>1. n + 1 \in 1 .. N /\ n + 1 - 1 = n /\ n + 1 \in 0 .. N
    OBVIOUS
  <2>2. f[n + 1] \in S
    BY <1>2, <2>1
  <2> QED BY <2>1, <2>2
<1>3. \A n \in 0 .. N : n \in T
  BY <1>1, <1>2, UpTo
<1> QED BY <1>3

-----------------------------------------------------------------------------
(* The order of the structs is one.                                        *)
LEMMA BeforeOrder ==
  ASSUME NEW s \in Nat, NEW t \in Nat, NEW u \in Nat
  PROVE  /\ ~Before(s, s)
         /\ Before(s, t) /\ Before(t, u) => Before(s, u)
BY DEF Before

(* The walk along the next pointers does what its definition says.         *)
LEMMA WalkIs ==
  TypeOK => \A x \in 0 .. used :
      /\ Walk(x)[0] = x
      /\ \A n \in 1 .. MaxHandlers : Walk(x)[n] = After(Walk(x)[n - 1])
      /\ \A n \in 0 .. MaxHandlers : Walk(x)[n] \in 0 .. used
<1> SUFFICES ASSUME TypeOK, NEW x \in 0 .. used
    PROVE  /\ Walk(x)[0] = x
           /\ \A n \in 1 .. MaxHandlers : Walk(x)[n] = After(Walk(x)[n - 1])
           /\ \A n \in 0 .. MaxHandlers : Walk(x)[n] \in 0 .. used
  OBVIOUS
<1>0. /\ MaxHandlers \in Nat /\ used \in 0 .. MaxHandlers
      /\ next \in [Slots -> 0 .. used] /\ Slots = 1 .. MaxHandlers
      /\ used \in Nat
  BY EventsAssumption DEF TypeOK, Slots
<1> PICK g : g = [s \in 0 .. used |-> After(s)]
  OBVIOUS
<1>1. \A s \in 0 .. used : After(s) \in 0 .. used /\ g[s] = After(s)
  BY <1>0 DEF After, Null
<1>2. PICK f : IsRun(f, MaxHandlers, x, g)
  BY <1>0, RunExists
<1>3. \A n \in 0 .. MaxHandlers : f[n] = IF n = 0 THEN x ELSE g[f[n - 1]]
  BY <1>2 DEF IsRun
<1>4. \A n \in 0 .. MaxHandlers : f[n] \in 0 .. used
  <2>1. f[0] \in 0 .. used
    BY <1>0, <1>3
  <2>2. \A n \in 1 .. MaxHandlers : f[n - 1] \in 0 .. used => f[n] \in 0 .. used
    <3> TAKE n \in 1 .. MaxHandlers
    <3>1. n \in 0 .. MaxHandlers /\ n # 0
      BY <1>0
    <3>2. f[n] = g[f[n - 1]]
      BY <1>3, <3>1
    <3> QED BY <1>1, <3>2
  <2> QED BY <1>0, <2>1, <2>2, RunStays
<1>5. f = [n \in 0 .. MaxHandlers |-> IF n = 0 THEN x ELSE After(f[n - 1])]
  <2>1. \A n \in 0 .. MaxHandlers : n # 0 => n - 1 \in 0 .. MaxHandlers
    BY <1>0
  <2>2. \A n \in 0 .. MaxHandlers : f[n] = IF n = 0 THEN x ELSE After(f[n - 1])
    BY <1>1, <1>3, <1>4, <2>1
  <2>3. f = [n \in 0 .. MaxHandlers |-> f[n]]
    BY <1>2 DEF IsRun
  <2> QED BY <2>2, <2>3
<1> DEFINE w[n \in 0..MaxHandlers] == IF n = 0 THEN x ELSE After(w[n - 1])
<1>6. w = [n \in 0 .. MaxHandlers |-> IF n = 0 THEN x ELSE After(w[n - 1])]
  BY <1>5
<1>7. Walk(x) = w
  BY DEF Walk
<1> HIDE DEF w
<1>8. w[0] = x /\ \A n \in 1 .. MaxHandlers : w[n] = After(w[n - 1])
  BY <1>0, <1>6
<1>9. \A n \in 0 .. MaxHandlers : w[n] \in 0 .. used
  <2>1. w[0] \in 0 .. used
    BY <1>8
  <2>2. \A n \in 1 .. MaxHandlers : w[n - 1] \in 0 .. used => w[n] \in 0 .. used
    BY <1>1, <1>8
  <2> QED BY <1>0, <2>1, <2>2, RunStays
<1> QED BY <1>7, <1>8, <1>9

(* Along the walk structs are in order.                                    *)
LEMMA WalkOrdered ==
  ASSUME IInv, NEW x \in 0 .. used,
         NEW m \in 0 .. MaxHandlers, NEW n \in 0 .. MaxHandlers, m < n,
         Walk(x)[n] # Null
  PROVE  Walk(x)[m] # Null /\ Before(Walk(x)[m], Walk(x)[n])
<1> PICK w : w = Walk(x)
  OBVIOUS
<1>0. /\ MaxHandlers \in Nat /\ used \in Nat
      /\ \A k \in 1 .. MaxHandlers : w[k] = After(w[k - 1])
      /\ \A k \in 0 .. MaxHandlers : w[k] \in 0 .. used
  BY EventsAssumption, WalkIs DEF IInv, TypeOK
<1> PICK T : T = {k \in 0 .. MaxHandlers :
                    k > m => w[k] = Null \/ (w[m] # Null /\ Before(w[m], w[k]))}
  OBVIOUS
<1>1. \A k \in 1 .. MaxHandlers : w[k] # Null =>
          w[k - 1] # Null /\ Before(w[k - 1], w[k])
  <2> TAKE k \in 1 .. MaxHandlers
  <2> HAVE w[k] # Null
  <2>1. k - 1 \in 0 .. MaxHandlers
    BY <1>0
  <2>2. w[k - 1] # Null /\ w[k] = next[w[k - 1]] /\ w[k - 1] \in Allocated
    BY <1>0, <2>1 DEF After, Null, Allocated
  <2> QED BY <2>2 DEF IInv, Ordered
<1>2. 0 \in T
  BY <1>0
<1>3. ASSUME NEW k \in 0 .. MaxHandlers - 1, k \in T PROVE k + 1 \in T
  <2> PICK j : j = k + 1
    OBVIOUS
  <2>1. /\ j \in 1 .. MaxHandlers /\ j - 1 = k /\ k \in 0 .. MaxHandlers
        /\ j \in 0 .. MaxHandlers
    BY <1>0
  <2> SUFFICES j \in T
    OBVIOUS
  <2> SUFFICES ASSUME j > m, w[j] # Null PROVE w[m] # Null /\ Before(w[m], w[j])
    BY <2>1
  <2>2. w[k] # Null /\ Before(w[k], w[j])
    BY <1>1, <2>1
  <2>3. CASE k = m
    BY <2>2, <2>3
  <2>4. CASE k # m
    <3>1. k > m
      BY <1>0, <2>1, <2>4
    <3>2. w[m] # Null /\ Before(w[m], w[k])
      BY <1>3, <2>2, <3>1
    <3>3. w[m] \in Nat /\ w[k] \in Nat /\ w[j] \in Nat
      BY <1>0, <2>1
    <3> QED BY <2>2, <3>2, <3>3, BeforeOrder
  <2> QED BY <2>3, <2>4
<1>4. \A k \in 0 .. MaxHandlers : k \in T
  BY <1>0, <1>2, <1>3, UpTo
<1> QED BY <1>4

(* The walk comes to the end of the list.                                  *)
LEMMA WalkEnds ==
  ASSUME IInv, NEW x \in 0 .. used
  PROVE  Walk(x)[MaxHandlers] = Null
<1> PICK w : w = Walk(x)
  OBVIOUS
<1> SUFFICES ASSUME w[MaxHandlers] # Null PROVE FALSE
  OBVIOUS
<1>0. /\ MaxHandlers \in Nat /\ used \in Nat /\ used <= MaxHandlers
      /\ \A k \in 0 .. MaxHandlers : w[k] \in 0 .. used
  BY EventsAssumption, WalkIs DEF IInv, TypeOK
<1>1. \A k \in 0 .. MaxHandlers : w[k] # Null
  <2> TAKE k \in 0 .. MaxHandlers
  <2>1. CASE k = MaxHandlers
    BY <2>1
  <2>2. CASE k # MaxHandlers
    <3>1. MaxHandlers \in 0 .. MaxHandlers /\ k < MaxHandlers
      BY <1>0, <2>2
    <3> QED BY <3>1, WalkOrdered
  <2> QED BY <2>1, <2>2
<1> PICK f : f = [k \in 0 .. MaxHandlers |-> w[k]]
  OBVIOUS
<1>2. f \in [0 .. MaxHandlers -> 1 .. MaxHandlers]
  <2>1. \A k \in 0 .. MaxHandlers : w[k] \in 1 .. MaxHandlers
    BY <1>0, <1>1 DEF Null
  <2> QED BY <2>1
<1>3. /\ IsFiniteSet(0 .. MaxHandlers) /\ IsFiniteSet(1 .. MaxHandlers)
      /\ Cardinality(1 .. MaxHandlers) < Cardinality(0 .. MaxHandlers)
  <2>1. 0 \in Int /\ 1 \in Int /\ MaxHandlers \in Int
    BY <1>0
  <2>2. /\ IsFiniteSet(0 .. MaxHandlers) /\ IsFiniteSet(1 .. MaxHandlers)
        /\ Cardinality(0 .. MaxHandlers) =
              IF 0 > MaxHandlers THEN 0 ELSE MaxHandlers - 0 + 1
        /\ Cardinality(1 .. MaxHandlers) =
              IF 1 > MaxHandlers THEN 0 ELSE MaxHandlers - 1 + 1
    BY ONLY <2>1, FS_Interval
  <2> QED BY <1>0, <2>2
<1>4. \E i1, i2 \in 0 .. MaxHandlers : i1 # i2 /\ f[i1] = f[i2]
  BY ONLY <1>2, <1>3, FS_PigeonHole, Zenon
<1>5. PICK i1 \in 0 .. MaxHandlers, i2 \in 0 .. MaxHandlers : i1 < i2 /\ f[i1] = f[i2]
  <2>1. PICK i1 \in 0 .. MaxHandlers, i2 \in 0 .. MaxHandlers : i1 # i2 /\ f[i1] = f[i2]
    BY <1>4
  <2>2. i1 < i2 \/ i2 < i1
    BY <1>0, <2>1
  <2> QED BY <2>1, <2>2
<1>6. Before(w[i1], w[i2]) /\ w[i1] = w[i2]
  BY <1>1, <1>5, WalkOrdered
<1>7. w[i1] \in Nat
  BY <1>0
<1> QED BY <1>6, <1>7, BeforeOrder

(* The structs on a list: allocated, with the first, closed under next, and*)
(* none but those; all after the first in order.                           *)
ListFacts(x) ==
    /\ Linked(x) \in SUBSET Allocated
    /\ x # Null => x \in Linked(x)
    /\ \A s \in Linked(x) : next[s] # Null => next[s] \in Linked(x)
    /\ \A C \in SUBSET Slots :
          (x # Null => x \in C) /\ (\A s \in C : next[s] # Null => next[s] \in C)
              => Linked(x) \subseteq C
    /\ x = Null => Linked(x) = {}
    /\ x # Null => \E s \in Linked(x) : next[s] = Null

(* Linked has these.                                                       *)
LEMMA LinkedIs == IInv => \A x \in 0 .. used : ListFacts(x)
<1> SUFFICES ASSUME IInv, NEW x \in 0 .. used PROVE ListFacts(x)
  OBVIOUS
<1> PICK w : w = Walk(x)
  OBVIOUS
<1>0. /\ MaxHandlers \in Nat /\ used \in Nat /\ used <= MaxHandlers
      /\ w[0] = x /\ \A n \in 1 .. MaxHandlers : w[n] = After(w[n - 1])
      /\ \A n \in 0 .. MaxHandlers : w[n] \in 0 .. used
      /\ w[MaxHandlers] = Null
  BY EventsAssumption, WalkIs, WalkEnds DEF IInv, TypeOK
<1>1. Linked(x) = {w[n] : n \in 0 .. MaxHandlers} \ {Null}
  BY DEF Linked
<1>2. Linked(x) \in SUBSET Allocated
  BY <1>0, <1>1 DEF Allocated, Null
<1>3. x # Null => x \in Linked(x)
  <2>1. 0 \in 0 .. MaxHandlers
    BY <1>0
  <2> QED BY <1>0, <1>1, <2>1
<1>4. ASSUME NEW s \in Linked(x), next[s] # Null PROVE next[s] \in Linked(x)
  <2>1. PICK n \in 0 .. MaxHandlers : s = w[n] /\ s # Null
    BY <1>1
  <2>2. n + 1 \in 1 .. MaxHandlers /\ n + 1 - 1 = n /\ n + 1 \in 0 .. MaxHandlers
    BY <1>0, <2>1
  <2>3. w[n + 1] = next[s]
    BY <1>0, <2>1, <2>2 DEF After
  <2> QED BY <1>1, <1>4, <2>2, <2>3
<1>5. ASSUME NEW C \in SUBSET Slots, x # Null => x \in C,
             \A s \in C : next[s] # Null => next[s] \in C
      PROVE  Linked(x) \subseteq C
  <2> PICK S : S = C \cup {Null}
    OBVIOUS
  <2>1. w[0] \in S
    BY <1>0, <1>5
  <2>2. \A n \in 1 .. MaxHandlers : w[n - 1] \in S => w[n] \in S
    BY <1>0, <1>5 DEF After
  <2>3. \A n \in 0 .. MaxHandlers : w[n] \in S
    BY <1>0, <2>1, <2>2, RunStays
  <2> QED BY <1>1, <2>3
<1>6. x = Null => Linked(x) = {}
  <2>1. {} \in SUBSET Slots
    OBVIOUS
  <2>2. x = Null => Linked(x) \subseteq {}
    BY <1>5, <2>1
  <2> QED BY <2>2
<1>7. ASSUME x # Null PROVE \E s \in Linked(x) : next[s] = Null
  <2> PICK B : B = {n \in 0 .. MaxHandlers : w[n] = Null}
    OBVIOUS
  <2>1. MaxHandlers \in B /\ B \in SUBSET Nat
    BY <1>0
  <2>2. PICK n \in B : \A m \in B : n <= m
    BY <2>1, Least
  <2>3. n # 0 /\ n \in 1 .. MaxHandlers /\ n - 1 \in 0 .. MaxHandlers /\ n - 1 \notin B
    BY <1>0, <1>7, <2>2
  <2>4. w[n - 1] # Null /\ next[w[n - 1]] = Null
    BY <1>0, <2>2, <2>3 DEF After
  <2> QED BY <1>1, <2>3, <2>4
<1> QED BY <1>2, <1>3, <1>4, <1>5, <1>6, <1>7 DEF ListFacts

-----------------------------------------------------------------------------
(* pr_event_unregister: the pointers.                                      *)

(* The parts of TypeOK: the structs and their pointers, and the rest.      *)
LinkType ==
    /\ used \in 0..MaxHandlers
    /\ next \in [Slots -> 0..used] /\ prev \in [Slots -> 0..used]
    /\ handlers \in [Names -> 0..used]
    /\ \A s \in Slots \ Allocated : next[s] = Null /\ prev[s] = Null
    /\ \A s \in Allocated :
          /\ cb[s] \in Callbacks /\ module[s] \in {cb[s], NoModule}
          /\ name[s] \in Names
          /\ next[s] # Null => name[next[s]] = name[s]
          /\ prev[s] # Null => name[prev[s]] = name[s]
    /\ \A e \in Names : handlers[e] # Null => name[handlers[e]] = e
    /\ DOMAIN cb = Slots /\ DOMAIN module = Slots /\ DOMAIN name = Slots

CallType ==
    /\ listed \subseteq Names
    /\ curr_event \in Names \cup {NoName} /\ curr_evh \in 0..used
    /\ frames \in Seq(Frame)
    /\ \A i \in 1..Len(frames) :
          frames[i].evh \in Allocated /\ name[frames[i].evh] = frames[i].event
    /\ curr_event # NoName =>
          /\ frames # <<>> /\ Head(frames).event = curr_event
          /\ curr_evh # Null => name[curr_evh] = curr_event
    /\ registered \subseteq Names \X Callbacks /\ in_order \in BOOLEAN

(* The two parts of the type invariant.                                    *)
LEMMA TypeParts == TypeOK <=> LinkType /\ CallType
BY DEF TypeOK, LinkType, CallType

(* The sets of structs.                                                    *)
LEMMA Sizes ==
  ASSUME IInv
  PROVE  /\ MaxHandlers \in Nat /\ used \in Nat /\ used <= MaxHandlers
         /\ Allocated \subseteq Slots /\ Allocated = 1 .. used
         /\ Slots = 1 .. MaxHandlers
         /\ Null \notin Slots /\ Null \notin Allocated /\ Null = 0
         /\ \A s \in 0 .. used : s # Null => s \in Allocated
BY EventsAssumption DEF IInv, TypeOK, Allocated, Slots, Null

-----------------------------------------------------------------------------
(* pr_event_unregister.  What the loop over the list of an event keeps of  *)
(* its pointers: they are typed, stay within the list and in order.        *)
Sound(l, e) ==
    /\ \A s \in Slots \ Allocated : l.next[s] = Null /\ l.prev[s] = Null
    /\ \A s \in Allocated :
          /\ l.next[s] # Null => name[l.next[s]] = name[s] /\ Before(s, l.next[s])
          /\ l.prev[s] # Null => name[l.prev[s]] = name[s] /\ Before(l.prev[s], s)
    /\ l.head # Null => name[l.head] = e
    /\ l.at # Null => name[l.at] = e

Chain(e) ==
    {l \in [next : [Slots -> 0..used], prev : [Slots -> 0..used],
            head : 0..used, at : 0..used] : Sound(l, e)}

(* Unlinking a struct keeps the pointers sound: it joins the struct before *)
(* and the one after, which are in order.                                  *)
LEMMA UnlinkSound ==
  ASSUME IInv, NEW e \in Names, NEW l \in Chain(e), l.at # Null
  PROVE  Unlink(l, l.at) \in Chain(e) /\ Unlink(l, l.at).at = l.at
<1> PICK s : s = l.at
  OBVIOUS
<1> PICK p : p = l.prev[s]
  OBVIOUS
<1> PICK n : n = l.next[s]
  OBVIOUS
<1>0. /\ l.next \in [Slots -> 0..used] /\ l.prev \in [Slots -> 0..used]
      /\ l.head \in 0 .. used /\ l.at \in 0 .. used /\ Sound(l, e)
      /\ l = [next |-> l.next, prev |-> l.prev, head |-> l.head, at |-> l.at]
  BY DEF Chain
<1>1. s \in Allocated /\ s \in Slots /\ name[s] = e /\ s \in Nat
  BY <1>0, Sizes DEF Sound
<1>2. /\ p \in 0 .. used /\ n \in 0 .. used /\ p \in Nat /\ n \in Nat
      /\ p # Null => p \in Allocated /\ p \in Slots /\ name[p] = e /\ Before(p, s)
      /\ n # Null => n \in Allocated /\ n \in Slots /\ name[n] = e /\ Before(s, n)
  BY <1>0, <1>1, Sizes DEF Sound
<1>3. p # Null /\ n # Null => Before(p, n)
  BY <1>1, <1>2, BeforeOrder
<1> PICK nx : nx = IF p # Null THEN [l.next EXCEPT ![p] = n] ELSE l.next
  OBVIOUS
<1> PICK pv : pv = IF n # Null THEN [l.prev EXCEPT ![n] = p] ELSE l.prev
  OBVIOUS
<1> PICK hd : hd = IF p # Null THEN l.head ELSE n
  OBVIOUS
<1> PICK u : u = Unlink(l, s)
  OBVIOUS
<1>4. u = [[[l EXCEPT !.prev = pv] EXCEPT !.next = nx] EXCEPT !.head = hd]
  BY DEF Unlink
<1>5. /\ nx \in [Slots -> 0..used] /\ pv \in [Slots -> 0..used] /\ hd \in 0 .. used
      /\ \A t \in Slots : nx[t] = IF p # Null /\ t = p THEN n ELSE l.next[t]
      /\ \A t \in Slots : pv[t] = IF n # Null /\ t = n THEN p ELSE l.prev[t]
  BY <1>0, <1>2
<1>6. \A t \in Slots \ Allocated : nx[t] = Null /\ pv[t] = Null
  BY <1>0, <1>2, <1>5 DEF Sound
<1>7. ASSUME NEW t \in Allocated
      PROVE  /\ nx[t] # Null => name[nx[t]] = name[t] /\ Before(t, nx[t])
             /\ pv[t] # Null => name[pv[t]] = name[t] /\ Before(pv[t], t)
  <2>1. t \in Slots
    BY Sizes
  <2>2. CASE p # Null /\ t = p
    BY <1>0, <1>2, <1>3, <1>5, <2>1, <2>2 DEF Sound
  <2>3. CASE n # Null /\ t = n
    BY <1>0, <1>2, <1>3, <1>5, <2>1, <2>3 DEF Sound
  <2>4. CASE ~(p # Null /\ t = p) /\ ~(n # Null /\ t = n)
    <3>1. nx[t] = l.next[t] /\ pv[t] = l.prev[t]
      BY <1>5, <2>1, <2>4
    <3> QED BY <1>0, <3>1 DEF Sound
  <2>5. CASE p # Null /\ t = p /\ ~(n # Null /\ t = n)
    BY <1>0, <1>2, <1>3, <1>5, <2>1, <2>5 DEF Sound
  <2> QED BY <2>2, <2>3, <2>4
<1>8. hd # Null => name[hd] = e
  BY <1>0, <1>2 DEF Sound
<1>9. /\ u \in [next : [Slots -> 0..used], prev : [Slots -> 0..used],
               head : 0..used, at : 0..used]
      /\ u.next = nx /\ u.prev = pv /\ u.head = hd /\ u.at = s
  BY <1>0, <1>4, <1>5
<1>10. Sound(u, e)
  BY <1>1, <1>6, <1>7, <1>8, <1>9 DEF Sound
<1> QED BY <1>9, <1>10 DEF Chain

(* So does a turn of the loop.                                             *)
LEMMA StepSound ==
  ASSUME IInv, NEW e \in Names, NEW r, NEW l \in Chain(e)
  PROVE  UnlinkStep(r, l) \in Chain(e)
<1>0. /\ l.next \in [Slots -> 0..used] /\ l.prev \in [Slots -> 0..used]
      /\ l.head \in 0 .. used /\ l.at \in 0 .. used /\ Sound(l, e)
  BY DEF Chain
<1>1. CASE l.at = Null
  BY <1>1 DEF UnlinkStep
<1>2. CASE l.at # Null
  <2> PICK n : n = l.next[l.at]
    OBVIOUS
  <2>1. l.at \in Allocated /\ l.at \in Slots
    BY <1>0, <1>2, Sizes
  <2>2. n \in 0 .. used /\ (n # Null => name[n] = e)
    BY <1>0, <1>2, <2>1 DEF Sound
  <2>3. ASSUME NEW k \in Chain(e) PROVE [k EXCEPT !.at = n] \in Chain(e)
    <3> PICK k2 : k2 = [k EXCEPT !.at = n]
      OBVIOUS
    <3>1. /\ k \in [next : [Slots -> 0..used], prev : [Slots -> 0..used],
                    head : 0..used, at : 0..used]
          /\ Sound(k, e)
      BY DEF Chain
    <3>2. /\ k2 \in [next : [Slots -> 0..used], prev : [Slots -> 0..used],
                    head : 0..used, at : 0..used]
          /\ k2.next = k.next /\ k2.prev = k.prev /\ k2.head = k.head /\ k2.at = n
      BY <2>2, <3>1
    <3>3. Sound(k2, e)
      BY <2>2, <3>1, <3>2 DEF Sound
    <3> QED BY <3>2, <3>3 DEF Chain
  <2>4. CASE Matches(r, l.at)
    <3>1. UnlinkStep(r, l) = [Unlink(l, l.at) EXCEPT !.at = n]
      BY <1>2, <2>4 DEF UnlinkStep
    <3>2. Unlink(l, l.at) \in Chain(e)
      BY <1>2, UnlinkSound
    <3> QED BY <2>3, <3>1, <3>2
  <2>5. CASE ~Matches(r, l.at)
    <3>1. UnlinkStep(r, l) = [l EXCEPT !.at = n]
      BY <1>2, <2>5 DEF UnlinkStep
    <3> QED BY <2>3, <3>1
  <2> QED BY <2>4, <2>5
<1> QED BY <1>1, <1>2

(* The loop as a run of its steps.                                         *)
IsLoop(u, r, e) ==
    /\ u[0] = [next |-> next, prev |-> prev, head |-> handlers[e], at |-> handlers[e]]
    /\ \A n \in 1 .. MaxHandlers : u[n] = UnlinkStep(r, u[n - 1])

(* The loop over a list is such a run.                                     *)
LEMMA UnlinkRun ==
  ASSUME IInv, NEW e \in Names, NEW r
  PROVE  \E u : /\ IsLoop(u, r, e)
                /\ \A n \in 0 .. MaxHandlers : u[n] \in Chain(e)
                /\ UnlinkList(r, e) = u[MaxHandlers]
<1> PICK a : a = [next |-> next, prev |-> prev, head |-> handlers[e],
                  at |-> handlers[e]]
  OBVIOUS
<1>0. MaxHandlers \in Nat
  BY Sizes
<1>1. a \in Chain(e)
  <2>1. /\ a \in [next : [Slots -> 0..used], prev : [Slots -> 0..used],
                  head : 0..used, at : 0..used]
        /\ a.next = next /\ a.prev = prev /\ a.head = handlers[e] /\ a.at = handlers[e]
    BY DEF IInv, TypeOK
  <2>2. Sound(a, e)
    BY <2>1 DEF IInv, TypeOK, Ordered, Sound
  <2> QED BY <2>1, <2>2 DEF Chain
<1> PICK g : g = [l \in Chain(e) |-> UnlinkStep(r, l)]
  OBVIOUS
<1>2. \A l \in Chain(e) : g[l] = UnlinkStep(r, l) /\ g[l] \in Chain(e)
  BY StepSound
<1>3. PICK f : IsRun(f, MaxHandlers, a, g)
  BY <1>0, RunExists
<1>4. \A n \in 0 .. MaxHandlers : f[n] = IF n = 0 THEN a ELSE g[f[n - 1]]
  BY <1>3 DEF IsRun
<1>5. \A n \in 0 .. MaxHandlers : f[n] \in Chain(e)
  <2>1. f[0] \in Chain(e)
    BY <1>0, <1>1, <1>4
  <2>2. \A n \in 1 .. MaxHandlers : f[n - 1] \in Chain(e) => f[n] \in Chain(e)
    <3> TAKE n \in 1 .. MaxHandlers
    <3>1. n \in 0 .. MaxHandlers /\ n # 0
      BY <1>0
    <3>2. f[n] = g[f[n - 1]]
      BY <1>4, <3>1
    <3> QED BY <1>2, <3>2
  <2> QED BY <1>0, <2>1, <2>2, RunStays
<1>6. f = [n \in 0 .. MaxHandlers |-> IF n = 0 THEN a ELSE UnlinkStep(r, f[n - 1])]
  <2>1. \A n \in 0 .. MaxHandlers : n # 0 => n - 1 \in 0 .. MaxHandlers
    BY <1>0
  <2>2. \A n \in 0 .. MaxHandlers : f[n] = IF n = 0 THEN a ELSE UnlinkStep(r, f[n - 1])
    BY <1>2, <1>4, <1>5, <2>1
  <2>3. f = [n \in 0 .. MaxHandlers |-> f[n]]
    BY <1>3 DEF IsRun
  <2> QED BY <2>2, <2>3
<1> DEFINE start == [next |-> next, prev |-> prev, head |-> handlers[e],
                     at |-> handlers[e]]
           u[n \in 0..MaxHandlers] == IF n = 0 THEN start ELSE UnlinkStep(r, u[n - 1])
<1>7. u = [n \in 0 .. MaxHandlers |-> IF n = 0 THEN a ELSE UnlinkStep(r, u[n - 1])]
  BY <1>6
<1>8. UnlinkList(r, e) = u[MaxHandlers]
  BY DEF UnlinkList
<1> HIDE DEF u
<1>9. IsLoop(u, r, e)
  BY <1>0, <1>7 DEF IsLoop
<1>10. \A n \in 0 .. MaxHandlers : u[n] \in Chain(e)
  <2>1. u[0] \in Chain(e)
    BY <1>1, <1>9 DEF IsLoop
  <2>2. \A n \in 1 .. MaxHandlers : u[n - 1] \in Chain(e) => u[n] \in Chain(e)
    BY <1>9, StepSound DEF IsLoop
  <2> QED BY <1>0, <2>1, <2>2, RunStays
<1> QED BY <1>8, <1>9, <1>10

-----------------------------------------------------------------------------
(* pr_event_generate.                                                      *)

(* The structs on the list of an event carry its name.                     *)
LEMMA LinkedName ==
  ASSUME IInv, NEW e \in Names, NEW x \in 0 .. used, x # Null => name[x] = e
  PROVE  \A s \in Linked(x) : name[s] = e
<1> PICK C : C = {s \in Allocated : name[s] = e}
  OBVIOUS
<1>1. C \in SUBSET Slots /\ (x # Null => x \in C)
  BY Sizes
<1>2. \A s \in C : next[s] # Null => next[s] \in C
  <2> TAKE s \in C
  <2> HAVE next[s] # Null
  <2>1. s \in Slots /\ s \in Allocated /\ next[s] \in 0 .. used
    BY Sizes DEF IInv, TypeOK
  <2>2. next[s] \in Allocated /\ name[next[s]] = e
    BY <2>1, Sizes DEF IInv, TypeOK
  <2> QED BY <2>2
<1>3. ListFacts(x)
  BY LinkedIs
<1>4. Linked(x) \subseteq C
  BY <1>1, <1>2, <1>3 DEF ListFacts
<1> QED BY <1>4

(* A call is put in front of the calls in progress.                        *)
LEMMA Pushed ==
  ASSUME NEW F, NEW q \in Seq(F), NEW f \in F, NEW g, g = <<f>> \o q
  PROVE  /\ g \in Seq(F) /\ g # <<>> /\ Head(g) = f /\ Len(g) = Len(q) + 1
         /\ \A i \in 1 .. Len(g) :
               (i = 1 /\ g[i] = f) \/ (i - 1 \in 1 .. Len(q) /\ g[i] = q[i - 1])
  OBVIOUS

(* And taken away when the loop is left.                                   *)
LEMMA Popped ==
  ASSUME NEW F, NEW q \in Seq(F), q # <<>>
  PROVE  /\ Tail(q) \in Seq(F) /\ Len(Tail(q)) = Len(q) - 1 /\ Len(q) \in Nat
         /\ Len(q) >= 1 /\ Head(q) = q[1] /\ Head(q) \in F
         /\ \A i \in 1 .. Len(Tail(q)) : i + 1 \in 1 .. Len(q) /\ Tail(q)[i] = q[i + 1]
  OBVIOUS

-----------------------------------------------------------------------------
(* pr_event_generate and the callbacks change no struct.                   *)
LEMMA LinksStay ==
  ASSUME IInv, UNCHANGED links
  PROVE  LinkType' /\ Ordered'
<1>1. LinkType
  BY TypeParts DEF IInv
<1>2. /\ next' = next /\ prev' = prev /\ cb' = cb /\ module' = module /\ name' = name
      /\ used' = used /\ listed' = listed /\ handlers' = handlers
  BY DEF links
<1>3. LinkType'
  BY <1>1, <1>2 DEF LinkType, Allocated
<1>4. Ordered'
  BY <1>2 DEF IInv, Ordered, Allocated, Before
<1> QED BY <1>3, <1>4

(* pr_event_generate calls the first listener, or the cached one.          *)
LEMMA GeneratePreserves ==
  ASSUME IInv, NEW e \in Names, pr_event_generate(e)
  PROVE  IInv'
<1>0. /\ UNCHANGED links /\ UNCHANGED history
      /\ next' = next /\ name' = name /\ used' = used /\ listed' = listed
      /\ registered' = registered /\ in_order' = in_order
  BY DEF pr_event_generate, links, history
<1>1. LinkType' /\ Ordered' /\ Allocated' = Allocated
  BY <1>0, LinksStay DEF Allocated
<1>2. CallType /\ LinkType
  BY TypeParts DEF IInv
<1>3. CASE UNCHANGED <<cache, frames>>
  <2>1. curr_event' = curr_event /\ curr_evh' = curr_evh /\ frames' = frames
    BY <1>3 DEF cache
  <2>2. CallType'
    BY <1>0, <1>1, <1>2, <2>1 DEF CallType
  <2> QED BY <1>1, <2>2, TypeParts, PTL DEF IInv
<1>4. CASE Uncached /\ UNCHANGED frames
  <2>1. curr_event' = NoName /\ curr_evh' = Null /\ frames' = frames /\ Null \in 0 .. used
    BY <1>4, Sizes DEF Uncached
  <2>2. CallType'
    BY <1>0, <1>1, <1>2, <2>1 DEF CallType
  <2> QED BY <1>1, <2>2, TypeParts, PTL DEF IInv
<1>5. ASSUME NEW s, s # Null, e \in listed, s = FirstListener(e), Cached(e, s),
             frames' = <<Invoke(e, s, Linked(s))>> \o frames
      PROVE  IInv'
  <2>1. s \in 0 .. used /\ name[s] = e
    BY <1>2, <1>5, EventsAssumption DEF FirstListener, UseCache, CallType, LinkType
  <2>2. s \in Allocated /\ s \in Slots
    BY <1>5, <2>1, Sizes
  <2>3. next[s] \in 0 .. used /\ (next[s] # Null => name[next[s]] = e)
    BY <1>2, <2>1, <2>2 DEF LinkType
  <2>4. Linked(s) \subseteq Slots
    BY <2>1, LinkedIs, Sizes DEF ListFacts
  <2> PICK f : f = Invoke(e, s, Linked(s))
    OBVIOUS
  <2>5. f \in Frame /\ f.event = e /\ f.evh = s
    BY <2>2, <2>4 DEF Invoke, Frame
  <2>6. frames \in Seq(Frame)
    BY <1>2 DEF CallType
  <2>7. frames' = <<f>> \o frames
    BY <1>5
  <2>8. /\ frames' \in Seq(Frame) /\ frames' # <<>> /\ Head(frames') = f
        /\ \A i \in 1 .. Len(frames') : \/ i = 1 /\ frames'[i] = f
                                        \/ (i - 1 \in 1 .. Len(frames)
                                              /\ frames'[i] = frames[i - 1])
    BY <2>5, <2>6, <2>7, Pushed
  <2>9. curr_event' = e /\ curr_evh' = next[s]
    BY <1>5 DEF Cached
  <2>10. \A i \in 1 .. Len(frames') :
            frames'[i].evh \in Allocated /\ name[frames'[i].evh] = frames'[i].event
    BY <1>2, <2>1, <2>2, <2>5, <2>8 DEF CallType
  <2>11. CallType'
    BY <1>0, <1>1, <1>2, <2>3, <2>5, <2>8, <2>9, <2>10 DEF CallType
  <2> QED BY <1>1, <2>11, TypeParts, PTL DEF IInv
<1>6. UNCHANGED <<cache, frames>> \/ (Uncached /\ UNCHANGED frames)
      \/ \E s : s # Null /\ e \in listed /\ s = FirstListener(e) /\ Cached(e, s)
                /\ frames' = <<Invoke(e, s, Linked(s))>> \o frames
  <2> HIDE DEF FirstListener, Cached, Invoke, Linked, Uncached
  <2> QED BY DEF pr_event_generate
<1> QED BY <1>3, <1>4, <1>5, <1>6

(* The loop goes on, or ends.                                              *)
LEMMA ReturnPreserves ==
  ASSUME IInv, CallbackReturns
  PROVE  IInv'
<1>0. /\ UNCHANGED links /\ UNCHANGED history
      /\ next' = next /\ name' = name /\ used' = used /\ listed' = listed
      /\ registered' = registered /\ in_order' = in_order
  BY DEF CallbackReturns, links, history
<1>1. LinkType' /\ Ordered' /\ Allocated' = Allocated
  BY <1>0, LinksStay DEF Allocated
<1>2. CallType /\ LinkType
  BY TypeParts DEF IInv
<1> PICK f : f = Head(frames)
  OBVIOUS
<1> PICK s : s = next[f.evh]
  OBVIOUS
<1>3. frames \in Seq(Frame) /\ frames # <<>>
  BY <1>2 DEF CallType, CallbackReturns
<1>4. /\ Tail(frames) \in Seq(Frame) /\ f \in Frame /\ f = frames[1]
      /\ 1 \in 1 .. Len(frames)
      /\ \A i \in 1 .. Len(Tail(frames)) :
            i + 1 \in 1 .. Len(frames) /\ Tail(frames)[i] = frames[i + 1]
  BY <1>3, Popped
<1>5. \A i \in 1 .. Len(Tail(frames)) :
          Tail(frames)[i].evh \in Allocated /\ name[Tail(frames)[i].evh] = Tail(frames)[i].event
  BY <1>2, <1>4 DEF CallType
<1>6. /\ f.evh \in Allocated /\ f.evh \in Slots /\ name[f.evh] = f.event
      /\ f.event \in Names /\ f.due \in SUBSET Slots
  BY <1>2, <1>4, Sizes DEF CallType, Frame
<1>7. s \in 0 .. used /\ (s # Null => name[s] = f.event)
  BY <1>2, <1>6 DEF LinkType
<1>8. CASE s = Null
  <2>1. frames' = Tail(frames) /\ curr_event' = NoName /\ curr_evh' = Null
    BY <1>8 DEF CallbackReturns, Following, Uncached
  <2>2. Null \in 0 .. used
    BY Sizes
  <2>3. CallType'
    BY <1>0, <1>1, <1>2, <1>4, <1>5, <2>1, <2>2 DEF CallType
  <2> QED BY <1>1, <2>3, TypeParts, PTL DEF IInv
<1>9. CASE s # Null
  <2> PICK h : h = Invoke(f.event, s, f.due)
    OBVIOUS
  <2>1. /\ frames' = <<h>> \o Tail(frames) /\ curr_evh' = next[s]
        /\ curr_event' = curr_event
    BY <1>9 DEF CallbackReturns, Following
  <2>2. s \in Allocated /\ s \in Slots /\ name[s] = f.event
    BY <1>7, <1>9, Sizes
  <2>3. next[s] \in 0 .. used /\ (next[s] # Null => name[next[s]] = f.event)
    BY <1>2, <2>2 DEF LinkType
  <2>4. h \in Frame /\ h.event = f.event /\ h.evh = s
    BY <1>6, <2>2 DEF Invoke, Frame
  <2>5. /\ frames' \in Seq(Frame) /\ frames' # <<>> /\ Head(frames') = h
        /\ \A i \in 1 .. Len(frames') : \/ i = 1 /\ frames'[i] = h
                                        \/ (i - 1 \in 1 .. Len(Tail(frames))
                                              /\ frames'[i] = Tail(frames)[i - 1])
    BY <1>4, <2>1, <2>4, Pushed
  <2>6. \A i \in 1 .. Len(frames') :
            frames'[i].evh \in Allocated /\ name[frames'[i].evh] = frames'[i].event
    BY <1>5, <2>2, <2>4, <2>5
  <2>7. curr_event # NoName => f.event = curr_event
    BY <1>2 DEF CallType
  <2>8. CallType'
    BY <1>0, <1>1, <1>2, <2>1, <2>3, <2>4, <2>5, <2>6, <2>7 DEF CallType
  <2> QED BY <1>1, <2>8, TypeParts, PTL DEF IInv
<1> QED BY <1>8, <1>9

-----------------------------------------------------------------------------
(* pr_event_unregister.                                                    *)

(* pr_event_unregister: the pointers of each list as its loop leaves them. *)
LEMMA ListSound ==
  ASSUME IInv, NEW e \in Names, NEW r
  PROVE  UnlinkList(r, e) \in Chain(e)
<1>1. PICK u : /\ \A n \in 0 .. MaxHandlers : u[n] \in Chain(e)
               /\ UnlinkList(r, e) = u[MaxHandlers]
  BY UnlinkRun
<1>2. MaxHandlers \in 0 .. MaxHandlers
  BY Sizes
<1> QED BY <1>1, <1>2

(* What callers may ask for.                                               *)
LEMMA RequestType ==
  ASSUME NEW r \in Request
  PROVE  r.events \subseteq Names /\ r.cbs \subseteq Callbacks
BY EventsAssumption DEF Request

(* The lists afterwards are put together from the loops.                   *)
LEMMA UnregisterPreserves ==
  ASSUME IInv, NEW r \in Request, pr_event_unregister(r)
  PROVE  IInv'
<1> PICK E : E = r.events
  OBVIOUS
<1>0. /\ E \subseteq Names
      /\ cb' = cb /\ name' = name /\ used' = used /\ listed' = listed
      /\ curr_event' = NoName /\ curr_evh' = Null
      /\ registered' \subseteq registered /\ in_order' \in BOOLEAN
      /\ module' = [s \in Slots |-> IF s \in Hit(r) THEN NoModule ELSE module[s]]
      /\ frames' = [i \in 1..Len(frames) |-> [frames[i] EXCEPT !.due = @ \ Hit(r)]]
  BY RequestType DEF pr_event_unregister, Uncached
<1>1. LinkType /\ CallType /\ Ordered /\ Allocated' = Allocated
  BY <1>0, TypeParts DEF IInv, Allocated
<1> PICK l : l = [e \in E |-> UnlinkList(r, e)]
  OBVIOUS
<1>2. /\ next' = [s \in Slots |-> IF name[s] \in E THEN l[name[s]].next[s] ELSE next[s]]
      /\ prev' = [s \in Slots |-> IF name[s] \in E THEN l[name[s]].prev[s] ELSE prev[s]]
      /\ handlers' = [e \in Names |-> IF e \in E THEN l[e].head ELSE handlers[e]]
  <2> HIDE DEF UnlinkList
  <2> QED BY DEF pr_event_unregister, UnlinkAll
<1>3. \A e \in E : l[e] \in Chain(e)
  BY <1>0, ListSound
<1>4. \A e \in E : /\ l[e].next \in [Slots -> 0..used] /\ l[e].prev \in [Slots -> 0..used]
                   /\ l[e].head \in 0 .. used /\ Sound(l[e], e)
  BY <1>3 DEF Chain
<1>5. ASSUME NEW s \in Slots
      PROVE  /\ next'[s] \in 0 .. used /\ prev'[s] \in 0 .. used
             /\ s \notin Allocated => next'[s] = Null /\ prev'[s] = Null
             /\ s \in Allocated =>
                   /\ next'[s] # Null => name[next'[s]] = name[s] /\ Before(s, next'[s])
                   /\ prev'[s] # Null => name[prev'[s]] = name[s] /\ Before(prev'[s], s)
  <2>1. CASE name[s] \in E
    <3> PICK k : k = l[name[s]]
      OBVIOUS
    <3>1. next'[s] = k.next[s] /\ prev'[s] = k.prev[s]
      BY <1>2, <2>1
    <3>2. k.next \in [Slots -> 0..used] /\ k.prev \in [Slots -> 0..used] /\ Sound(k, name[s])
      BY <1>4, <2>1
    <3> QED BY <3>1, <3>2 DEF Sound
  <2>2. CASE name[s] \notin E
    <3>1. next'[s] = next[s] /\ prev'[s] = prev[s]
      BY <1>2, <2>2
    <3> QED BY <1>1, <3>1 DEF LinkType, Ordered
  <2> QED BY <2>1, <2>2
<1>6. next' \in [Slots -> 0..used] /\ prev' \in [Slots -> 0..used]
  <2>1. next' = [s \in Slots |-> next'[s]] /\ prev' = [s \in Slots |-> prev'[s]]
    BY <1>2
  <2> QED BY <1>5, <2>1
<1>7. ASSUME NEW e \in Names
      PROVE  handlers'[e] \in 0 .. used /\ (handlers'[e] # Null => name[handlers'[e]] = e)
  <2>1. CASE e \in E
    BY <1>2, <1>4, <2>1 DEF Sound
  <2>2. CASE e \notin E
    BY <1>1, <1>2, <2>2 DEF LinkType
  <2> QED BY <2>1, <2>2
<1>8. handlers' \in [Names -> 0..used]
  <2>1. handlers' = [e \in Names |-> handlers'[e]]
    BY <1>2
  <2> QED BY <1>7, <2>1
<1>9. \A s \in Allocated : module'[s] \in {cb[s], NoModule} /\ s \in Slots
  BY <1>0, <1>1, Sizes DEF LinkType
<1>10. LinkType'
  BY <1>0, <1>1, <1>5, <1>6, <1>7, <1>8, <1>9 DEF LinkType
<1>11. Ordered'
  <2> SUFFICES ASSUME NEW s \in Allocated
               PROVE  /\ next'[s] # Null => Before(s, next[s])'
                      /\ prev'[s] # Null => Before(prev[s], s)'
    BY <1>1 DEF Ordered
  <2>1. s \in Slots
    BY Sizes
  <2> QED BY <1>0, <1>5, <2>1 DEF Before
<1>12. frames \in Seq(Frame)
  BY <1>1 DEF CallType
<1>13. ASSUME NEW i \in 1 .. Len(frames)
       PROVE  /\ [frames[i] EXCEPT !.due = @ \ Hit(r)] \in Frame
              /\ frames'[i].event = frames[i].event
              /\ frames'[i].evh = frames[i].evh
  <2> PICK f : f = frames[i]
    OBVIOUS
  <2> PICK H : H = Hit(r)
    OBVIOUS
  <2>1. f \in Frame
    BY <1>12
  <2>2. [f EXCEPT !.due = @ \ H] \in Frame
    BY <2>1 DEF Frame
  <2>3. [f EXCEPT !.due = @ \ H].event = f.event /\ [f EXCEPT !.due = @ \ H].evh = f.evh
    BY <2>1 DEF Frame
  <2> QED BY <1>0, <2>2, <2>3
<1>14. frames' \in Seq(Frame) /\ Len(frames') = Len(frames)
  <2>1. Len(frames) \in Nat
    BY <1>12
  <2> QED BY <1>0, <1>13, <2>1
<1>15. \A i \in 1..Len(frames') :
           frames'[i].evh \in Allocated /\ name[frames'[i].evh] = frames'[i].event
  BY <1>1, <1>13, <1>14 DEF CallType
<1>16. CallType'
  <2>1. Null \in 0 .. used
    BY Sizes
  <2> QED BY <1>0, <1>1, <1>14, <1>15, <2>1 DEF CallType
<1> QED BY <1>10, <1>11, <1>16, TypeParts, PTL DEF IInv

-----------------------------------------------------------------------------
(* pr_event_register.                                                      *)

(* pr_event_register: the struct that is added, and what stays as it was.  *)
Adds(c, e, s) ==
    /\ s = used + 1 /\ s \in Slots /\ s \notin Allocated /\ used' = s
    /\ Allocated' = Allocated \cup {s}
    /\ cb' = [cb EXCEPT ![s] = c] /\ name' = [name EXCEPT ![s] = e]
    /\ module' = [module EXCEPT ![s] = IF c \in Core THEN NoModule ELSE c]
    /\ cb'[s] = c /\ name'[s] = e /\ module'[s] \in {c, NoModule}
    /\ \A t \in Allocated : /\ cb'[t] = cb[t] /\ name'[t] = name[t]
                            /\ module'[t] = module[t] /\ t \in Slots /\ t < s /\ t \in Nat
    /\ DOMAIN cb' = Slots /\ DOMAIN module' = Slots /\ DOMAIN name' = Slots
    /\ \A t \in 0 .. used : t \in 0 .. used'
    /\ s \in 0 .. used' /\ s # Null /\ s \in Nat

(* pr_event_register allocates a struct.                                   *)
LEMMA RegisterAdds ==
  ASSUME IInv, NEW c \in Callbacks, NEW e \in Names, pr_event_register(c, e)
  PROVE  Adds(c, e, used + 1)
<1> PICK s : s = used + 1
  OBVIOUS
<1>1. /\ used < MaxHandlers /\ used' = s
      /\ cb' = [cb EXCEPT ![s] = c] /\ name' = [name EXCEPT ![s] = e]
      /\ module' = [module EXCEPT ![s] = IF c \in Core THEN NoModule ELSE c]
  BY DEF pr_event_register
<1>2. /\ MaxHandlers \in Nat /\ used \in Nat /\ Allocated = 1 .. used
      /\ Allocated' = 1 .. used' /\ Slots = 1 .. MaxHandlers
      /\ DOMAIN cb = Slots /\ DOMAIN module = Slots /\ DOMAIN name = Slots /\ Null = 0
  BY Sizes DEF IInv, TypeOK, Allocated
<1>3. s \in Slots /\ s \notin Allocated /\ Allocated' = Allocated \cup {s} /\ s # Null
  BY <1>1, <1>2
<1>4. \A t \in Allocated : t \in Slots /\ t < s /\ t # s /\ t \in Nat
  BY <1>1, <1>2
<1>5. \A t \in 0 .. used : t \in 0 .. used'
  BY <1>1, <1>2
<1>6. s \in 0 .. used' /\ s \in Nat
  BY <1>1, <1>2
<1>7. cb'[s] = c /\ name'[s] = e /\ module'[s] \in {c, NoModule}
  BY <1>1, <1>2, <1>3
<1>8. \A t \in Allocated : cb'[t] = cb[t] /\ name'[t] = name[t] /\ module'[t] = module[t]
  BY <1>1, <1>2, <1>4
<1>9. DOMAIN cb' = Slots /\ DOMAIN module' = Slots /\ DOMAIN name' = Slots
  BY <1>1, <1>2
<1> QED BY <1>1, <1>3, <1>4, <1>5, <1>6, <1>7, <1>8, <1>9 DEF Adds

(* What links are set: at most those of the struct and one to it.          *)
Linking(c, e, s) ==
    /\ next' \in [Slots -> 0 .. used'] /\ prev' \in [Slots -> 0 .. used']
    /\ handlers' \in [Names -> 0 .. used']
    /\ \A t \in Slots : \/ next'[t] = next[t]
                        \/ /\ t = s /\ c \notin Core /\ next'[t] \in Allocated
                           /\ name[next'[t]] = e
                        \/ /\ t \in Allocated /\ c \in Core /\ name[t] = e /\ next'[t] = s
    /\ \A t \in Slots : \/ prev'[t] = prev[t]
                        \/ /\ t = s /\ c \in Core /\ prev'[t] \in Allocated
                           /\ name[prev'[t]] = e
                        \/ /\ t \in Allocated /\ c \notin Core /\ name[t] = e /\ prev'[t] = s
    /\ \A d \in Names : handlers'[d] = handlers[d] \/ (d = e /\ handlers'[d] = s)

(* Whether it goes to the start or to the end.                             *)
LEMMA RegisterLinks ==
  ASSUME IInv, NEW c \in Callbacks, NEW e \in Names, pr_event_register(c, e)
  PROVE  Linking(c, e, used + 1)
<1> PICK s : s = used + 1
  OBVIOUS
<1>0. Adds(c, e, s) /\ LinkType
  BY RegisterAdds, TypeParts DEF IInv
<1>1. /\ next \in [Slots -> 0..used] /\ prev \in [Slots -> 0..used]
      /\ handlers \in [Names -> 0..used]
      /\ s \in Slots /\ s \in 0 .. used' /\ \A t \in 0 .. used : t \in 0 .. used'
  BY <1>0 DEF LinkType, Adds
<1>2. next \in [Slots -> 0..used'] /\ prev \in [Slots -> 0..used']
      /\ handlers \in [Names -> 0..used']
  BY <1>1
<1>3. CASE handlers[e] = Null
  <2>1. handlers' = [handlers EXCEPT ![e] = s] /\ next' = next /\ prev' = prev
    BY <1>3 DEF pr_event_register
  <2> QED BY <1>1, <1>2, <2>1 DEF Linking
<1>4. CASE handlers[e] # Null /\ c \notin Core
  <2> PICK first : first = handlers[e]
    OBVIOUS
  <2>1. AtStart(s, e)
    BY <1>4 DEF pr_event_register, AddToList
  <2>2. first \in Allocated /\ first \in Slots /\ name[first] = e
    BY <1>0, <1>1, <1>4, Sizes DEF LinkType
  <2>3. /\ next' = [next EXCEPT ![s] = first] /\ handlers' = [handlers EXCEPT ![e] = s]
        /\ prev' = IF next[first] # Null THEN [prev EXCEPT ![next[first]] = s] ELSE prev
    BY <2>1 DEF AtStart
  <2>4. next[first] \in 0 .. used
        /\ (next[first] # Null => next[first] \in Allocated /\ name[next[first]] = e)
    BY <1>0, <1>1, <2>2, Sizes DEF LinkType
  <2>5. first \in 0 .. used'
    BY <1>1
  <2>6. /\ next' \in [Slots -> 0 .. used'] /\ prev' \in [Slots -> 0 .. used']
        /\ handlers' \in [Names -> 0 .. used']
    BY <1>1, <1>2, <2>3, <2>5
  <2>7. \A t \in Slots : \/ next'[t] = next[t]
                         \/ (t = s /\ next'[t] \in Allocated /\ name[next'[t]] = e)
    BY <1>1, <2>2, <2>3
  <2>8. \A t \in Slots : \/ prev'[t] = prev[t]
                         \/ (t \in Allocated /\ name[t] = e /\ prev'[t] = s)
    BY <1>1, <2>3, <2>4
  <2>9. \A d \in Names : handlers'[d] = handlers[d] \/ (d = e /\ handlers'[d] = s)
    BY <1>1, <2>3
  <2> QED BY <1>4, <2>6, <2>7, <2>8, <2>9 DEF Linking
<1>5. CASE handlers[e] # Null /\ c \in Core
  <2> PICK last : last = Last(handlers[e])
    OBVIOUS
  <2>1. AtEnd(s, e)
    BY <1>5 DEF pr_event_register, AddToList
  <2>2. ListFacts(handlers[e])
    BY <1>1, LinkedIs
  <2>3. last \in Linked(handlers[e]) /\ last \in Allocated /\ next[last] = Null
    BY <1>5, <2>2 DEF ListFacts, Last
  <2>4. name[last] = e /\ last \in Slots /\ last \in 0 .. used'
    <3>1. handlers[e] # Null => name[handlers[e]] = e
      BY <1>0 DEF LinkType
    <3>2. \A t \in Linked(handlers[e]) : name[t] = e
      BY <1>1, <3>1, LinkedName
    <3>3. last \in Slots /\ last \in 0 .. used
      BY <2>3, Sizes
    <3> QED BY <1>1, <2>3, <3>2, <3>3
  <2>5. /\ next' = [next EXCEPT ![last] = s] /\ prev' = [prev EXCEPT ![s] = last]
        /\ handlers' = handlers
    BY <2>1 DEF AtEnd
  <2>6. /\ next' \in [Slots -> 0 .. used'] /\ prev' \in [Slots -> 0 .. used']
        /\ handlers' \in [Names -> 0 .. used']
    BY <1>1, <1>2, <2>4, <2>5
  <2>7. \A t \in Slots : \/ next'[t] = next[t]
                         \/ (t \in Allocated /\ name[t] = e /\ next'[t] = s)
    BY <1>1, <2>3, <2>4, <2>5
  <2>8. \A t \in Slots : \/ prev'[t] = prev[t]
                         \/ (t = s /\ prev'[t] \in Allocated /\ name[prev'[t]] = e)
    BY <1>1, <2>3, <2>4, <2>5
  <2> QED BY <1>5, <2>5, <2>6, <2>7, <2>8 DEF Linking
<1> QED BY <1>3, <1>4, <1>5

(* The links set are in order: a module's struct is newer than all, one of *)
(* the core comes after all.                                               *)
LEMMA RegisterPreserves ==
  ASSUME IInv, NEW c \in Callbacks, NEW e \in Names, pr_event_register(c, e)
  PROVE  IInv'
<1> PICK s : s = used + 1
  OBVIOUS
<1>0. Adds(c, e, s) /\ Linking(c, e, s) /\ LinkType /\ CallType /\ Ordered
  BY RegisterAdds, RegisterLinks, TypeParts DEF IInv
<1>1. /\ s \in Slots /\ s \notin Allocated /\ used' = s /\ Allocated' = Allocated \cup {s}
      /\ cb'[s] = c /\ name'[s] = e /\ module'[s] \in {c, NoModule} /\ s \in Nat
      /\ \A t \in Allocated : /\ cb'[t] = cb[t] /\ name'[t] = name[t]
                              /\ module'[t] = module[t] /\ t \in Slots /\ t < s /\ t \in Nat
  BY <1>0 DEF Adds
<1>2. \A t \in Allocated : Before(t, s)' \/ c \notin Core
  BY <1>1 DEF Before
<1>3. \A t \in Allocated : Before(s, t)' \/ c \in Core
  BY <1>1 DEF Before
<1>4. \A t, u \in Allocated : Before(t, u) => Before(t, u)'
  BY <1>1 DEF Before
<1>5. next[s] = Null /\ prev[s] = Null
  BY <1>0, <1>1 DEF LinkType
<1>6. \A t \in Allocated : /\ next[t] \in 0 .. used /\ prev[t] \in 0 .. used
                           /\ next[t] # Null => next[t] \in Allocated
                           /\ prev[t] # Null => prev[t] \in Allocated
  BY <1>0, <1>1, Sizes DEF LinkType
<1>7. ASSUME NEW t \in Allocated'
      PROVE  /\ next'[t] # Null => name'[next'[t]] = name'[t] /\ Before(t, next[t])'
             /\ prev'[t] # Null => name'[prev'[t]] = name'[t] /\ Before(prev[t], t)'
  <2>1. CASE t = s
    <3>1. next'[t] # Null => /\ c \notin Core /\ next'[t] \in Allocated
                             /\ name[next'[t]] = e
      BY <1>0, <1>1, <1>5, <2>1 DEF Linking
    <3>2. prev'[t] # Null => /\ c \in Core /\ prev'[t] \in Allocated
                             /\ name[prev'[t]] = e
      BY <1>0, <1>1, <1>5, <2>1 DEF Linking
    <3>3. next'[t] # Null => name'[next'[t]] = name'[t]
      BY <1>1, <2>1, <3>1
    <3>4. prev'[t] # Null => name'[prev'[t]] = name'[t]
      BY <1>1, <2>1, <3>2
    <3>5. next'[t] # Null => Before(t, next[t])'
      BY <1>1, <2>1, <3>1 DEF Before
    <3>6. prev'[t] # Null => Before(prev[t], t)'
      BY <1>1, <2>1, <3>2 DEF Before
    <3> QED BY <3>3, <3>4, <3>5, <3>6
  <2>2. CASE t \in Allocated
    <3>1. next'[t] = next[t] \/ (c \in Core /\ name[t] = e /\ next'[t] = s)
      BY <1>0, <1>1, <2>2 DEF Linking
    <3>2. prev'[t] = prev[t] \/ (c \notin Core /\ name[t] = e /\ prev'[t] = s)
      BY <1>0, <1>1, <2>2 DEF Linking
    <3>3. next'[t] # Null => name'[next'[t]] = name'[t]
      BY <1>0, <1>1, <1>6, <2>2, <3>1 DEF LinkType
    <3>4. prev'[t] # Null => name'[prev'[t]] = name'[t]
      BY <1>0, <1>1, <1>6, <2>2, <3>2 DEF LinkType
    <3>5. next'[t] # Null => Before(t, next[t])'
      BY <1>0, <1>1, <1>6, <2>2, <3>1 DEF Ordered, Before
    <3>6. prev'[t] # Null => Before(prev[t], t)'
      BY <1>0, <1>1, <1>6, <2>2, <3>2 DEF Ordered, Before
    <3> QED BY <3>3, <3>4, <3>5, <3>6
  <2> QED BY <1>1, <2>1, <2>2
<1>8. Ordered'
  BY <1>7 DEF Ordered
<1>9. used' \in 0 .. MaxHandlers
  BY <1>1, Sizes
<1>10. \A t \in Slots \ Allocated' : next'[t] = Null /\ prev'[t] = Null
  BY <1>0, <1>1 DEF Linking, LinkType
<1>11. \A t \in Allocated' : cb'[t] \in Callbacks /\ module'[t] \in {cb'[t], NoModule}
                             /\ name'[t] \in Names
  BY <1>0, <1>1 DEF LinkType
<1>12. \A d \in Names : handlers'[d] # Null => name'[handlers'[d]] = d
  <2> TAKE d \in Names
  <2> HAVE handlers'[d] # Null
  <2>1. CASE handlers'[d] = handlers[d]
    <3>1. handlers[d] \in Allocated /\ name[handlers[d]] = d
      BY <1>0, <2>1, Sizes DEF LinkType
    <3> QED BY <1>1, <2>1, <3>1
  <2>2. CASE d = e /\ handlers'[d] = s
    BY <1>1, <2>2
  <2> QED BY <1>0, <2>1, <2>2 DEF Linking
<1>13. LinkType'
  BY <1>0, <1>7, <1>9, <1>10, <1>11, <1>12 DEF LinkType, Linking, Adds
<1>14. /\ frames' = frames /\ in_order' = in_order
       /\ registered' = registered \cup {<<e, c>>} /\ listed' = listed \cup {e}
       /\ \/ curr_event' = curr_event /\ curr_evh' = curr_evh
          \/ curr_event' = NoName /\ curr_evh' = Null
  BY DEF pr_event_register, cache, Uncached
<1>15. \A i \in 1..Len(frames) :
          frames[i].evh \in Allocated' /\ name'[frames[i].evh] = frames[i].event
  BY <1>0, <1>1 DEF CallType
<1>16. curr_evh' \in 0 .. used' /\ curr_event' \in Names \cup {NoName}
  <2>1. Null \in 0 .. used'
    BY <1>0, Sizes DEF Adds
  <2> QED BY <1>0, <1>14, <2>1 DEF CallType, Adds
<1>17. curr_event' # NoName =>
          /\ frames # <<>> /\ Head(frames).event = curr_event'
          /\ curr_evh' # Null => name'[curr_evh'] = curr_event'
  <2>1. curr_evh # Null => curr_evh \in Allocated
    BY <1>0, Sizes DEF CallType
  <2> QED BY <1>0, <1>1, <1>14, <2>1 DEF CallType
<1>18. CallType'
  BY <1>0, <1>14, <1>15, <1>16, <1>17 DEF CallType
<1> QED BY <1>8, <1>13, <1>18, TypeParts, PTL DEF IInv

-----------------------------------------------------------------------------
(* The invariant and the order.                                            *)

(* The invariant at first.                                                 *)
LEMMA InitInvariant == Init => IInv
<1> SUFFICES ASSUME Init PROVE IInv
  OBVIOUS
<1>1. /\ used = 0 /\ MaxHandlers \in Nat /\ Null = 0 /\ Allocated = {} /\ 0 \in 0 .. 0
      /\ used \in 0 .. MaxHandlers
  BY EventsAssumption DEF Init, Null, Allocated
<1>2. LinkType
  BY <1>1 DEF Init, LinkType
<1>3. CallType
  BY <1>1 DEF Init, CallType
<1>4. Ordered
  BY <1>1 DEF Ordered
<1> QED BY <1>2, <1>3, <1>4, TypeParts DEF IInv

(* Every step keeps it.                                                    *)
LEMMA NextPreserves == IInv /\ [Next]_vars => IInv'
<1> SUFFICES ASSUME IInv, [Next]_vars PROVE IInv'
  OBVIOUS
<1>1. CASE \E c \in Callbacks, e \in Names : pr_event_register(c, e)
  BY <1>1, RegisterPreserves
<1>2. CASE \E r \in Request : pr_event_unregister(r)
  BY <1>2, UnregisterPreserves
<1>3. CASE \E e \in Names : pr_event_generate(e)
  BY <1>3, GeneratePreserves
<1>4. CASE CallbackReturns
  BY <1>4, ReturnPreserves
<1>5. CASE UNCHANGED vars
  <2>1. /\ UNCHANGED links /\ UNCHANGED cache /\ UNCHANGED frames /\ UNCHANGED history
    BY <1>5 DEF vars
  <2>2. LinkType' /\ Ordered'
    BY <2>1, LinksStay
  <2>3. CallType
    BY TypeParts DEF IInv
  <2>4. CallType'
    BY <2>1, <2>3 DEF CallType, links, cache, history, Allocated
  <2> QED BY <2>2, <2>4, TypeParts, PTL DEF IInv
<1> QED BY <1>1, <1>2, <1>3, <1>4, <1>5 DEF Next

(* The types, and the order of all pointers, also of wrong ones, are       *)
(* invariant.                                                              *)
THEOREM Inductive == Spec => []IInv
<1>1. Init => IInv
  BY InitInvariant
<1>2. IInv /\ [Next]_vars => IInv'
  BY NextPreserves
<1> QED BY <1>1, <1>2, PTL DEF Spec

(* No pointer of event.c leads from the list of one event to another's or  *)
(* to a struct that was not allocated, whatever prev pointers              *)
(* pr_event_register has left behind.                                      *)
THEOREM TypeCorrect == Spec => []TypeOK
<1>1. IInv => TypeOK
  BY DEF IInv
<1> QED BY <1>1, Inductive, PTL

(* What is reached from a struct comes after it in order.                  *)
LEMMA OrderFollows == IInv => DispatchOrder
<1> SUFFICES ASSUME IInv, NEW h \in Starts, NEW s \in Linked(h), NEW t \in Linked(next[s])
             PROVE  /\ s # t
                    /\ cb[s] \in Core => cb[t] \in Core
                    /\ cb[t] \notin Core => s > t
  BY DEF DispatchOrder
<1>0. LinkType /\ CallType
  BY TypeParts DEF IInv
<1>1. h \in 0 .. used
  <2>1. ASSUME NEW e \in Names, h = handlers[e] PROVE h \in 0 .. used
    BY <1>0, <2>1 DEF LinkType
  <2>2. ASSUME NEW i \in 1 .. Len(frames), h = frames[i].evh PROVE h \in 0 .. used
    BY <1>0, <2>2, Sizes DEF CallType
  <2> QED BY <2>1, <2>2 DEF Starts
<1>2. s \in Allocated /\ s \in Slots /\ s \in Nat
  BY <1>1, LinkedIs, Sizes DEF ListFacts
<1>3. next[s] \in 0 .. used
  BY <1>0, <1>2 DEF LinkType
<1> PICK C : C = {u \in Allocated : Before(s, u)}
  OBVIOUS
<1>4. C \in SUBSET Slots /\ (next[s] # Null => next[s] \in C)
  BY <1>2, <1>3, Sizes DEF IInv, Ordered
<1>5. \A u \in C : next[u] # Null => next[u] \in C
  <2> TAKE u \in C
  <2> HAVE next[u] # Null
  <2>1. u \in Allocated /\ u \in Slots /\ u \in Nat /\ Before(s, u)
    BY Sizes
  <2>2. next[u] \in 0 .. used /\ Before(u, next[u])
    BY <1>0, <2>1 DEF IInv, Ordered, LinkType
  <2>3. next[u] \in Allocated /\ next[u] \in Nat
    BY <2>2, Sizes
  <2>4. Before(s, next[u])
    BY <1>2, <2>1, <2>2, <2>3, BeforeOrder
  <2> QED BY <2>3, <2>4
<1>6. ListFacts(next[s])
  BY <1>3, LinkedIs
<1>7. t \in C
  BY <1>4, <1>5, <1>6 DEF ListFacts
<1>8. t \in Nat
  BY <1>7, Sizes
<1> QED BY <1>2, <1>7, <1>8, BeforeOrder DEF Before

(* Modules' handlers newest first, then those of the core, and no struct   *)
(* twice: of every list and every dispatch in progress, for any number of  *)
(* events, handlers and nested calls.                                      *)
THEOREM OrderHolds == Spec => []DispatchOrder
<1>1. IInv => DispatchOrder
  BY OrderFollows
<1> QED BY <1>1, Inductive, PTL

-----------------------------------------------------------------------------
(* What is known of the structs that are reached from one of them.         *)
IsList(L, nx, x) ==
    /\ L \in SUBSET Slots /\ Null \notin L
    /\ x # Null => x \in L
    /\ x = Null => L = {}
    /\ \A s \in L : nx[s] # Null => nx[s] \in L
    /\ \A C \in SUBSET Slots :
          (x # Null => x \in C) /\ (\A s \in C : nx[s] # Null => nx[s] \in C)
              => L \subseteq C

(* Linked is such a set.                                                   *)
LEMMA ListIs == IInv => \A x \in 0 .. used : IsList(Linked(x), next, x)
<1> SUFFICES ASSUME IInv, NEW x \in 0 .. used PROVE IsList(Linked(x), next, x)
  OBVIOUS
<1>1. ListFacts(x)
  BY LinkedIs
<1>2. Linked(x) \in SUBSET Slots /\ Null \notin Linked(x)
  BY <1>1, Sizes DEF ListFacts
<1> QED BY <1>1, <1>2 DEF ListFacts, IsList

(* Also after a step.                                                      *)
LEMMA ListIsNext == IInv' => (\A x \in 0 .. used : IsList(Linked(x), next, x))'
BY ListIs, PTL

(* The same pointers, the same list.                                       *)
LEMMA ListSame ==
  ASSUME NEW L, NEW M, NEW nx, NEW ny, NEW x, IsList(L, nx, x), IsList(M, ny, x),
         \A s \in L : ny[s] = nx[s]
  PROVE  M = L
<1>1. M \subseteq L
  BY DEF IsList
<1> PICK C : C = L \cap M
  OBVIOUS
<1>2. C \in SUBSET Slots /\ (x # Null => x \in C)
  BY DEF IsList
<1>3. \A s \in C : nx[s] # Null => nx[s] \in C
  BY DEF IsList
<1>4. L \subseteq C
  BY <1>2, <1>3 DEF IsList
<1> QED BY <1>1, <1>4

(* Where pointers that lead somewhere are kept a list can only grow.       *)
LEMMA ListGrows ==
  ASSUME NEW L, NEW M, NEW nx, NEW ny, NEW x, IsList(L, nx, x), IsList(M, ny, x),
         \A s \in L : nx[s] # Null => ny[s] = nx[s]
  PROVE  L \subseteq M
<1> PICK C : C = L \cap M
  OBVIOUS
<1>2. C \in SUBSET Slots /\ (x # Null => x \in C)
  BY DEF IsList
<1>3. \A s \in C : nx[s] # Null => nx[s] \in C
  BY DEF IsList
<1>4. L \subseteq C
  BY <1>2, <1>3 DEF IsList
<1> QED BY <1>4

(* What is reached from a struct of the list is on it.                     *)
LEMMA ListBehind ==
  ASSUME NEW L, NEW M, NEW nx, NEW x, NEW y \in L, IsList(L, nx, x), IsList(M, nx, y)
  PROVE  M \subseteq L
<1>1. L \in SUBSET Slots /\ y \in L /\ \A s \in L : nx[s] # Null => nx[s] \in L
  BY DEF IsList
<1> QED BY <1>1 DEF IsList

(* A list is its first struct and the rest.                                *)
LEMMA ListRest ==
  ASSUME NEW L, NEW M, NEW nx, NEW x \in Slots, x # Null, IsList(L, nx, x),
         IsList(M, nx, nx[x])
  PROVE  L = M \cup {x}
<1> PICK C : C = M \cup {x}
  OBVIOUS
<1>1. C \in SUBSET Slots /\ (x # Null => x \in C)
  BY DEF IsList
<1>2. \A s \in C : nx[s] # Null => nx[s] \in C
  BY DEF IsList
<1>3. L \subseteq C
  BY <1>1, <1>2 DEF IsList
<1>4. L \in SUBSET Slots /\ (nx[x] # Null => nx[x] \in L) /\ x \in L
      /\ \A s \in L : nx[s] # Null => nx[s] \in L
  BY DEF IsList
<1>5. M \subseteq L
  BY <1>4 DEF IsList
<1> QED BY <1>3, <1>4, <1>5

-----------------------------------------------------------------------------
(* Only heads are unregistered: pr_event_generate.                         *)

(* The parts of HeadsFirst: the lists, and what calls in progress owe.     *)
ListsRight ==
    \A e \in Names :
        /\ {cb[s] : s \in Linked(handlers[e])} = {c \in Callbacks : <<e, c>> \in registered}
        /\ handlers[e] # Null => prev[handlers[e]] = Null
        /\ \A s, t \in Linked(handlers[e]) : cb[s] = cb[t] => s = t

DueAhead == \A i \in 1..Len(frames) : frames[i].due \subseteq Linked(next[frames[i].evh])

(* The two parts of HeadsFirst.                                            *)
LEMMA HeadParts == HeadsFirst <=> (in_order => ListsRight /\ DueAhead)
BY DEF HeadsFirst, Complete, ListsRight, DueAhead

(* Without a change of the structs the lists are as they were.             *)
LEMMA SameLists ==
  ASSUME IInv, IInv', next' = next, used' = used
  PROVE  \A x \in 0 .. used : Linked(x)' = Linked(x)
<1> TAKE x \in 0 .. used
<1>1. IsList(Linked(x), next, x)
  BY ListIs
<1>2. IsList(Linked(x)', next', x)
  BY ListIsNext
<1>3. \A s \in Linked(x) : next'[s] = next[s]
  OBVIOUS
<1> QED BY <1>1, <1>2, <1>3, ListSame

(* So are the lists of the events, and what is known of them.              *)
LEMMA ListsStay ==
  ASSUME IInv, IInv', UNCHANGED links, registered' = registered, ListsRight
  PROVE  ListsRight'
<1>1. /\ next' = next /\ prev' = prev /\ cb' = cb /\ used' = used /\ handlers' = handlers
  BY DEF links
<1>2. \A e \in Names : handlers[e] \in 0 .. used
  BY DEF IInv, TypeOK
<1>3. ASSUME NEW e \in Names PROVE Linked(handlers[e])' = Linked(handlers[e])
  <2> PICK x : x = handlers[e]
    OBVIOUS
  <2>1. Linked(x)' = Linked(x)
    BY <1>1, <1>2, SameLists
  <2>2. handlers'[e] = x
    BY <1>1
  <2>3. Linked(handlers[e])' = Linked(x)'
    BY <2>2
  <2> QED BY <2>1, <2>3
<1> QED BY <1>1, <1>3 DEF ListsRight

(* What a new call owes is ahead of it.                                    *)
LEMMA RestAhead ==
  ASSUME IInv, NEW s \in Allocated
  PROVE  next[s] \in 0 .. used /\ Linked(s) \ {s} \subseteq Linked(next[s])
<1>1. s \in 0 .. used /\ s \in Slots /\ s # Null /\ next[s] \in 0 .. used
  BY Sizes DEF IInv, TypeOK
<1>2. IsList(Linked(s), next, s) /\ IsList(Linked(next[s]), next, next[s])
  BY <1>1, ListIs
<1>3. Linked(s) = Linked(next[s]) \cup {s}
  BY <1>1, <1>2, ListRest
<1> QED BY <1>1, <1>3

(* A new call owes the event to the listeners after the first.             *)
LEMMA GenerateHeads ==
  ASSUME IInv, IInv', HeadsFirst, NEW e \in Names, pr_event_generate(e)
  PROVE  HeadsFirst'
<1>0. /\ UNCHANGED links /\ UNCHANGED history
      /\ next' = next /\ used' = used /\ listed' = listed
      /\ registered' = registered /\ in_order' = in_order
  BY DEF pr_event_generate, links, history
<1> SUFFICES ASSUME in_order PROVE ListsRight' /\ DueAhead'
  <2>1. HeadsFirst' <=> (in_order' => ListsRight' /\ DueAhead')
    BY HeadParts, PTL
  <2> QED BY <1>0, <2>1
<1>1. ListsRight /\ DueAhead /\ CallType /\ LinkType
  BY HeadParts, TypeParts DEF IInv
<1>2. ListsRight'
  BY <1>0, <1>1, ListsStay
<1>3. \A x \in 0 .. used : Linked(x)' = Linked(x)
  BY <1>0, SameLists
<1>4. \A i \in 1 .. Len(frames) : next[frames[i].evh] \in 0 .. used
  BY <1>1, RestAhead DEF CallType
<1>5. CASE frames' = frames
  BY <1>0, <1>1, <1>2, <1>3, <1>4, <1>5 DEF DueAhead
<1>6. ASSUME NEW s, s # Null, e \in listed, s = FirstListener(e),
             frames' = <<Invoke(e, s, Linked(s))>> \o frames
      PROVE  ListsRight' /\ DueAhead'
  <2>1. s \in 0 .. used
    BY <1>1, <1>6 DEF FirstListener, UseCache, CallType, LinkType
  <2>2. s \in Allocated /\ s \in Slots
    BY <1>6, <2>1, Sizes
  <2> PICK f : f = Invoke(e, s, Linked(s))
    OBVIOUS
  <2>3. Linked(s) \subseteq Slots
    BY <2>1, LinkedIs, Sizes DEF ListFacts
  <2>4. f \in Frame /\ f.event = e /\ f.evh = s /\ f.due = Linked(s) \ {s}
    BY <2>2, <2>3 DEF Invoke, Frame
  <2>5. frames \in Seq(Frame) /\ frames' = <<f>> \o frames
    BY <1>1, <1>6 DEF CallType
  <2>6. \A i \in 1 .. Len(frames') : \/ i = 1 /\ frames'[i] = f
                                     \/ (i - 1 \in 1 .. Len(frames)
                                           /\ frames'[i] = frames[i - 1])
    BY <2>4, <2>5, Pushed
  <2>7. f.due \subseteq Linked(next[f.evh]) /\ next[f.evh] \in 0 .. used
    BY <2>2, <2>4, RestAhead
  <2>8. \A i \in 1 .. Len(frames') : /\ frames'[i].due \subseteq Linked(next[frames'[i].evh])
                                     /\ next[frames'[i].evh] \in 0 .. used
    BY <1>1, <1>4, <2>6, <2>7 DEF DueAhead
  <2>9. DueAhead'
    BY <1>0, <1>3, <2>8 DEF DueAhead
  <2> QED BY <1>2, <2>9
<1>7. frames' = frames
      \/ \E s : s # Null /\ e \in listed /\ s = FirstListener(e)
                /\ frames' = <<Invoke(e, s, Linked(s))>> \o frames
  <2> HIDE DEF FirstListener, Cached, Invoke, Linked, Uncached
  <2> QED BY DEF pr_event_generate
<1> QED BY <1>5, <1>6, <1>7

(* The callback returns: on to the next, or nothing is owed any more.      *)
LEMMA ReturnHeads ==
  ASSUME IInv, IInv', HeadsFirst, CallbackReturns
  PROVE  /\ HeadsFirst'
         /\ in_order' /\ Len(frames') < Len(frames) => Head(frames).due = {}
<1>0. /\ UNCHANGED links /\ UNCHANGED history
      /\ next' = next /\ used' = used /\ listed' = listed
      /\ registered' = registered /\ in_order' = in_order
  BY DEF CallbackReturns, links, history
<1> SUFFICES ASSUME in_order
             PROVE  /\ ListsRight' /\ DueAhead'
                    /\ Len(frames') < Len(frames) => Head(frames).due = {}
  <2>1. HeadsFirst' <=> (in_order' => ListsRight' /\ DueAhead')
    BY HeadParts, PTL
  <2> QED BY <1>0, <2>1
<1>1. ListsRight /\ DueAhead /\ CallType /\ LinkType
  BY HeadParts, TypeParts DEF IInv
<1>2. ListsRight'
  BY <1>0, <1>1, ListsStay
<1>3. \A x \in 0 .. used : Linked(x)' = Linked(x)
  BY <1>0, SameLists
<1> PICK f : f = Head(frames)
  OBVIOUS
<1> PICK s : s = next[f.evh]
  OBVIOUS
<1>4. frames \in Seq(Frame) /\ frames # <<>>
  BY <1>1 DEF CallType, CallbackReturns
<1>5. /\ Tail(frames) \in Seq(Frame) /\ f \in Frame /\ f = frames[1]
      /\ 1 \in 1 .. Len(frames) /\ Len(Tail(frames)) = Len(frames) - 1
      /\ Len(frames) \in Nat
      /\ \A i \in 1 .. Len(Tail(frames)) :
            i + 1 \in 1 .. Len(frames) /\ Tail(frames)[i] = frames[i + 1]
  BY <1>4, Popped
<1>6. \A i \in 1 .. Len(frames) : /\ frames[i].due \subseteq Linked(next[frames[i].evh])
                                 /\ next[frames[i].evh] \in 0 .. used
  BY <1>1, RestAhead DEF CallType, DueAhead
<1>7. \A i \in 1 .. Len(Tail(frames)) :
         /\ Tail(frames)[i].due \subseteq Linked(next[Tail(frames)[i].evh])
         /\ next[Tail(frames)[i].evh] \in 0 .. used
  BY <1>5, <1>6
<1>8. f.due \subseteq Linked(s) /\ s \in 0 .. used
  BY <1>5, <1>6
<1>9. CASE s = Null
  <2>1. frames' = Tail(frames)
    BY <1>9 DEF CallbackReturns, Following
  <2>2. Linked(s) = {}
    BY <1>8, <1>9, LinkedIs DEF ListFacts
  <2>3. DueAhead'
    BY <1>0, <1>3, <1>7, <2>1 DEF DueAhead
  <2> QED BY <1>2, <1>8, <2>2, <2>3
<1>10. CASE s # Null
  <2> PICK h : h = Invoke(f.event, s, f.due)
    OBVIOUS
  <2>1. frames' = <<h>> \o Tail(frames)
    BY <1>10 DEF CallbackReturns, Following
  <2>2. s \in Allocated /\ s \in Slots
    BY <1>8, <1>10, Sizes
  <2>3. h \in Frame /\ h.evh = s /\ h.due = f.due \ {s}
    BY <1>5, <2>2 DEF Invoke, Frame
  <2>4. /\ Len(frames') = Len(Tail(frames)) + 1
        /\ \A i \in 1 .. Len(frames') : \/ i = 1 /\ frames'[i] = h
                                        \/ (i - 1 \in 1 .. Len(Tail(frames))
                                              /\ frames'[i] = Tail(frames)[i - 1])
    BY <1>5, <2>1, <2>3, Pushed
  <2>5. h.due \subseteq Linked(next[s]) /\ next[s] \in 0 .. used
    BY <1>8, <2>2, <2>3, RestAhead
  <2>6. \A i \in 1 .. Len(frames') : /\ frames'[i].due \subseteq Linked(next[frames'[i].evh])
                                     /\ next[frames'[i].evh] \in 0 .. used
    BY <1>7, <2>3, <2>4, <2>5
  <2>7. DueAhead'
    BY <1>0, <1>3, <2>6 DEF DueAhead
  <2>8. ~(Len(frames') < Len(frames))
    BY <1>5, <2>4
  <2> QED BY <1>2, <2>7, <2>8
<1> QED BY <1>9, <1>10

-----------------------------------------------------------------------------
(* The same: pr_event_register.                                            *)

(* pr_event_register: a next pointer that led somewhere is kept; the new   *)
(* struct comes onto the list of its event.                                *)
LEMMA RegisterKeeps ==
  ASSUME IInv, NEW c \in Callbacks, NEW e \in Names, pr_event_register(c, e)
  PROVE  LET s == used + 1
             h == handlers[e]
         IN /\ next[s] = Null /\ prev[s] = Null
            /\ \A t \in Slots : next[t] # Null => next'[t] = next[t]
            /\ \A t \in Allocated : name[t] # e => next'[t] = next[t] /\ prev'[t] = prev[t]
            /\ \A d \in Names \ {e} : handlers'[d] = handlers[d]
            /\ \A t \in Linked(h) : next'[t] = next[t] \/ next'[t] = s
            /\ IF handlers'[e] = s THEN prev'[s] = Null ELSE prev'[h] = prev[h]
            /\ \/ handlers'[e] = s /\ next'[s] = h
               \/ (handlers'[e] = h /\ next'[s] = Null
                     /\ \E t \in Linked(h) : next'[t] = s)
<1> DEFINE s == used + 1
           h == handlers[e]
<1>0. Adds(c, e, s) /\ LinkType
  BY RegisterAdds, TypeParts DEF IInv
<1>1. /\ next \in [Slots -> 0..used] /\ prev \in [Slots -> 0..used]
      /\ handlers \in [Names -> 0..used] /\ h \in 0 .. used
      /\ s \in Slots /\ s \notin Allocated /\ next[s] = Null /\ prev[s] = Null
      /\ \A t \in Allocated : t \in Slots /\ t # s
  BY <1>0 DEF LinkType, Adds
<1>2. ListFacts(h)
  BY <1>1, LinkedIs
<1>3. Linked(h) \subseteq Allocated
  BY <1>2 DEF ListFacts
<1> HIDE DEF s, h
<1> SUFFICES
            /\ next[s] = Null /\ prev[s] = Null
            /\ \A t \in Slots : next[t] # Null => next'[t] = next[t]
            /\ \A t \in Allocated : name[t] # e => next'[t] = next[t] /\ prev'[t] = prev[t]
            /\ \A d \in Names \ {e} : handlers'[d] = handlers[d]
            /\ \A t \in Linked(h) : next'[t] = next[t] \/ next'[t] = s
            /\ IF handlers'[e] = s THEN prev'[s] = Null ELSE prev'[h] = prev[h]
            /\ \/ handlers'[e] = s /\ next'[s] = h
               \/ (handlers'[e] = h /\ next'[s] = Null
                     /\ \E t \in Linked(h) : next'[t] = s)
  BY DEF s, h
<1>4. CASE h = Null
  <2>1. handlers' = [handlers EXCEPT ![e] = s] /\ next' = next /\ prev' = prev
    BY <1>4 DEF pr_event_register, s, h
  <2>2. handlers'[e] = s /\ \A d \in Names \ {e} : handlers'[d] = handlers[d]
    BY <1>1, <2>1
  <2> QED BY <1>1, <1>4, <2>1, <2>2
<1>5. CASE h # Null /\ c \notin Core
  <2>1. AtStart(s, e)
    BY <1>5 DEF pr_event_register, AddToList, s, h
  <2>2. h \in Allocated /\ name[h] = e
    BY <1>0, <1>1, <1>5, Sizes DEF LinkType, h
  <2>3. /\ next' = [next EXCEPT ![s] = h] /\ handlers' = [handlers EXCEPT ![e] = s]
        /\ prev' = IF next[h] # Null THEN [prev EXCEPT ![next[h]] = s] ELSE prev
    BY <2>1 DEF AtStart, h
  <2>4. next[h] # Null => next[h] \in Allocated /\ name[next[h]] = e
    BY <1>0, <1>1, <2>2, Sizes DEF LinkType
  <2>5. handlers'[e] = s /\ \A d \in Names \ {e} : handlers'[d] = handlers[d]
    BY <1>1, <2>3
  <2>6. next'[s] = h /\ \A t \in Slots : t # s => next'[t] = next[t]
    BY <1>1, <2>3
  <2>7. \A t \in Slots : (next[h] = Null \/ t # next[h]) => prev'[t] = prev[t]
    BY <1>1, <2>3
  <2>8. prev'[s] = Null
    BY <1>1, <2>4, <2>7
  <2>9. \A t \in Allocated : name[t] # e => next'[t] = next[t] /\ prev'[t] = prev[t]
    BY <1>1, <2>4, <2>6, <2>7
  <2>10. \A t \in Slots : next[t] # Null => next'[t] = next[t]
    BY <1>1, <2>6
  <2>11. \A t \in Linked(h) : next'[t] = next[t]
    BY <1>1, <1>3, <2>6
  <2> QED BY <1>1, <2>5, <2>6, <2>8, <2>9, <2>10, <2>11
<1>6. CASE h # Null /\ c \in Core
  <2> PICK last : last = Last(h)
    OBVIOUS
  <2>1. AtEnd(s, e)
    BY <1>6 DEF pr_event_register, AddToList, s, h
  <2>2. last \in Linked(h) /\ last \in Allocated /\ next[last] = Null /\ last \in Slots
    BY <1>1, <1>2, <1>6 DEF ListFacts, Last
  <2>3. name[last] = e
    <3>1. h # Null => name[h] = e
      BY <1>0 DEF LinkType, h
    <3> QED BY <1>1, <2>2, <3>1, LinkedName
  <2>4. /\ next' = [next EXCEPT ![last] = s] /\ prev' = [prev EXCEPT ![s] = last]
        /\ handlers' = handlers
    BY <2>1 DEF AtEnd, h
  <2>5. next'[last] = s /\ \A t \in Slots : t # last => next'[t] = next[t]
    BY <1>1, <2>2, <2>4
  <2>6. \A t \in Slots : t # s => prev'[t] = prev[t]
    BY <1>1, <2>4
  <2>7. h \in Allocated /\ handlers'[e] = h
    BY <1>1, <1>6, <2>4, Sizes DEF h
  <2>8. \A t \in Allocated : name[t] # e => next'[t] = next[t] /\ prev'[t] = prev[t]
    BY <1>1, <2>3, <2>5, <2>6
  <2>9. \A t \in Slots : next[t] # Null => next'[t] = next[t]
    BY <2>2, <2>5
  <2>10. \A t \in Linked(h) : next'[t] = next[t] \/ next'[t] = s
    BY <1>1, <1>3, <2>5
  <2>11. next'[s] = Null
    BY <1>1, <2>2, <2>5
  <2>12. prev'[h] = prev[h]
    BY <1>1, <2>6, <2>7
  <2> QED BY <1>1, <1>6, <2>2, <2>4, <2>5, <2>7, <2>8, <2>9, <2>10, <2>11, <2>12
<1> QED BY <1>4, <1>5, <1>6

(* The lists afterwards.                                                   *)
LEMMA RegisterLists ==
  ASSUME IInv, IInv', NEW c \in Callbacks, NEW e \in Names, pr_event_register(c, e)
  PROVE  /\ Linked(handlers[e])' = Linked(handlers[e]) \cup {used + 1}
         /\ \A d \in Names \ {e} : Linked(handlers[d])' = Linked(handlers[d])
         /\ \A x \in 0 .. used : Linked(x) \subseteq Linked(x)'
<1> PICK s : s = used + 1
  OBVIOUS
<1> PICK h : h = handlers[e]
  OBVIOUS
<1>0. Adds(c, e, s) /\ LinkType
  BY RegisterAdds, TypeParts DEF IInv
<1>1. /\ \A x \in 0 .. used : x \in 0 .. used'
      /\ s \in 0 .. used' /\ s \in Slots /\ s # Null /\ h \in 0 .. used /\ h \in 0 .. used'
      /\ handlers'[e] \in 0 .. used'
  BY <1>0 DEF Adds, LinkType, IInv, TypeOK
<1>2. /\ next[s] = Null /\ prev[s] = Null
      /\ \A t \in Slots : next[t] # Null => next'[t] = next[t]
      /\ \A t \in Allocated : name[t] # e => next'[t] = next[t] /\ prev'[t] = prev[t]
      /\ \A d \in Names \ {e} : handlers'[d] = handlers[d]
      /\ \A t \in Linked(h) : next'[t] = next[t] \/ next'[t] = s
      /\ IF handlers'[e] = s THEN prev'[s] = Null ELSE prev'[h] = prev[h]
      /\ \/ handlers'[e] = s /\ next'[s] = h
         \/ (handlers'[e] = h /\ next'[s] = Null
               /\ \E t \in Linked(h) : next'[t] = s)
  BY RegisterKeeps
<1>3. ASSUME NEW x \in 0 .. used
      PROVE  Linked(x) \subseteq Linked(x)'
  <2>1. IsList(Linked(x), next, x) /\ IsList(Linked(x)', next', x)
    BY <1>1, ListIs, ListIsNext
  <2>2. \A t \in Linked(x) : next[t] # Null => next'[t] = next[t]
    BY <1>2, <2>1 DEF IsList
  <2> QED BY <2>1, <2>2, ListGrows
<1>4. ASSUME NEW d \in Names \ {e} PROVE Linked(handlers[d])' = Linked(handlers[d])
  <2> PICK x : x = handlers[d]
    OBVIOUS
  <2>1. x \in 0 .. used /\ x \in 0 .. used' /\ handlers'[d] = x /\ (x # Null => name[x] = d)
    BY <1>0, <1>1, <1>2 DEF LinkType
  <2>2. IsList(Linked(x), next, x) /\ IsList(Linked(x)', next', x)
    BY <2>1, ListIs, ListIsNext
  <2>3. \A t \in Linked(x) : name[t] = d /\ t \in Allocated
    BY <2>1, LinkedName, LinkedIs DEF ListFacts
  <2>4. \A t \in Linked(x) : next'[t] = next[t]
    BY <1>2, <2>3
  <2>5. Linked(x)' = Linked(x)
    BY <2>2, <2>4, ListSame
  <2>6. Linked(handlers[d])' = Linked(x)'
    BY <2>1
  <2> QED BY <2>5, <2>6
<1> PICK y : y = handlers'[e]
  OBVIOUS
<1>5. Linked(handlers[e])' = Linked(y)'
  OBVIOUS
<1>6. /\ IsList(Linked(h), next, h) /\ IsList(Linked(h)', next', h)
      /\ IsList(Linked(y)', next', y)
  BY <1>1, ListIs, ListIsNext
<1>7. Linked(y)' \subseteq Linked(h) \cup {s}
  <2> PICK C : C = Linked(h) \cup {s}
    OBVIOUS
  <2>1. C \in SUBSET Slots /\ (y # Null => y \in C)
    BY <1>1, <1>2, <1>6 DEF IsList
  <2>2. \A t \in C : next'[t] # Null => next'[t] \in C
    <3> TAKE t \in C
    <3> HAVE next'[t] # Null
    <3>1. CASE t \in Linked(h)
      BY <1>2, <1>6, <3>1 DEF IsList
    <3>2. CASE t = s
      BY <1>2, <1>6, <3>2 DEF IsList
    <3> QED BY <3>1, <3>2
  <2>3. Linked(y)' \subseteq C
    BY <1>6, <2>1, <2>2 DEF IsList
  <2> QED BY <2>3
<1>8. Linked(h) \subseteq Linked(h)'
  BY <1>1, <1>3
<1>9. Linked(h) \subseteq Linked(y)' /\ s \in Linked(y)'
  <2>1. CASE y = s /\ next'[s] = h
    <3>1. s \in Linked(y)'
      BY <1>1, <1>6, <2>1 DEF IsList
    <3>2. CASE h = Null
      BY <1>6, <3>1, <3>2 DEF IsList
    <3>3. CASE h # Null
      <4>1. h \in Linked(y)'
        BY <1>6, <2>1, <3>1, <3>3 DEF IsList
      <4>2. Linked(h)' \subseteq Linked(y)'
        BY <1>6, <4>1, ListBehind
      <4> QED BY <1>8, <3>1, <4>2
    <3> QED BY <3>2, <3>3
  <2>2. CASE y = h /\ \E t \in Linked(h) : next'[t] = s
    <3>1. PICK t \in Linked(h) : next'[t] = s
      BY <2>2
    <3>2. t \in Linked(y)' /\ Linked(h) \subseteq Linked(y)'
      BY <1>8, <2>2, <3>1
    <3> QED BY <1>1, <1>6, <3>1, <3>2 DEF IsList
  <2> QED BY <1>2, <2>1, <2>2
<1>10. Linked(y)' = Linked(h) \cup {s}
  BY <1>7, <1>9
<1>11. Linked(handlers[e])' = Linked(handlers[e]) \cup {used + 1}
  BY <1>5, <1>10
<1> QED BY <1>3, <1>4, <1>11

(* Registering adds the callback to its list, and to no other.             *)
LEMMA RegisterHeads ==
  ASSUME IInv, IInv', HeadsFirst, NEW c \in Callbacks, NEW e \in Names,
         pr_event_register(c, e)
  PROVE  HeadsFirst'
<1> PICK s : s = used + 1
  OBVIOUS
<1> PICK h : h = handlers[e]
  OBVIOUS
<1>0. /\ frames' = frames /\ in_order' = in_order /\ ~Duplicate(c, e)
      /\ registered' = registered \cup {<<e, c>>}
  BY DEF pr_event_register
<1> SUFFICES ASSUME in_order PROVE ListsRight' /\ DueAhead'
  <2>1. HeadsFirst' <=> (in_order' => ListsRight' /\ DueAhead')
    BY HeadParts, PTL
  <2> QED BY <1>0, <2>1
<1>1. ListsRight /\ DueAhead /\ CallType /\ LinkType
  BY HeadParts, TypeParts DEF IInv
<1>2. Adds(c, e, s)
  BY RegisterAdds
<1>3. /\ cb'[s] = c /\ s \notin Allocated
      /\ \A t \in Allocated : cb'[t] = cb[t] /\ t \in Slots
      /\ \A x \in 0 .. used : x \in 0 .. used'
  BY <1>2 DEF Adds
<1>4. /\ prev[s] = Null
      /\ \A t \in Slots : next[t] # Null => next'[t] = next[t]
      /\ \A t \in Allocated : name[t] # e => prev'[t] = prev[t]
      /\ \A d \in Names \ {e} : handlers'[d] = handlers[d]
      /\ IF handlers'[e] = s THEN prev'[s] = Null ELSE prev'[h] = prev[h]
      /\ handlers'[e] = s \/ handlers'[e] = h
  BY RegisterKeeps
<1>5. /\ Linked(handlers[e])' = Linked(h) \cup {s}
      /\ \A d \in Names \ {e} : Linked(handlers[d])' = Linked(handlers[d])
      /\ \A x \in 0 .. used : Linked(x) \subseteq Linked(x)'
  BY RegisterLists
<1>6. \A d \in Names : /\ handlers[d] \in 0 .. used /\ Linked(handlers[d]) \subseteq Allocated
                       /\ handlers[d] # Null => handlers[d] \in Allocated
                                                /\ name[handlers[d]] = d
  <2> TAKE d \in Names
  <2>1. handlers[d] \in 0 .. used /\ (handlers[d] # Null => name[handlers[d]] = d)
    BY <1>1 DEF LinkType
  <2>2. ListFacts(handlers[d])
    BY <2>1, LinkedIs
  <2> QED BY <2>1, <2>2, Sizes DEF ListFacts
<1>7. DueAhead'
  <2> SUFFICES ASSUME NEW i \in 1 .. Len(frames)
               PROVE  frames[i].due \subseteq Linked(next[frames[i].evh])'
    BY <1>0 DEF DueAhead
  <2> PICK v : v = frames[i].evh
    OBVIOUS
  <2> PICK x : x = next[v]
    OBVIOUS
  <2>1. v \in Allocated /\ v \in Slots
    BY <1>1, <1>3 DEF CallType
  <2>2. x \in 0 .. used /\ frames[i].due \subseteq Linked(x)
    BY <1>1, <2>1, RestAhead DEF DueAhead
  <2>3. CASE x = Null
    <3>1. Linked(x) = {}
      BY <2>2, <2>3, LinkedIs DEF ListFacts
    <3> QED BY <2>2, <3>1
  <2>4. CASE x # Null
    <3>1. next'[v] = x
      BY <1>4, <2>1, <2>4
    <3>2. frames'[i].evh = v
      BY <1>0
    <3>3. Linked(next[frames[i].evh])' = Linked(x)'
      BY <3>1, <3>2
    <3> QED BY <1>5, <2>2, <3>3
  <2> QED BY <2>3, <2>4
<1>8. ASSUME NEW d \in Names \ {e}
      PROVE  /\ {cb'[t] : t \in Linked(handlers[d])'}
                  = {a \in Callbacks : <<d, a>> \in registered'}
             /\ handlers'[d] # Null => prev'[handlers'[d]] = Null
             /\ \A t, u \in Linked(handlers[d])' : cb'[t] = cb'[u] => t = u
  <2> PICK L : L = Linked(handlers[d])
    OBVIOUS
  <2>1. Linked(handlers[d])' = L /\ \A t \in L : cb'[t] = cb[t]
    BY <1>3, <1>5, <1>6
  <2>2. {cb[t] : t \in L} = {a \in Callbacks : <<d, a>> \in registered}
    BY <1>1 DEF ListsRight
  <2>3. {cb'[t] : t \in L} = {cb[t] : t \in L}
    BY <2>1
  <2>4. {a \in Callbacks : <<d, a>> \in registered'} = {a \in Callbacks : <<d, a>> \in registered}
    BY <1>0
  <2>5. handlers'[d] # Null => prev'[handlers'[d]] = Null
    BY <1>1, <1>4, <1>6 DEF ListsRight
  <2>6. \A t, u \in L : cb[t] = cb[u] => t = u
    BY <1>1 DEF ListsRight
  <2> QED BY <2>1, <2>2, <2>3, <2>4, <2>5, <2>6
<1>9. /\ {cb'[t] : t \in Linked(handlers[e])'}
           = {a \in Callbacks : <<e, a>> \in registered'}
      /\ handlers'[e] # Null => prev'[handlers'[e]] = Null
      /\ \A t, u \in Linked(handlers[e])' : cb'[t] = cb'[u] => t = u
  <2> PICK L : L = Linked(h)
    OBVIOUS
  <2>1. /\ Linked(handlers[e])' = L \cup {s} /\ \A t \in L : cb'[t] = cb[t]
        /\ \A t \in L : cb[t] # c
    BY <1>0, <1>3, <1>5, <1>6 DEF Duplicate
  <2>2. {cb[t] : t \in L} = {a \in Callbacks : <<e, a>> \in registered}
    BY <1>1 DEF ListsRight
  <2>3. {cb'[t] : t \in L \cup {s}} = {cb[t] : t \in L} \cup {c}
    BY <1>3, <2>1
  <2>4. {a \in Callbacks : <<e, a>> \in registered'}
          = {a \in Callbacks : <<e, a>> \in registered} \cup {c}
    BY <1>0
  <2>5. handlers'[e] # Null => prev'[handlers'[e]] = Null
    <3>1. h # Null => prev[h] = Null
      BY <1>1 DEF ListsRight
    <3> QED BY <1>4, <3>1
  <2>6. \A t, u \in L : cb[t] = cb[u] => t = u
    BY <1>1 DEF ListsRight
  <2>7. \A t, u \in L \cup {s} : cb'[t] = cb'[u] => t = u
    BY <1>3, <2>1, <2>6
  <2> QED BY <2>1, <2>2, <2>3, <2>4, <2>5, <2>7
<1>10. ListsRight'
  BY <1>8, <1>9 DEF ListsRight
<1> QED BY <1>7, <1>10

-----------------------------------------------------------------------------
(* The same: pr_event_unregister.                                          *)

(* pr_event_unregister: the loop over a list of which only the head is     *)
(* asked for, and the head has no prev pointer.                            *)
HeadUnlinked(r, h, l) ==
    /\ l.next = next
    /\ h # Null /\ Matches(r, h) =>
          l.head = next[h] /\ (next[h] # Null => l.prev[next[h]] = Null)
    /\ ~(h # Null /\ Matches(r, h)) => l.head = h /\ l.prev = prev

(* The loop then does just that.                                           *)
LEMMA UnlinkHead ==
  ASSUME IInv, NEW e \in Names, NEW r,
         handlers[e] # Null => prev[handlers[e]] = Null,
         \A s \in Linked(handlers[e]) : Matches(r, s) => s = handlers[e]
  PROVE  HeadUnlinked(r, handlers[e], UnlinkList(r, e))
<1> PICK h : h = handlers[e]
  OBVIOUS
<1>0. h \in 0 .. used /\ MaxHandlers \in Nat /\ MaxHandlers \in 0 .. MaxHandlers
  BY Sizes DEF IInv, TypeOK
<1>1. PICK u : /\ IsLoop(u, r, e)
               /\ \A n \in 0 .. MaxHandlers : u[n] \in Chain(e)
               /\ UnlinkList(r, e) = u[MaxHandlers]
  BY UnlinkRun
<1>2. /\ u[0] = [next |-> next, prev |-> prev, head |-> h, at |-> h]
      /\ \A n \in 1 .. MaxHandlers : u[n] = UnlinkStep(r, u[n - 1])
  BY <1>1 DEF IsLoop
<1>3. u[0].next = next /\ u[0].prev = prev /\ u[0].head = h /\ u[0].at = h
  BY <1>2
<1>4. CASE h = Null
  <2> PICK S : S = {u[0]}
    OBVIOUS
  <2>1. \A n \in 1 .. MaxHandlers : u[n - 1] \in S => u[n] \in S
    BY <1>2, <1>3, <1>4 DEF UnlinkStep
  <2>2. \A n \in 0 .. MaxHandlers : u[n] \in S
    BY <1>0, <2>1, RunStays
  <2>3. u[MaxHandlers] = u[0]
    BY <1>0, <2>2
  <2> QED BY <1>1, <1>3, <1>4, <2>3 DEF HeadUnlinked
<1>5. CASE h # Null
  <2>0. h \in Allocated /\ h \in Slots /\ prev[h] = Null /\ next[h] \in 0 .. used
    BY <1>0, <1>5, Sizes DEF IInv, TypeOK
  <2>1. 1 \in 1 .. MaxHandlers /\ 1 - 1 = 0 /\ 1 \in 0 .. MaxHandlers
    BY <1>0, <2>0, Sizes
  <2> PICK R : R = Linked(next[h])
    OBVIOUS
  <2>2. /\ IsList(Linked(h), next, h) /\ IsList(R, next, next[h])
        /\ Linked(h) = R \cup {h}
    <3>1. IsList(Linked(h), next, h) /\ IsList(R, next, next[h])
      BY <1>0, <2>0, ListIs
    <3> QED BY <1>5, <2>0, <3>1, ListRest
  <2>3. h \notin R
    <3>1. h \in Starts
      BY DEF Starts
    <3>2. h \in Linked(h)
      BY <2>2
    <3> QED BY <3>1, <3>2, OrderFollows DEF DispatchOrder
  <2>4. \A t \in R : ~Matches(r, t)
    BY <2>2, <2>3
  <2> PICK S : S = {l \in Chain(e) : HeadUnlinked(r, h, l) /\ l.at \in R \cup {Null}}
    OBVIOUS
  <2>5. u[1] = UnlinkStep(r, u[0]) /\ u[1] \in Chain(e) /\ u[0] \in Chain(e)
    BY <1>0, <1>1, <1>2, <2>1
  <2>6. next[h] \in R \cup {Null}
    BY <2>2 DEF IsList
  <2>7. u[1] \in S
    <3>1. CASE Matches(r, h)
      <4> PICK pv : pv = IF next[h] # Null THEN [prev EXCEPT ![next[h]] = prev[h]] ELSE prev
        OBVIOUS
      <4> PICK l : l = u[0]
        OBVIOUS
      <4>0. l.prev[h] = Null /\ l.next[h] = next[h] /\ l.next = next /\ l.prev = prev
        BY <1>3, <2>0
      <4>1. Unlink(l, h) = [[[l EXCEPT !.prev = pv] EXCEPT !.next = next]
                               EXCEPT !.head = next[h]]
        BY <2>0, <4>0 DEF Unlink
      <4>2. u[1] = [Unlink(u[0], h) EXCEPT !.at = next[h]]
        BY <1>3, <1>5, <2>5, <3>1 DEF UnlinkStep
      <4>3. u[1].next = next /\ u[1].prev = pv /\ u[1].head = next[h] /\ u[1].at = next[h]
        BY <1>2, <4>1, <4>2
      <4>4. next[h] # Null => pv[next[h]] = Null
        <5>1. next[h] # Null => next[h] \in Slots
          BY <2>0, Sizes
        <5>2. prev \in [Slots -> 0 .. used]
          BY DEF IInv, TypeOK
        <5> QED BY <2>0, <5>1, <5>2
      <4> QED BY <1>5, <2>5, <2>6, <3>1, <4>3, <4>4 DEF HeadUnlinked
    <3>2. CASE ~Matches(r, h)
      <4>1. u[1] = [u[0] EXCEPT !.at = next[h]]
        BY <1>3, <1>5, <2>5, <3>2 DEF UnlinkStep
      <4>2. u[1].next = next /\ u[1].prev = prev /\ u[1].head = h /\ u[1].at = next[h]
        BY <1>2, <4>1
      <4> QED BY <2>5, <2>6, <3>2, <4>2 DEF HeadUnlinked
    <3> QED BY <3>1, <3>2
  <2>8. ASSUME NEW n \in 2 .. MaxHandlers, u[n - 1] \in S PROVE u[n] \in S
    <3> PICK l : l = u[n - 1]
      OBVIOUS
    <3>0. n \in 1 .. MaxHandlers /\ n \in 0 .. MaxHandlers
      BY <1>0
    <3>1. u[n] = UnlinkStep(r, l) /\ l \in S /\ u[n] \in Chain(e)
      BY <1>1, <1>2, <2>8, <3>0
    <3>2. CASE l.at = Null
      BY <3>1, <3>2 DEF UnlinkStep
    <3>3. CASE l.at # Null
      <4>1. l.at \in R /\ ~Matches(r, l.at) /\ l.next = next /\ HeadUnlinked(r, h, l)
        BY <2>4, <3>1, <3>3 DEF HeadUnlinked
      <4>2. u[n] = [l EXCEPT !.at = next[l.at]]
        BY <3>1, <3>3, <4>1 DEF UnlinkStep
      <4>3. next[l.at] \in R \cup {Null}
        BY <2>2, <4>1 DEF IsList
      <4>4. l \in [next : [Slots -> 0..used], prev : [Slots -> 0..used],
                   head : 0..used, at : 0..used]
        BY <3>1 DEF Chain
      <4>5. /\ u[n].next = l.next /\ u[n].prev = l.prev /\ u[n].head = l.head
            /\ u[n].at = next[l.at]
        BY <4>2, <4>4
      <4>6. HeadUnlinked(r, h, u[n])
        BY <4>1, <4>5 DEF HeadUnlinked
      <4> QED BY <3>1, <4>3, <4>5, <4>6
    <3> QED BY <3>2, <3>3
  <2> PICK T : T = {n \in 0 .. MaxHandlers : n = 0 \/ u[n] \in S}
    OBVIOUS
  <2>9. ASSUME NEW n \in 0 .. MaxHandlers - 1, n \in T PROVE n + 1 \in T
    <3> PICK m : m = n + 1
      OBVIOUS
    <3>0. m \in 0 .. MaxHandlers /\ m - 1 = n
      BY <1>0
    <3>1. CASE n = 0
      BY <2>7, <3>0, <3>1
    <3>2. CASE n # 0
      <4>1. m \in 2 .. MaxHandlers
        BY <1>0, <3>2
      <4> QED BY <2>8, <2>9, <3>0, <3>2, <4>1
    <3> QED BY <3>1, <3>2
  <2>10. 0 \in T
    BY <1>0
  <2>11. \A n \in 0 .. MaxHandlers : n \in T
    BY <1>0, <2>9, <2>10, UpTo
  <2>12. MaxHandlers \in T /\ MaxHandlers # 0
    BY <1>0, <2>1, <2>11
  <2> QED BY <1>1, <2>12
<1> QED BY <1>4, <1>5

(* Only heads are asked for: the next pointers stay, and each list loses   *)
(* its head or nothing.                                                    *)
LEMMA UnregisterHeads ==
  ASSUME IInv, IInv', HeadsFirst, NEW r \in Request, pr_event_unregister(r)
  PROVE  HeadsFirst'
<1> PICK E : E = r.events
  OBVIOUS
<1> PICK H : H = Hit(r)
  OBVIOUS
<1>0. /\ E \subseteq Names
      /\ cb' = cb /\ name' = name /\ used' = used
      /\ registered' = registered \ {<<name[s], cb[s]>> : s \in H}
      /\ in_order' = (in_order /\ \A s \in H : s = handlers[name[s]])
      /\ frames' = [i \in 1..Len(frames) |-> [frames[i] EXCEPT !.due = @ \ H]]
  BY RequestType DEF pr_event_unregister
<1> SUFFICES ASSUME in_order' PROVE ListsRight' /\ DueAhead'
  <2>1. HeadsFirst' <=> (in_order' => ListsRight' /\ DueAhead')
    BY HeadParts, PTL
  <2> QED BY <2>1
<1>1. in_order /\ \A s \in H : s = handlers[name[s]]
  BY <1>0
<1>2. ListsRight /\ DueAhead /\ CallType /\ LinkType
  BY <1>1, HeadParts, TypeParts DEF IInv
<1>3. \A e \in Names : /\ handlers[e] \in 0 .. used
                       /\ handlers[e] # Null => name[handlers[e]] = e /\ handlers[e] \in Allocated
                                             /\ handlers[e] \in Slots /\ prev[handlers[e]] = Null
                       /\ \A s \in Linked(handlers[e]) : name[s] = e
  <2> TAKE e \in Names
  <2>1. handlers[e] \in 0 .. used /\ (handlers[e] # Null => name[handlers[e]] = e)
    BY <1>2 DEF LinkType
  <2>2. handlers[e] # Null => handlers[e] \in Allocated /\ handlers[e] \in Slots
    BY <2>1, Sizes
  <2>3. handlers[e] # Null => prev[handlers[e]] = Null
    BY <1>2 DEF ListsRight
  <2> QED BY <2>1, <2>2, <2>3, LinkedName
<1>4. \A e \in E : \A s \in Linked(handlers[e]) : Matches(r, s) => s \in H /\ s = handlers[e]
  <2> TAKE e \in E
  <2> TAKE s \in Linked(handlers[e])
  <2> HAVE Matches(r, s)
  <2>1. s \in H
    BY DEF Hit
  <2>2. name[s] = e
    BY <1>0, <1>3
  <2> QED BY <1>1, <2>1, <2>2
<1>5. \A s \in H : name[s] \in E /\ s \in Linked(handlers[name[s]]) /\ Matches(r, s)
  <2> TAKE s \in H
  <2>1. PICK e \in E : s \in Linked(handlers[e]) /\ Matches(r, s)
    BY DEF Hit
  <2> QED BY <1>0, <1>3, <2>1
<1> PICK l : l = [e \in E |-> UnlinkList(r, e)]
  OBVIOUS
<1>6. /\ next' = [s \in Slots |-> IF name[s] \in E THEN l[name[s]].next[s] ELSE next[s]]
      /\ prev' = [s \in Slots |-> IF name[s] \in E THEN l[name[s]].prev[s] ELSE prev[s]]
      /\ handlers' = [e \in Names |-> IF e \in E THEN l[e].head ELSE handlers[e]]
  <2> HIDE DEF UnlinkList
  <2> QED BY DEF pr_event_unregister, UnlinkAll
<1>7. \A e \in E : HeadUnlinked(r, handlers[e], l[e])
  BY <1>0, <1>3, <1>4, UnlinkHead
<1>8. next' = next
  <2>1. \A s \in Slots : next'[s] = next[s]
    BY <1>6, <1>7 DEF HeadUnlinked
  <2>2. next \in [Slots -> 0 .. used] /\ next' = [s \in Slots |-> next'[s]]
    BY <1>2, <1>6 DEF LinkType
  <2> QED BY <2>1, <2>2
<1>9. \A x \in 0 .. used : Linked(x)' = Linked(x)
  BY <1>0, <1>8, SameLists
<1>10. DueAhead'
  <2> SUFFICES ASSUME NEW i \in 1 .. Len(frames)
               PROVE  frames'[i].due \subseteq Linked(next[frames[i].evh])'
    <3>1. frames \in Seq(Frame)
      BY <1>2 DEF CallType
    <3>2. Len(frames') = Len(frames)
      BY <1>0, <3>1
    <3> QED BY <1>8, <3>2 DEF DueAhead
  <2> PICK f : f = frames[i]
    OBVIOUS
  <2>1. f \in Frame /\ f.evh \in Allocated /\ f.due \subseteq Linked(next[f.evh])
    BY <1>2 DEF CallType, DueAhead
  <2>2. frames'[i] = [f EXCEPT !.due = @ \ H]
    BY <1>0
  <2>3. frames'[i].due = f.due \ H /\ frames'[i].evh = f.evh
    BY <2>1, <2>2 DEF Frame
  <2> PICK x : x = next[f.evh]
    OBVIOUS
  <2>4. x \in 0 .. used /\ Linked(x)' = Linked(x)
    BY <1>9, <2>1, RestAhead
  <2>5. next'[frames'[i].evh] = x
    BY <1>8, <2>3
  <2>6. Linked(next[frames[i].evh])' = Linked(x)'
    BY <2>5
  <2> QED BY <2>1, <2>3, <2>4, <2>6
<1>11. ASSUME NEW e \in Names
       PROVE  /\ {cb'[t] : t \in Linked(handlers[e])'}
                    = {a \in Callbacks : <<e, a>> \in registered'}
              /\ handlers'[e] # Null => prev'[handlers'[e]] = Null
              /\ \A t, u \in Linked(handlers[e])' : cb'[t] = cb'[u] => t = u
  <2> PICK h : h = handlers[e]
    OBVIOUS
  <2> PICK L : L = Linked(h)
    OBVIOUS
  <2>0. /\ h \in 0 .. used /\ (h # Null => name[h] = e /\ h \in Slots /\ h \in Allocated)
        /\ {cb[t] : t \in L} = {a \in Callbacks : <<e, a>> \in registered}
        /\ h # Null => prev[h] = Null
        /\ \A t, u \in L : cb[t] = cb[u] => t = u
    BY <1>2, <1>3 DEF ListsRight
  <2>1. CASE e \in E /\ h # Null /\ Matches(r, h)
    <3>1. l[e].head = next[h] /\ (next[h] # Null => l[e].prev[next[h]] = Null)
      BY <1>7, <2>1 DEF HeadUnlinked
    <3>2. next[h] \in 0 .. used
          /\ (next[h] # Null => next[h] \in Slots /\ name[next[h]] = e)
      BY <1>2, <2>0, <2>1, Sizes DEF LinkType
    <3>3. handlers'[e] = next[h]
      BY <1>6, <2>1, <3>1
    <3>4. handlers'[e] # Null => prev'[handlers'[e]] = Null
      BY <1>6, <2>1, <3>1, <3>2, <3>3
    <3> PICK R : R = Linked(next[h])
      OBVIOUS
    <3>5. Linked(handlers[e])' = R
      <4> PICK x : x = next[h]
        OBVIOUS
      <4>1. Linked(handlers[e])' = Linked(x)'
        BY <3>3
      <4> QED BY <1>9, <3>2, <4>1
    <3>6. L = R \cup {h} /\ h \in L
      <4>1. IsList(L, next, h) /\ IsList(R, next, next[h])
        BY <2>0, <3>2, ListIs
      <4>2. L = R \cup {h}
        BY <2>0, <2>1, <4>1, ListRest
      <4> QED BY <4>2
    <3>7. h \notin R
      <4>1. h \in Starts
        BY DEF Starts
      <4> QED BY <3>6, <4>1, OrderFollows DEF DispatchOrder
    <3>8. h \in H /\ \A s \in H : name[s] = e => s = h
      BY <1>1, <1>4, <2>1, <3>6
    <3>9. \A a : <<e, a>> \in registered' <=> <<e, a>> \in registered /\ a # cb[h]
      BY <1>0, <2>0, <2>1, <3>8
    <3>10. {cb[t] : t \in R} = {a \in Callbacks : <<e, a>> \in registered'}
      <4>1. \A t \in R : cb[t] # cb[h] /\ t \in L
        BY <2>0, <3>6, <3>7
      <4>2. \A t \in L : cb[t] \in Callbacks /\ <<e, cb[t]>> \in registered
        BY <2>0
      <4>3. \A a \in Callbacks : <<e, a>> \in registered => \E t \in L : cb[t] = a
        BY <2>0
      <4>4. \A t \in R : cb[t] \in Callbacks /\ <<e, cb[t]>> \in registered'
        BY <3>9, <4>1, <4>2
      <4>5. \A a \in Callbacks : <<e, a>> \in registered' => \E t \in R : cb[t] = a
        BY <3>6, <3>9, <4>3
      <4> QED BY <4>4, <4>5
    <3> QED BY <1>0, <2>0, <3>4, <3>5, <3>6, <3>10
  <2>2. CASE ~(e \in E /\ h # Null /\ Matches(r, h))
    <3>1. handlers'[e] = h
      BY <1>6, <1>7, <2>2 DEF HeadUnlinked
    <3>2. h # Null => prev'[h] = prev[h]
      BY <1>6, <1>7, <2>0, <2>2 DEF HeadUnlinked
    <3>3. Linked(handlers[e])' = L
      <4>1. Linked(handlers[e])' = Linked(h)'
        BY <3>1
      <4> QED BY <1>9, <2>0, <4>1
    <3>4. \A s \in H : name[s] # e
      <4> SUFFICES ASSUME NEW s \in H, name[s] = e PROVE FALSE
        OBVIOUS
      <4>1. s = h /\ e \in E /\ Matches(r, s) /\ s \in Linked(h)
        BY <1>1, <1>5
      <4>2. h = Null
        BY <2>2, <4>1
      <4>3. Linked(h) = {}
        BY <2>0, <4>2, LinkedIs DEF ListFacts
      <4> QED BY <4>1, <4>3
    <3>5. \A a : <<e, a>> \in registered' <=> <<e, a>> \in registered
      BY <1>0, <3>4
    <3> QED BY <1>0, <2>0, <3>1, <3>2, <3>3, <3>5
  <2> QED BY <2>1, <2>2
<1>12. ListsRight'
  BY <1>11 DEF ListsRight
<1> QED BY <1>10, <1>12

-----------------------------------------------------------------------------
(* HeadsFirst at first.                                                    *)
LEMMA InitHeads == Init => HeadsFirst
<1> SUFFICES ASSUME Init PROVE HeadsFirst
  OBVIOUS
<1>1. IInv
  BY InitInvariant
<1>2. \A e \in Names : handlers[e] = Null /\ handlers[e] \in 0 .. used
  BY <1>1 DEF Init, IInv, TypeOK
<1>3. \A e \in Names : Linked(handlers[e]) = {}
  BY <1>1, <1>2, LinkedIs DEF ListFacts
<1>4. ListsRight
  BY <1>2, <1>3 DEF ListsRight, Init
<1>5. DueAhead
  BY DEF DueAhead, Init
<1> QED BY <1>4, <1>5, HeadParts

(* Every step keeps it; and no step drops a call that owes the event.      *)
LEMMA NextHeads ==
  ASSUME IInv, IInv', HeadsFirst, [Next]_vars
  PROVE  /\ HeadsFirst'
         /\ UNCHANGED vars \/ (in_order' /\ Len(frames') < Len(frames) => Head(frames).due = {})
<1>0. frames \in Seq(Frame) /\ Len(frames) \in Nat
  BY DEF IInv, TypeOK
<1>1. CASE \E c \in Callbacks, e \in Names : pr_event_register(c, e)
  <2>1. HeadsFirst'
    BY <1>1, RegisterHeads
  <2>2. frames' = frames
    BY <1>1 DEF pr_event_register
  <2> QED BY <1>0, <2>1, <2>2
<1>2. CASE \E r \in Request : pr_event_unregister(r)
  <2>1. HeadsFirst'
    BY <1>2, UnregisterHeads
  <2>2. Len(frames') = Len(frames)
    <3>1. PICK r \in Request : pr_event_unregister(r)
      BY <1>2
    <3> PICK H : H = Hit(r)
      OBVIOUS
    <3>2. frames' = [i \in 1..Len(frames) |-> [frames[i] EXCEPT !.due = @ \ H]]
      BY <3>1 DEF pr_event_unregister
    <3> QED BY <1>0, <3>2
  <2> QED BY <1>0, <2>1, <2>2
<1>3. CASE \E e \in Names : pr_event_generate(e)
  <2>1. HeadsFirst'
    BY <1>3, GenerateHeads
  <2>2. Len(frames') >= Len(frames)
    <3>1. PICK e \in Names : pr_event_generate(e)
      BY <1>3
    <3>2. frames' = frames \/ \E f : frames' = <<f>> \o frames
      <4> HIDE DEF FirstListener, Cached, Invoke, Linked, Uncached
      <4> QED BY <3>1 DEF pr_event_generate
    <3>3. ASSUME NEW f, frames' = <<f>> \o frames PROVE Len(frames') = Len(frames) + 1
      <4> PICK F : F = Frame \cup {f}
        OBVIOUS
      <4>1. frames \in Seq(F) /\ f \in F
        BY <1>0
      <4>2. PICK g : g = <<f>> \o frames
        OBVIOUS
      <4>3. Len(g) = Len(frames) + 1
        BY <4>1, <4>2, Pushed
      <4> QED BY <3>3, <4>2, <4>3
    <3>4. frames' = frames \/ Len(frames') = Len(frames) + 1
      BY <3>2, <3>3, Zenon
    <3> QED BY <1>0, <3>4
  <2> QED BY <1>0, <2>1, <2>2
<1>4. CASE CallbackReturns
  BY <1>4, ReturnHeads
<1>5. CASE UNCHANGED vars
  <2>1. /\ UNCHANGED links /\ frames' = frames /\ registered' = registered
        /\ in_order' = in_order /\ next' = next /\ used' = used
    BY <1>5 DEF vars, history, links
  <2>2. HeadsFirst' <=> (in_order' => ListsRight' /\ DueAhead')
    BY HeadParts, PTL
  <2>3. in_order => ListsRight /\ DueAhead
    BY HeadParts
  <2>4. in_order => ListsRight'
    BY <2>1, <2>3, ListsStay
  <2>5. DueAhead => DueAhead'
    <3>1. \A x \in 0 .. used : Linked(x)' = Linked(x)
      BY <2>1, SameLists
    <3>2. \A i \in 1 .. Len(frames) : next[frames[i].evh] \in 0 .. used
      BY RestAhead DEF IInv, TypeOK
    <3> QED BY <2>1, <3>1, <3>2 DEF DueAhead
  <2> QED BY <1>5, <2>1, <2>2, <2>3, <2>4, <2>5
<1> QED BY <1>1, <1>2, <1>3, <1>4, <1>5 DEF Next

(* With IInv, HeadsFirst is inductive.                                     *)
LEMMA HeadsInvariant == Spec => []HeadsFirst
<1>1. Init => HeadsFirst
  BY InitHeads
<1>2. IInv /\ IInv' /\ HeadsFirst /\ [Next]_vars => HeadsFirst'
  BY NextHeads
<1> QED BY <1>1, <1>2, Inductive, PTL DEF Spec

(* While callers of pr_event_unregister ask for the first handler of a     *)
(* list only, the lists hold exactly the registered handlers.              *)
THEOREM InOrderComplete == Spec => []CompleteInOrder
<1>1. HeadsFirst => CompleteInOrder
  BY DEF HeadsFirst, CompleteInOrder
<1> QED BY <1>1, HeadsInvariant, PTL

(* And pr_event_generate leaves its list only when every handler that was  *)
(* on it, and was not unregistered meanwhile, has been given the event,    *)
(* whatever the handlers register, unregister or generate.                 *)
THEOREM AllDelivered == Spec => Delivered
<1>1. IInv /\ IInv' /\ HeadsFirst /\ [Next]_vars =>
        [in_order' /\ Len(frames') < Len(frames) => Head(frames).due = {}]_vars
  BY NextHeads
<1> QED BY <1>1, Inductive, HeadsInvariant, PTL DEF Spec, Delivered
=============================================================================
