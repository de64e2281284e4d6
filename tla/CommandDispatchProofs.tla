----------------------- MODULE CommandDispatchProofs ------------------------
(***************************************************************************)
(* Proofs about CommandDispatch: that every command reaches the log        *)
(* handlers, that responses live in pools that exist, that a rename ends,  *)
(* that every command is answered once, by its own handlers, and logged as *)
(* it was answered, and type correctness; for any table of handlers that   *)
(* meets the conditions of CommandInvariants.                              *)
(***************************************************************************)
EXTENDS CommandInvariants, SequenceTheorems, WellFoundedInduction, TLAPS

(* Lists. *)

LEMMA ListOf ==
    ASSUME NEW S, NEW s \in Seq(S) PROVE IsList(s)
<1>1. Len(s) \in Nat /\ DOMAIN s = 1..Len(s) /\ \A i \in 1..Len(s) : s[i] \in S
  OBVIOUS
<1>2. \A i \in 1..Len(s) : s[i] \in Range(s)
  BY <1>1 DEF Range
<1>3. s \in Seq(Range(s))
  BY <1>1, <1>2
<1> QED BY <1>3 DEF IsList

LEMMA ListFacts ==
    ASSUME NEW s, IsList(s)
    PROVE  /\ Len(s) \in Nat /\ DOMAIN s = 1..Len(s)
           /\ s # <<>> => Len(s) > 0 /\ Len(s) \in DOMAIN s
           /\ s = <<>> => Len(s) = 0
  BY DEF IsList

LEMMA AppendList ==
    ASSUME NEW s, IsList(s), NEW e
    PROVE  /\ IsList(Append(s, e)) /\ DOMAIN Append(s, e) = 1..(Len(s) + 1)
           /\ Len(Append(s, e)) = Len(s) + 1
           /\ Append(s, e)[Len(s) + 1] = e
           /\ \A i \in DOMAIN s : Append(s, e)[i] = s[i]
<1>1. PICK S : S = Range(s) \cup {e}
  OBVIOUS
<1>2. s \in Seq(S)
  <2>1. s \in Seq(Range(s))
    BY DEF IsList
  <2>2. Len(s) \in Nat /\ DOMAIN s = 1..Len(s) /\ \A i \in 1..Len(s) : s[i] \in S
    BY <1>1, <2>1
  <2> QED BY <2>1, <2>2
<1>3. e \in S
  BY <1>1
<1>4. Append(s, e) \in Seq(S)
  BY <1>2, <1>3
<1>5. IsList(Append(s, e))
  BY <1>4, ListOf
<1> QED BY <1>2, <1>3, <1>5

LEMMA TailList ==
    ASSUME NEW s, IsList(s), s # <<>>
    PROVE  /\ IsList(Tail(s)) /\ Len(Tail(s)) = Len(s) - 1
           /\ DOMAIN Tail(s) = 1..(Len(s) - 1)
           /\ \A i \in 1..(Len(s) - 1) : Tail(s)[i] = s[i + 1]
<1>1. PICK S : s \in Seq(S)
  BY DEF IsList
<1>2. Tail(s) \in Seq(S) /\ Len(Tail(s)) = Len(s) - 1
  BY <1>1
<1>3. IsList(Tail(s))
  BY <1>2, ListOf
<1> QED BY <1>1, <1>2, <1>3

LEMMA UpdateList ==
    ASSUME NEW s, IsList(s), NEW k \in DOMAIN s, NEW e
    PROVE  /\ IsList([s EXCEPT ![k] = e]) /\ Len([s EXCEPT ![k] = e]) = Len(s)
           /\ DOMAIN [s EXCEPT ![k] = e] = DOMAIN s
           /\ [s EXCEPT ![k] = e][k] = e
           /\ \A i \in DOMAIN s : i # k => [s EXCEPT ![k] = e][i] = s[i]
<1>1. PICK S, r : S = Range(s) \cup {e} /\ r = [s EXCEPT ![k] = e]
  OBVIOUS
<1>2. Len(s) \in Nat /\ DOMAIN s = 1..Len(s) /\ \A i \in 1..Len(s) : s[i] \in S
  BY <1>1 DEF IsList
<1>3. /\ DOMAIN r = 1..Len(s) /\ r[k] = e
      /\ \A i \in 1..Len(s) : i # k => r[i] = s[i]
      /\ r = [i \in 1..Len(s) |-> r[i]]
  BY <1>1, <1>2
<1>4. \A i \in 1..Len(s) : r[i] \in S
  BY <1>1, <1>2, <1>3
<1>5. r \in Seq(S) /\ Len(r) = Len(s)
  BY <1>2, <1>3, <1>4
<1>6. IsList(r)
  BY <1>5, ListOf
<1> QED BY <1>1, <1>2, <1>3, <1>5, <1>6

LEMMA FrontList ==
    ASSUME NEW s, IsList(s), s # <<>>
    PROVE  LET r == SubSeq(s, 1, Len(s) - 1)
           IN  /\ IsList(r) /\ Len(r) = Len(s) - 1 /\ DOMAIN r = 1..(Len(s) - 1)
               /\ \A i \in 1..(Len(s) - 1) : r[i] = s[i]
<1>1. PICK S : s \in Seq(S)
  BY DEF IsList
<1>2. Len(s) \in Nat /\ Len(s) > 0 /\ \A i \in 1..(Len(s) - 1) : s[i] \in S
  BY <1>1
<1>3. PICK r : r = SubSeq(s, 1, Len(s) - 1)
  OBVIOUS
<1>4. /\ r \in Seq(S) /\ Len(r) = Len(s) - 1
      /\ \A i \in 1..(Len(s) - 1) : r[i] = s[i]
  <2>1. /\ r \in Seq(S) /\ Len(r) = IF 1 <= Len(s) - 1 THEN Len(s) - 1 - 1 + 1 ELSE 0
        /\ \A i \in 1..(Len(s) - 1 - 1 + 1) : r[i] = s[1 + i - 1]
    BY <1>1, <1>2, <1>3, SubSeqProperties
  <2>2. Len(s) - 1 - 1 + 1 = Len(s) - 1 /\ \A i \in Nat : 1 + i - 1 = i
    BY <1>2
  <2>3. Len(r) = Len(s) - 1
    <3>1. CASE 1 <= Len(s) - 1
      BY <1>2, <2>1, <2>2, <3>1
    <3>2. CASE ~(1 <= Len(s) - 1)
      <4>1. Len(r) = 0
        BY <2>1, <3>2
      <4>2. \A n \in Nat : n > 0 /\ ~(1 <= n - 1) => n - 1 = 0
        OBVIOUS
      <4> QED BY <1>2, <3>2, <4>1, <4>2
    <3> QED BY <3>1, <3>2
  <2>4. ASSUME NEW i \in 1..(Len(s) - 1) PROVE r[i] = s[i]
    <3>1. i \in 1..(Len(s) - 1 - 1 + 1) /\ 1 + i - 1 = i
      BY <1>2, <2>2
    <3>2. r[i] = s[1 + i - 1]
      BY <3>1, <2>1
    <3> QED BY <3>1, <3>2
  <2> QED BY <2>1, <2>3, <2>4
<1>5. IsList(r)
  BY <1>4, ListOf
<1> QED BY <1>3, <1>4, <1>5

(* A non-empty set of natural numbers has a least element. *)
LEMMA LeastNatural ==
    ASSUME NEW T \in SUBSET Nat, T # {}
    PROVE  \E n \in T : \A m \in T : n <= m
<1>1. \E x \in T : \A y \in T : ~(<<y, x>> \in OpToRel(<, Nat))
  BY NatLessThanWellFounded, WFMin
<1>2. PICK x \in T : \A y \in T : ~(<<y, x>> \in OpToRel(<, Nat))
  BY <1>1
<1>3. \A y \in T : ~(y < x)
  BY <1>2 DEF OpToRel
<1> QED BY <1>3

LEMMA InsertAtList ==
    ASSUME NEW s, IsList(s), NEW k \in 1..Len(s), NEW e
    PROVE  /\ IsList(InsertAt(s, k, e))
           /\ \A i \in DOMAIN InsertAt(s, k, e) :
                 InsertAt(s, k, e)[i] = e \/ \E j \in DOMAIN s : InsertAt(s, k, e)[i] = s[j]
<1>1. PICK S : S = Range(s) \cup {e}
  OBVIOUS
<1>2. Len(s) \in Nat /\ DOMAIN s = 1..Len(s) /\ \A i \in 1..Len(s) : s[i] \in S
  BY <1>1 DEF IsList
<1>3. s \in Seq(S)
  BY <1>2 DEF IsList
<1>4. PICK a, b : a = SubSeq(s, 1, k - 1) /\ b = SubSeq(s, k, Len(s))
  OBVIOUS
<1>5. a \in Seq(S) /\ b \in Seq(S)
  <2>1. \A i \in 1..(k - 1) : s[i] \in S
    BY <1>2
  <2>2. \A i \in k..Len(s) : s[i] \in S
    BY <1>2
  <2> QED BY <2>1, <2>2, <1>2, <1>3, <1>4, SubSeqProperties
<1>6. e \in S
  BY <1>1
<1>7. (a \o <<e>>) \o b \in Seq(S)
  BY <1>5, <1>6
<1>8. InsertAt(s, k, e) = (a \o <<e>>) \o b
  BY <1>4 DEF InsertAt
<1>9. PICK r : r = InsertAt(s, k, e)
  OBVIOUS
<1>10. r \in Seq(S)
  BY <1>7, <1>8, <1>9
<1>11. IsList(r)
  BY <1>10, ListOf
<1>12. \A i \in DOMAIN r : r[i] \in S
  BY <1>10
<1>13. \A x \in S : x = e \/ \E j \in DOMAIN s : x = s[j]
  BY <1>1 DEF Range
<1> QED BY <1>9, <1>11, <1>12, <1>13
-----------------------------------------------------------------------------
(* pr_response_add_real: the new response, and those that were there, of   *)
(* which only the code may be filled in.                                   *)
LEMMA InsertResponses ==
    ASSUME NEW list, Responses(list), NEW r, DOMAIN r = {"num", "by", "pool"}
    PROVE  /\ Responses(Insert(list, r))
           /\ \A i \in DOMAIN Insert(list, r) :
                 \/ Insert(list, r)[i].pool = r.pool
                 \/ \E j \in DOMAIN list : Insert(list, r)[i].pool = list[j].pool
           /\ \A i \in DOMAIN Insert(list, r) :
                 \/ Insert(list, r)[i].by = r.by
                 \/ \E j \in DOMAIN list : Insert(list, r)[i].by = list[j].by
<1> DEFINE filled == [i \in DOMAIN list |->
                         IF r.num # R_DUP /\ list[i].num = R_DUP
                         THEN [list[i] EXCEPT !.num = r.num] ELSE list[i]]
           I == {i \in 1..Len(filled) : filled[i].num > r.num}
           higher == SelectInSeq(filled, LAMBDA q : q.num > r.num)
<1>1. Len(list) \in Nat /\ DOMAIN list = 1..Len(list)
  BY ListFacts DEF Responses
<1>2. \A i \in DOMAIN list : /\ DOMAIN filled[i] = {"num", "by", "pool"}
                             /\ filled[i].pool = list[i].pool /\ filled[i].by = list[i].by
  BY DEF Responses
<1>3. IsList(filled) /\ DOMAIN filled = DOMAIN list /\ Len(filled) = Len(list)
  <2>1. PICK S : S = {filled[i] : i \in DOMAIN list}
    OBVIOUS
  <2>2. filled \in [1..Len(list) -> S]
    BY <1>1, <2>1
  <2>3. filled \in Seq(S) /\ Len(filled) = Len(list)
    BY <1>1, <2>2
  <2>4. IsList(filled)
    BY <2>3, ListOf
  <2> QED BY <2>3, <2>4
<1> HIDE DEF filled
<1>4. higher = 0 \/ higher \in 1..Len(filled)
  <2>1. higher = IF I # {} THEN Min(I) ELSE 0
    BY DEF SelectInSeq
  <2>2. ASSUME I # {} PROVE Min(I) \in I
    <3>1. I \in SUBSET Nat
      BY <1>1, <1>3
    <3>2. \E n \in I : \A m \in I : n <= m
      BY <2>2, <3>1, LeastNatural
    <3> QED BY <3>2 DEF Min
  <2> QED BY <2>1, <2>2
<1>5. Insert(list, r) = IF r.num = R_DUP \/ higher = 0 THEN Append(filled, r)
                        ELSE InsertAt(filled, higher, r)
  BY DEF Insert, filled
<1> HIDE DEF higher
<1>6. PICK res : res = Insert(list, r)
  OBVIOUS
<1>7. IsList(res) /\ \A i \in DOMAIN res : res[i] = r \/ \E j \in DOMAIN filled : res[i] = filled[j]
  <2>1. CASE r.num = R_DUP \/ higher = 0
    <3>1. res = Append(filled, r)
      BY <1>5, <1>6, <2>1
    <3>2. /\ IsList(res) /\ DOMAIN res = 1..(Len(filled) + 1)
          /\ res[Len(filled) + 1] = r /\ \A i \in DOMAIN filled : res[i] = filled[i]
      BY <3>1, <1>3, AppendList
    <3> QED BY <3>2, <1>1, <1>3
  <2>2. CASE ~(r.num = R_DUP \/ higher = 0)
    <3>1. res = InsertAt(filled, higher, r) /\ higher \in 1..Len(filled)
      BY <1>4, <1>5, <1>6, <2>2
    <3> QED BY <3>1, <1>3, InsertAtList
  <2> QED BY <2>1, <2>2
<1> DEFINE Kept(i) ==
        /\ DOMAIN res[i] = {"num", "by", "pool"}
        /\ res[i].pool = r.pool \/ \E j \in DOMAIN list : res[i].pool = list[j].pool
        /\ res[i].by = r.by \/ \E j \in DOMAIN list : res[i].by = list[j].by
<1>8. ASSUME NEW i \in DOMAIN res PROVE Kept(i)
  <2>1. CASE res[i] = r
    BY <2>1
  <2>2. ASSUME NEW j \in DOMAIN list, res[i] = filled[j] PROVE Kept(i)
    BY <2>2, <1>2
  <2> QED BY <2>1, <2>2, <1>3, <1>7
<1> QED BY <1>6, <1>7, <1>8 DEF Responses
-----------------------------------------------------------------------------
(* One dispatched command. *)

(* The start of the next phase. *)
LEMMA AtFields ==
    ASSUME NEW f, DOMAIN f = FrameFields, NEW phase, NEW scope
    PROVE  LET g == At(f, phase, scope)
           IN  /\ DOMAIN g = FrameFields
               /\ g.cmd = f.cmd /\ g.client = f.client /\ g.saved = f.saved
               /\ g.failed = f.failed /\ g.logged = f.logged
               /\ g.phase = phase /\ g.scope = scope /\ g.row = 0
               /\ g.returns = "NONE" /\ g.todo = <<>> /\ g.num = R_DUP
  BY DEF At, FrameFields

LEMMA EmptyList == IsList(<<>>)
  BY DEF IsList

(* The command, its number and the pool kept aside do not change.          *)
SameCommand(f, g) == g.cmd = f.cmd /\ g.client = f.client /\ g.saved = f.saved

(* At the start of a phase no log handler of it has been called; once the  *)
(* handlers for all commands are through, all of them have.                *)
LEMMA AtGood ==
    ASSUME NEW f, DOMAIN f = FrameFields, f.failed \in {"NO", "PRE_CMD", "CMD"},
           NEW phase \in Phases, NEW scope \in {"ANY", "OWN"},
           phase \in {"PRE_CMD", "CMD", "POST_CMD"} => f.failed = "NO",
           phase = "POST_CMD_ERR" => f.failed # "NO",
           IsLog(phase) => phase = LogPhase(f),
           phase = "END" \/ (IsLog(phase) /\ scope = "OWN") =>
              \A i \in DOMAIN Table :
                 Table[i].cmd = ANY /\ Table[i].phase = LogPhase(f) => i \in f.logged
    PROVE  GoodFrame(At(f, phase, scope)) /\ SameCommand(f, At(f, phase, scope))
<1>1. PICK g : g = At(f, phase, scope)
  OBVIOUS
<1>2. /\ DOMAIN g = FrameFields
      /\ g.cmd = f.cmd /\ g.client = f.client /\ g.saved = f.saved
      /\ g.failed = f.failed /\ g.logged = f.logged
      /\ g.phase = phase /\ g.scope = scope /\ g.row = 0
      /\ g.returns = "NONE" /\ g.todo = <<>>
  BY <1>1, AtFields
<1>3. LogPhase(g) = LogPhase(f)
  BY <1>2 DEF LogPhase
<1>4. Framed(g)
  BY <1>2, EmptyList DEF Framed
<1>5. PhaseOfOutcome(g) /\ LogGoesOn(g) /\ EndsIdle(g)
  BY <1>2, <1>3 DEF PhaseOfOutcome, LogGoesOn, EndsIdle, Running
<1>6. LoggedSoFar(g)
  <2> SUFFICES ASSUME NEW i \in DOMAIN Table, Table[i].cmd = ANY,
                      Table[i].phase = LogPhase(g),
                      \/ IsLog(g.phase) /\ (g.scope = "ANY" => i <= g.row)
                      \/ g.phase = "END"
               PROVE  i \in g.logged
    BY DEF LoggedSoFar
  <2>1. i \in Nat \ {0}
    BY TableAssumption, ListFacts
  <2> QED BY <1>2, <1>3, <2>1
<1> QED BY <1>1, <1>2, <1>4, <1>5, <1>6 DEF GoodFrame, SameCommand

(* pr_cmd_dispatch_phase after a call of _dispatch. *)
LEMMA AdvanceGood ==
    ASSUME NEW f, GoodFrame(f), f.phase # "END", NEW res \in {-1, 0, 1},
           IsLog(f.phase) /\ f.scope = "ANY" =>
              \A i \in DOMAIN Table :
                 Table[i].cmd = ANY /\ Table[i].phase = f.phase => i \in f.logged
    PROVE  /\ GoodFrame(Advance(f, res)) /\ SameCommand(f, Advance(f, res))
           /\ Advance(f, res).returns = "NONE" /\ Advance(f, res).todo = <<>>
           /\ IF res < 0 /\ f.phase \in {"PRE_CMD", "CMD"}
              THEN Advance(f, res).failed # "NO" ELSE Advance(f, res).failed = f.failed
           /\ Advance(f, res).phase = "PRE_CMD" => f.phase = "PRE_CMD"
           /\ Advance(f, res).phase = "CMD" =>
                 f.phase = "PRE_CMD" \/ (f.phase = "CMD" /\ res = 0)
           /\ Advance(f, res).row = 0
           /\ Advance(f, res).phase = "END" => IsLog(f.phase) /\ f.scope = "OWN"
           /\ IsLog(Advance(f, res).phase) /\ Advance(f, res).scope = "OWN" =>
                 IsLog(f.phase) /\ f.scope = "ANY"
           /\ Advance(f, res).num = R_DUP
           /\ f.phase = "PRE_CMD" /\ res # -1 => Advance(f, res).phase \in {"PRE_CMD", "CMD"}
           /\ f.phase = "CMD" /\ res = 0 => Advance(f, res).phase = "CMD"
<1>1. PICK g : g = IF IsLog(f.phase) \/ f.failed = "PRE_CMD" THEN f
                   ELSE [f EXCEPT !.result = res]
  OBVIOUS
<1>2. /\ DOMAIN g = FrameFields /\ SameCommand(f, g)
      /\ g.phase = f.phase /\ g.scope = f.scope /\ g.failed = f.failed
      /\ g.logged = f.logged
  BY <1>1 DEF GoodFrame, Framed, FrameFields, SameCommand
<1>3. PICK h : h = [g EXCEPT !.failed = f.phase]
  OBVIOUS
<1>4. /\ DOMAIN h = FrameFields /\ SameCommand(f, h) /\ h.failed = f.phase
      /\ h.logged = f.logged
  BY <1>2, <1>3 DEF FrameFields, SameCommand
<1>5. /\ f.phase \in Phases /\ f.scope \in {"ANY", "OWN"}
      /\ f.failed \in {"NO", "PRE_CMD", "CMD"}
      /\ PhaseOfOutcome(f) /\ LoggedSoFar(f)
  BY DEF GoodFrame, Framed
<1>6. CASE res < 0 /\ f.phase \in {"PRE_CMD", "CMD"}
  <2>1. Advance(f, res) = At(h, "POST_CMD_ERR", "ANY")
    <3>1. CASE f.phase = "PRE_CMD"
      BY <1>1, <1>2, <1>3, <1>6, <3>1 DEF Advance, IsLog
    <3>2. CASE f.phase = "CMD"
      BY <1>1, <1>2, <1>3, <1>6, <3>2 DEF Advance, IsLog
    <3> QED BY <1>6, <3>1, <3>2
  <2>2. GoodFrame(At(h, "POST_CMD_ERR", "ANY")) /\ SameCommand(h, At(h, "POST_CMD_ERR", "ANY"))
    BY <1>4, <1>6, AtGood DEF Phases, IsLog
  <2>3. /\ At(h, "POST_CMD_ERR", "ANY").returns = "NONE" /\ At(h, "POST_CMD_ERR", "ANY").todo = <<>>
        /\ At(h, "POST_CMD_ERR", "ANY").failed # "NO"
        /\ At(h, "POST_CMD_ERR", "ANY").phase = "POST_CMD_ERR"
        /\ At(h, "POST_CMD_ERR", "ANY").row = 0 /\ At(h, "POST_CMD_ERR", "ANY").num = R_DUP
    BY <1>4, <1>6, AtFields
  <2> QED BY <1>4, <1>6, <2>1, <2>2, <2>3 DEF SameCommand, IsLog
<1>7. CASE ~(res < 0 /\ f.phase \in {"PRE_CMD", "CMD"})
  <2>1. PICK phase \in Phases, scope \in {"ANY", "OWN"} :
           /\ Advance(f, res) = At(g, phase, scope)
           /\ \/ f.phase = "PRE_CMD" /\ phase \in {"PRE_CMD", "CMD"}
              \/ f.phase = "CMD" /\ phase \in {"CMD", "POST_CMD"} /\ (phase = "CMD" <=> res = 0)
              \/ f.phase = "POST_CMD" /\ phase = "POST_CMD"
              \/ f.phase = "POST_CMD" /\ phase = "LOG_CMD" /\ scope = "ANY"
              \/ f.phase = "POST_CMD_ERR" /\ phase = "POST_CMD_ERR"
              \/ f.phase = "POST_CMD_ERR" /\ phase = "LOG_CMD_ERR" /\ scope = "ANY"
              \/ IsLog(f.phase) /\ f.scope = "ANY" /\ phase = f.phase /\ scope = "OWN"
              \/ IsLog(f.phase) /\ f.scope = "OWN" /\ phase = "END"
    <3>1. CASE f.phase = "PRE_CMD"
      BY <1>1, <1>2, <1>7, <3>1 DEF Advance, Phases, IsLog
    <3>2. CASE f.phase = "CMD"
      BY <1>1, <1>2, <1>7, <3>2 DEF Advance, Phases, IsLog
    <3>3. CASE f.phase = "POST_CMD"
      BY <1>1, <1>2, <3>3 DEF Advance, Phases, IsLog
    <3>4. CASE f.phase = "POST_CMD_ERR"
      BY <1>1, <1>2, <3>4 DEF Advance, Phases, IsLog
    <3>5. CASE IsLog(f.phase)
      <4>1. Advance(f, res) = At(g, IF f.scope = "ANY" THEN f.phase ELSE "END", "OWN")
        BY <1>1, <1>2, <3>5 DEF Advance, IsLog
      <4> QED BY <4>1, <1>5, <3>5 DEF Phases
    <3> QED BY <1>5, <3>1, <3>2, <3>3, <3>4, <3>5 DEF Phases, IsLog
  <2>2. LogPhase(g) = LogPhase(f)
    BY <1>2 DEF LogPhase
  <2>3. phase = "END" \/ (IsLog(phase) /\ scope = "OWN") =>
           \A i \in DOMAIN Table :
              Table[i].cmd = ANY /\ Table[i].phase = LogPhase(g) => i \in g.logged
    BY <1>2, <1>5, <2>1, <2>2 DEF PhaseOfOutcome, LoggedSoFar, IsLog
  <2>4. /\ phase \in {"PRE_CMD", "CMD", "POST_CMD"} => g.failed = "NO"
        /\ phase = "POST_CMD_ERR" => g.failed # "NO"
        /\ IsLog(phase) => phase = LogPhase(g)
    BY <1>2, <1>5, <2>1 DEF PhaseOfOutcome, IsLog, LogPhase
  <2>5. GoodFrame(At(g, phase, scope)) /\ SameCommand(g, At(g, phase, scope))
    BY <1>2, <1>5, <2>3, <2>4, AtGood
  <2>6. /\ At(g, phase, scope).returns = "NONE" /\ At(g, phase, scope).todo = <<>>
        /\ At(g, phase, scope).failed = f.failed /\ At(g, phase, scope).phase = phase
        /\ At(g, phase, scope).scope = scope /\ At(g, phase, scope).row = 0
        /\ At(g, phase, scope).num = R_DUP
    BY <1>2, AtFields
  <2> QED BY <1>2, <1>7, <2>1, <2>5, <2>6 DEF SameCommand, IsLog
<1> QED BY <1>6, <1>7

(* The next handler is the first one after the current row that matches.   *)
Matches(f, i) == Table[i].cmd = Match(f) /\ Table[i].phase = f.phase

LEMMA NextRowIs ==
    ASSUME NEW f
    PROVE  IF NextRow(f) = 0 THEN \A i \in DOMAIN Table : i > f.row => ~Matches(f, i)
           ELSE /\ NextRow(f) \in DOMAIN Table /\ NextRow(f) > f.row /\ Matches(f, NextRow(f))
                /\ \A i \in DOMAIN Table : i > f.row /\ Matches(f, i) => NextRow(f) <= i
<1> DEFINE rest == {i \in DOMAIN Table : i > f.row /\ Table[i].cmd = Match(f)
                                                   /\ Table[i].phase = f.phase}
<1>1. rest \in SUBSET (Nat \ {0})
  BY TableAssumption, ListFacts
<1>2. CASE rest = {}
  <2>1. NextRow(f) = 0
    BY <1>2 DEF NextRow
  <2> QED BY <2>1, <1>2 DEF Matches
<1>3. CASE rest # {}
  <2>1. \E n \in rest : \A m \in rest : n <= m
    BY <1>1, <1>3, LeastNatural
  <2>2. NextRow(f) = CHOOSE i \in rest : \A j \in rest : i <= j
    BY <1>3 DEF NextRow
  <2>3. NextRow(f) \in rest /\ \A j \in rest : NextRow(f) <= j
    BY <2>1, <2>2
  <2>4. NextRow(f) # 0
    BY <1>1, <2>3
  <2> QED BY <2>3, <2>4 DEF Matches
<1> QED BY <1>2, <1>3

(* A command that has just been read. *)
LEMMA NewFrameGood ==
    ASSUME NEW c, NEW client, NEW saved
    PROVE  LET g == NewFrame(c, client, saved)
           IN  /\ GoodFrame(g) /\ g.cmd = c /\ g.client = client /\ g.saved = saved
               /\ g.todo = <<>> /\ g.phase = "PRE_CMD" /\ g.returns = "NONE"
               /\ g.num = R_DUP /\ g.failed = "NO"
<1>1. PICK g : g = NewFrame(c, client, saved)
  OBVIOUS
<1>2. /\ DOMAIN g = FrameFields
      /\ g.cmd = c /\ g.client = client /\ g.saved = saved
      /\ g.failed = "NO" /\ g.logged = {} /\ g.phase = "PRE_CMD" /\ g.scope = "ANY"
      /\ g.row = 0 /\ g.returns = "NONE" /\ g.todo = <<>> /\ g.num = R_DUP
  BY <1>1 DEF NewFrame, FrameFields
<1>3. GoodFrame(g)
  BY <1>2, EmptyList DEF GoodFrame, Framed, PhaseOfOutcome, LoggedSoFar, LogGoesOn, IsLog, Phases, EndsIdle, Running
<1> QED BY <1>1, <1>2, <1>3

(* The handler that is called. *)
Called(f, b) ==
    [f EXCEPT !.row = NextRow(f), !.todo = b.calls, !.returns = b.returns, !.num = b.num,
              !.logged = IF IsLog(f.phase) THEN @ \cup {NextRow(f)} ELSE @]

LEMMA CalledGood ==
    ASSUME NEW f, GoodFrame(f), f.phase # "END", NextRow(f) # 0,
           NEW b \in Table[NextRow(f)].does
    PROVE  /\ GoodFrame(Called(f, b)) /\ SameCommand(f, Called(f, b))
           /\ Called(f, b).todo = b.calls /\ Called(f, b).returns = b.returns
           /\ Called(f, b).phase = f.phase /\ Called(f, b).failed = f.failed
           /\ Called(f, b).scope = f.scope /\ Called(f, b).row = NextRow(f)
           /\ Called(f, b).num = b.num
<1>1. PICK g, n : g = Called(f, b) /\ n = NextRow(f)
  OBVIOUS
<1>2. /\ n \in DOMAIN Table /\ n > f.row /\ Matches(f, n)
      /\ \A i \in DOMAIN Table : i > f.row /\ Matches(f, i) => n <= i
  BY <1>1, NextRowIs
<1>3. /\ DOMAIN f = FrameFields /\ f.row \in Nat /\ n \in Nat
      /\ \A i \in DOMAIN Table : i \in Nat
  BY <1>2, TableAssumption, ListFacts DEF GoodFrame, Framed
<1>4. /\ DOMAIN g = FrameFields /\ SameCommand(f, g)
      /\ g.failed = f.failed /\ g.phase = f.phase /\ g.scope = f.scope
      /\ g.row = n /\ g.returns = b.returns /\ g.todo = b.calls /\ g.num = b.num
      /\ g.logged = IF IsLog(f.phase) THEN f.logged \cup {n} ELSE f.logged
  BY <1>1, <1>3 DEF Called, FrameFields, SameCommand
<1>5. IsList(b.calls) /\ b.returns \in {"HANDLED", "DECLINED", "ERROR"}
  BY <1>1, <1>2, TableAssumption
<1>6. Framed(g) /\ PhaseOfOutcome(g)
  BY <1>3, <1>4, <1>5 DEF GoodFrame, Framed, PhaseOfOutcome, LogPhase
<1>7. LogGoesOn(g) /\ EndsIdle(g)
  BY <1>1, <1>2, <1>4, <1>5, LogAssumption DEF LogGoesOn, Matches, Match, EndsIdle, Running
<1>8. LoggedSoFar(g)
  <2> SUFFICES ASSUME NEW i \in DOMAIN Table, Table[i].cmd = ANY,
                      Table[i].phase = LogPhase(g),
                      IsLog(g.phase), g.scope = "ANY" => i <= g.row
               PROVE  i \in g.logged
    BY <1>4 DEF LoggedSoFar
  <2>1. LogPhase(g) = LogPhase(f) /\ f.phase = LogPhase(f)
    BY <1>4 DEF LogPhase, GoodFrame, PhaseOfOutcome
  <2>2. CASE f.scope = "ANY" /\ i > f.row
    <3>1. Matches(f, i)
      BY <2>1, <2>2 DEF Matches, Match
    <3>2. n <= i /\ i <= n
      BY <1>2, <1>4, <2>2, <3>1
    <3> QED BY <1>3, <1>4, <3>2
  <2>3. CASE ~(f.scope = "ANY" /\ i > f.row)
    <3>1. i \in f.logged
      <4>1. f.scope = "ANY" => i <= f.row
        BY <1>3, <2>3
      <4> QED BY <1>4, <2>1, <4>1 DEF GoodFrame, LoggedSoFar
    <3> QED BY <1>4, <3>1
  <2> QED BY <2>2, <2>3
<1> QED BY <1>1, <1>4, <1>6, <1>7, <1>8 DEF GoodFrame

(* The log handlers for all commands are through when none is left.        *)
LEMMA AllLogged ==
    ASSUME NEW f, GoodFrame(f), NextRow(f) = 0, IsLog(f.phase), f.scope = "ANY",
           NEW i \in DOMAIN Table, Table[i].cmd = ANY, Table[i].phase = f.phase
    PROVE  i \in f.logged
<1>1. i \in Nat /\ f.row \in Nat
  BY TableAssumption, ListFacts DEF GoodFrame, Framed
<1>2. i <= f.row
  <2>1. ~(i > f.row)
    BY NextRowIs DEF Matches, Match
  <2> QED BY <1>1, <2>1
<1> QED BY <1>2 DEF GoodFrame, LoggedSoFar, PhaseOfOutcome

(* A handler that has declined, or failed in a log phase. *)
LEMMA KeepLookingGood ==
    ASSUME NEW f, GoodFrame(f), f.todo = <<>>
    PROVE  LET g == [f EXCEPT !.returns = "NONE", !.num = R_DUP]
           IN  /\ GoodFrame(g) /\ SameCommand(f, g) /\ g.returns = "NONE"
               /\ g.todo = f.todo /\ g.phase = f.phase /\ g.failed = f.failed
               /\ g.scope = f.scope /\ g.row = f.row /\ g.num = R_DUP
<1>1. PICK g : g = [f EXCEPT !.returns = "NONE", !.num = R_DUP]
  OBVIOUS
<1>2. /\ DOMAIN g = FrameFields /\ SameCommand(f, g)
      /\ g.failed = f.failed /\ g.phase = f.phase /\ g.scope = f.scope
      /\ g.row = f.row /\ g.returns = "NONE" /\ g.todo = f.todo /\ g.logged = f.logged
      /\ g.num = R_DUP
  BY <1>1 DEF GoodFrame, Framed, FrameFields, SameCommand
<1>3. GoodFrame(g)
  BY <1>2 DEF GoodFrame, Framed, PhaseOfOutcome, LogPhase, LoggedSoFar, LogGoesOn, EndsIdle, Running
<1> QED BY <1>1, <1>2, <1>3

(* A call that a handler has made, and a caller that goes on with what the *)
(* command it has dispatched returned.                                     *)
GoesOn(f, r) == [f EXCEPT !.todo = Tail(@), !.returns = r]

LEMMA CallMadeGood ==
    ASSUME NEW f, GoodFrame(f), f.todo # <<>>, NEW r,
           r = f.returns \/ r = "ERROR"
    PROVE  /\ GoodFrame(GoesOn(f, r)) /\ SameCommand(f, GoesOn(f, r))
           /\ GoesOn(f, r).returns = r /\ GoesOn(f, r).todo = Tail(f.todo)
           /\ GoesOn(f, r).phase = f.phase /\ GoesOn(f, r).failed = f.failed
           /\ GoesOn(f, r).scope = f.scope /\ GoesOn(f, r).row = f.row
           /\ GoesOn(f, r).num = f.num
<1>1. PICK g : g = GoesOn(f, r)
  OBVIOUS
<1>2. /\ DOMAIN g = FrameFields /\ SameCommand(f, g)
      /\ g.failed = f.failed /\ g.phase = f.phase /\ g.scope = f.scope
      /\ g.row = f.row /\ g.returns = r /\ g.todo = Tail(f.todo) /\ g.logged = f.logged
      /\ g.num = f.num
  BY <1>1 DEF GoesOn, GoodFrame, Framed, FrameFields, SameCommand
<1>3. IsList(g.todo)
  BY <1>2, TailList DEF GoodFrame, Framed
<1>4. GoodFrame(g)
  BY <1>2, <1>3 DEF GoodFrame, Framed, PhaseOfOutcome, LogPhase, LoggedSoFar, LogGoesOn, EndsIdle, Running
<1> QED BY <1>1, <1>2, <1>4
-----------------------------------------------------------------------------
(* The stack. *)

LEMMA TopOfStack ==
    ASSUME NEW s, GoodStack(s), s # <<>>
    PROVE  /\ Len(s) \in Nat /\ Len(s) > 0 /\ DOMAIN s = 1..Len(s) /\ Len(s) \in DOMAIN s
           /\ GoodFrame(s[Len(s)])
  BY ListFacts DEF GoodStack

LEMMA StackSet ==
    ASSUME NEW s, GoodStack(s), s # <<>>, NEW g, GoodFrame(g)
    PROVE  LET r == [s EXCEPT ![Len(s)] = g]
           IN  /\ GoodStack(r) /\ Len(r) = Len(s) /\ DOMAIN r = DOMAIN s
               /\ r[Len(s)] = g /\ \A i \in DOMAIN s : i # Len(s) => r[i] = s[i]
<1>1. IsList(s) /\ Len(s) \in DOMAIN s
  BY TopOfStack DEF GoodStack
<1>2. PICK r : r = [s EXCEPT ![Len(s)] = g]
  OBVIOUS
<1>3. /\ IsList(r) /\ DOMAIN r = DOMAIN s /\ r[Len(s)] = g /\ Len(r) = Len(s)
      /\ \A i \in DOMAIN s : i # Len(s) => r[i] = s[i]
  BY <1>1, <1>2, UpdateList
<1>4. ASSUME NEW i \in DOMAIN r PROVE GoodFrame(r[i]) /\ (i < Len(r) => Waits(r[i]))
  <2>1. CASE i = Len(s)
    <3>1. ~(i < Len(r))
      BY <1>1, <1>3, <2>1, TopOfStack
    <3> QED BY <1>3, <2>1, <3>1
  <2>2. CASE i # Len(s)
    BY <1>3, <2>2 DEF GoodStack
  <2> QED BY <2>1, <2>2
<1> QED BY <1>2, <1>3, <1>4 DEF GoodStack

LEMMA StackPushed ==
    ASSUME NEW s, GoodStack(s), s # <<>> => Waits(s[Len(s)]),
           NEW g, GoodFrame(g)
    PROVE  LET r == Append(s, g)
           IN  /\ GoodStack(r) /\ r # <<>> /\ Len(r) = Len(s) + 1 /\ Len(s) \in Nat
               /\ DOMAIN r = 1..(Len(s) + 1) /\ DOMAIN s = 1..Len(s)
               /\ r[Len(s) + 1] = g /\ \A i \in DOMAIN s : r[i] = s[i]
<1>1. IsList(s) /\ Len(s) \in Nat /\ DOMAIN s = 1..Len(s)
  BY ListFacts DEF GoodStack
<1>2. PICK r : r = Append(s, g)
  OBVIOUS
<1>3. /\ IsList(r) /\ DOMAIN r = 1..(Len(s) + 1) /\ r[Len(s) + 1] = g /\ Len(r) = Len(s) + 1
      /\ \A i \in DOMAIN s : r[i] = s[i]
  BY <1>1, <1>2, AppendList
<1>4. ASSUME NEW i \in DOMAIN r PROVE GoodFrame(r[i]) /\ (i < Len(r) => Waits(r[i]))
  <2>1. i = Len(s) + 1 \/ i \in DOMAIN s
    BY <1>1, <1>3
  <2>2. CASE i = Len(s) + 1
    BY <1>1, <1>3, <2>2
  <2>3. CASE i \in DOMAIN s
    <3>1. s # <<>> /\ (i = Len(s) \/ i < Len(s))
      BY <1>1, <2>3
    <3> QED BY <1>3, <2>3, <3>1 DEF GoodStack
  <2> QED BY <2>1, <2>2, <2>3
<1>5. r # <<>>
  BY <1>1, <1>3
<1> QED BY <1>1, <1>2, <1>3, <1>4, <1>5 DEF GoodStack

LEMMA StackPopped ==
    ASSUME NEW s, GoodStack(s), s # <<>>
    PROVE  LET r == SubSeq(s, 1, Len(s) - 1)
           IN  /\ GoodStack(r) /\ Len(r) = Len(s) - 1 /\ DOMAIN r = 1..(Len(s) - 1)
               /\ \A i \in 1..(Len(s) - 1) : r[i] = s[i] /\ Waits(r[i])
               /\ Len(s) = 1 => r = <<>>
<1>1. PICK r : r = SubSeq(s, 1, Len(s) - 1)
  OBVIOUS
<1>2. IsList(s) /\ Len(s) \in Nat /\ DOMAIN s = 1..Len(s)
  BY ListFacts DEF GoodStack
<1>3. /\ IsList(r) /\ DOMAIN r = 1..(Len(s) - 1) /\ \A i \in 1..(Len(s) - 1) : r[i] = s[i]
      /\ Len(r) = Len(s) - 1
  BY <1>1, <1>2, FrontList
<1>4. \A i \in 1..(Len(s) - 1) : i \in DOMAIN s /\ i < Len(s)
  BY <1>2
<1>5. \A i \in 1..(Len(s) - 1) : r[i] = s[i] /\ Waits(r[i]) /\ GoodFrame(r[i])
  BY <1>3, <1>4 DEF GoodStack
<1>6. GoodStack(r)
  BY <1>3, <1>5 DEF GoodStack
<1>7. Len(s) = 1 => r = <<>>
  BY <1>3 DEF IsList
<1> QED BY <1>1, <1>3, <1>5, <1>6, <1>7
-----------------------------------------------------------------------------
(* The lists of responses. *)

LEMMA Added ==
    ASSUME IInv, NEW num, pr_response_add(num)
    PROVE  Responses(resp_list') /\ Responses(resp_err_list')
<1>1. DOMAIN Response(num) = {"num", "by", "pool"}
  BY DEF Response
<1> QED BY <1>1, InsertResponses DEF IInv, pr_response_add

LEMMA AddedErr ==
    ASSUME IInv, NEW num, pr_response_add_err(num)
    PROVE  Responses(resp_list') /\ Responses(resp_err_list')
<1>1. DOMAIN Response(num) = {"num", "by", "pool"}
  BY DEF Response
<1> QED BY <1>1, InsertResponses DEF IInv, pr_response_add_err

LEMMA NoResponses == Responses(<<>>)
  BY EmptyList DEF Responses

(* A step that changes the innermost command, not the lists. *)
LEMMA SetTopIInv ==
    ASSUME IInv, stack # <<>>, NEW g, GoodFrame(g), stack' = SetTop(g),
           Responses(resp_list'), Responses(resp_err_list'), nread' = nread
    PROVE  IInv'
<1>1. GoodStack(stack')
  BY StackSet DEF IInv, SetTop
<1> QED BY <1>1 DEF IInv

LEMMA TopGood ==
    ASSUME IInv, stack # <<>> PROVE GoodFrame(top)
  BY TopOfStack DEF IInv, top
-----------------------------------------------------------------------------
(* Every step keeps the invariant. *)

LEMMA InitIInv == Init => IInv
<1>1. GoodStack(<<>>)
  BY EmptyList DEF GoodStack
<1> QED BY <1>1, NoResponses DEF Init, IInv

(* Entry of pr_cmd_dispatch. *)
LEMMA BeginIInv ==
    ASSUME IInv, NEW below, GoodStack(below), below # <<>> => Waits(below[Len(below)]),
           NEW c, NEW client, Begin(c, client, below), nread' \in Nat
    PROVE  IInv'
<1>1. GoodFrame(NewFrame(c, client, resp_pool))
  BY NewFrameGood
<1>2. GoodStack(stack')
  BY <1>1, StackPushed DEF Begin
<1> QED BY <1>2, NoResponses DEF IInv, Begin

LEMMA AuthCheckFailsIInv ==
    ASSUME IInv, AuthCheckFails PROVE IInv'
<1>1. stack # <<>> /\ GoodFrame(top) /\ top.phase # "END"
  BY TopGood DEF AuthCheckFails
<1>2. ~(IsLog(top.phase) /\ top.scope = "ANY")
  <2>1. NextRow(top) \in DOMAIN Table /\ Matches(top, NextRow(top)) /\ Table[NextRow(top)].requires_auth
    BY NextRowIs DEF AuthCheckFails
  <2> QED BY <2>1, LogAssumption DEF Matches, Match
<1>3. GoodFrame(Advance(top, -1))
  BY <1>1, <1>2, AdvanceGood
<1> QED BY <1>1, <1>3, SetTopIInv DEF AuthCheckFails, pr_response_send, IInv

LEMMA CallHandlerIInv ==
    ASSUME IInv, CallHandler PROVE IInv'
<1>1. stack # <<>> /\ GoodFrame(top) /\ top.phase # "END" /\ NextRow(top) # 0
  BY TopGood DEF CallHandler
<1>2. PICK b \in Table[NextRow(top)].does : stack' = SetTop(Called(top, b))
  BY DEF CallHandler, Called
<1>3. GoodFrame(Called(top, b))
  BY <1>1, CalledGood
<1> QED BY <1>1, <1>2, <1>3, SetTopIInv DEF CallHandler, lists, IInv

LEMMA NoHandlerLeftIInv ==
    ASSUME IInv, NoHandlerLeft PROVE IInv'
<1>1. stack # <<>> /\ GoodFrame(top) /\ top.phase # "END" /\ NextRow(top) = 0 /\ nread' = nread
  BY TopGood DEF NoHandlerLeft
<1>2. PICK res \in {-1, 0, 1} : stack' = SetTop(Advance(top, res))
  BY DEF NoHandlerLeft
<1>3. GoodFrame(Advance(top, res))
  BY <1>1, AllLogged, AdvanceGood
<1>4. Responses(resp_list') /\ Responses(resp_err_list')
  <2>1. CASE pr_response_add_err(500)
    BY <2>1, AddedErr
  <2>2. CASE UNCHANGED <<lists, sent>>
    BY <2>2 DEF lists, IInv
  <2> QED BY <2>1, <2>2 DEF NoHandlerLeft
<1> QED BY <1>1, <1>2, <1>3, <1>4, SetTopIInv

(* What a handler returned, in numbers. *)
LEMMA ResultIs ==
    ASSUME NEW f, GoodFrame(f), Running(f)
    PROVE  /\ Result(f) \in {-1, 0, 1}
           /\ IsLog(f.phase) /\ f.scope = "ANY" => Result(f) = 0
           /\ Result(f) = -1 => f.returns = "ERROR"
           /\ Result(f) = 1 => f.returns = "HANDLED"
           /\ f.returns = "ERROR" /\ ~IsLog(f.phase) => Result(f) = -1
           /\ IsLog(f.phase) => Result(f) # -1
<1>1. f.returns \in {"HANDLED", "DECLINED", "ERROR"} /\ LogGoesOn(f)
  BY DEF GoodFrame, Framed, Running
<1>2. CASE f.returns = "HANDLED"
  BY <1>1, <1>2 DEF Result, LogGoesOn
<1>3. CASE f.returns = "DECLINED"
  BY <1>3 DEF Result
<1>4. CASE f.returns = "ERROR"
  BY <1>4 DEF Result
<1> QED BY <1>1, <1>2, <1>3, <1>4

LEMMA HandlerReturnsIInv ==
    ASSUME IInv, HandlerReturns PROVE IInv'
<1>1. stack # <<>> /\ GoodFrame(top) /\ Running(top) /\ nread' = nread /\ top.todo = <<>>
  BY TopGood DEF HandlerReturns
<1>2. PICK g : /\ stack' = SetTop(g)
               /\ g = IF Result(top) = 0 THEN [top EXCEPT !.returns = "NONE", !.num = R_DUP]
                      ELSE Advance(top, Result(top))
  BY DEF HandlerReturns
<1>3. GoodFrame(g)
  <2>1. CASE Result(top) = 0
    BY <1>1, <1>2, <2>1, KeepLookingGood
  <2>2. CASE Result(top) # 0
    <3>1. top.phase # "END"
      BY <1>1 DEF GoodFrame, EndsIdle, Running
    <3>2. Result(top) \in {-1, 0, 1} /\ ~(IsLog(top.phase) /\ top.scope = "ANY")
      BY <1>1, <2>2, ResultIs
    <3> QED BY <1>1, <1>2, <2>2, <3>1, <3>2, AdvanceGood
  <2> QED BY <2>1, <2>2
<1>4. Responses(resp_list') /\ Responses(resp_err_list')
  <2>1. CASE pr_response_add_err(top.num)
    BY <2>1, AddedErr
  <2>2. CASE UNCHANGED <<lists, sent>>
    BY <2>2 DEF lists, IInv
  <2> QED BY <2>1, <2>2 DEF HandlerReturns
<1> QED BY <1>1, <1>2, <1>3, <1>4, SetTopIInv

(* The calls of a handler. *)
LEMMA CallMadeIs ==
    ASSUME IInv, NEW op, Calls(op)
    PROVE  /\ stack # <<>> /\ GoodFrame(top) /\ top.todo # <<>> /\ Running(top)
           /\ GoodFrame(CallMade) /\ SameCommand(top, CallMade)
           /\ CallMade.returns = top.returns /\ CallMade.todo = Tail(top.todo)
           /\ CallMade.phase = top.phase /\ CallMade.failed = top.failed
           /\ CallMade.scope = top.scope /\ CallMade.row = top.row /\ CallMade.num = top.num
<1>1. stack # <<>> /\ GoodFrame(top) /\ top.todo # <<>> /\ Running(top)
  BY TopGood DEF Calls
<1>2. PICK g : g = GoesOn(top, top.returns)
  OBVIOUS
<1>3. /\ GoodFrame(g) /\ SameCommand(top, g) /\ g.returns = top.returns
      /\ g.todo = Tail(top.todo) /\ g.phase = top.phase /\ g.failed = top.failed
      /\ g.scope = top.scope /\ g.row = top.row /\ g.num = top.num
  BY <1>1, <1>2, CallMadeGood
<1>4. CallMade = g
  <2>1. DOMAIN top = FrameFields
    BY <1>1 DEF GoodFrame, Framed
  <2> QED BY <1>2, <2>1 DEF CallMade, GoesOn, FrameFields
<1> QED BY <1>1, <1>3, <1>4

LEMMA CallIInv ==
    ASSUME IInv,
           \/ HandlerAdds \/ HandlerAddsErr \/ HandlerSends \/ pr_data_abort
           \/ SetsFlag \/ TransferEnds
    PROVE  IInv'
<1>1. PICK op : Calls(op)
  BY DEF HandlerAdds, HandlerAddsErr, HandlerSends, pr_data_abort, SetsFlag, TransferEnds
<1>2. stack # <<>> /\ GoodFrame(CallMade)
  BY <1>1, CallMadeIs
<1>3. stack' = SetTop(CallMade) /\ nread' = nread
  BY DEF HandlerAdds, HandlerAddsErr, HandlerSends, pr_data_abort, SetsFlag, TransferEnds
<1>4. Responses(resp_list') /\ Responses(resp_err_list')
  <2>1. CASE HandlerAdds
    BY <2>1, Added DEF HandlerAdds
  <2>2. CASE HandlerAddsErr
    BY <2>2, AddedErr DEF HandlerAddsErr
  <2>3. CASE HandlerSends \/ pr_data_abort \/ SetsFlag \/ TransferEnds
    BY <2>3 DEF HandlerSends, pr_data_abort, SetsFlag, TransferEnds, pr_response_send, lists, IInv
  <2> QED BY <2>1, <2>2, <2>3
<1> QED BY <1>2, <1>3, <1>4, SetTopIInv

LEMMA ReadIInv ==
    ASSUME IInv, (\E c \in Commands \cup EarlyCommands : ReadCommand(c)) \/ InvalidCommand
    PROVE  IInv'
<1>1. ASSUME NEW c, ReadCommand(c) PROVE IInv'
  <2>1. Begin(c, nread + 1, <<>>) /\ nread' \in Nat /\ GoodStack(<<>>)
    BY <1>1 DEF ReadCommand, IInv
  <2> QED BY <2>1, BeginIInv
<1>2. CASE InvalidCommand
  BY <1>2 DEF InvalidCommand, IInv
<1> QED BY <1>1, <1>2

LEMMA DispatchSubIInv ==
    ASSUME IInv, DispatchSub PROVE IInv'
<1>1. PICK op \in {"sub", "subres"} : Calls(op)
  BY DEF DispatchSub
<1>2. GoodStack(stack) /\ Waits(stack[Len(stack)]) /\ nread' \in Nat
  BY <1>1 DEF IInv, Calls, Waits, top, DispatchSub
<1>3. Begin(Arg, top.client, stack)
  BY DEF DispatchSub
<1> QED BY <1>2, <1>3, BeginIInv

LEMMA PollIInv ==
    ASSUME IInv,
           \/ \E c \in XferCommands : PollBusy(c) \/ PollNoop(c) \/ PollDispatch(c)
           \/ PollInvalid
    PROVE  IInv'
<1>1. nread + 1 \in Nat
  BY DEF IInv
<1>2. ASSUME NEW c, PollBusy(c) \/ PollNoop(c) PROVE IInv'
  BY <1>1, <1>2, NoResponses DEF PollBusy, PollNoop, PollAnswers, IInv
<1>3. ASSUME NEW c, PollDispatch(c) PROVE IInv'
  <2>1. GoodStack(stack) /\ Waits(stack[Len(stack)])
    BY <1>3 DEF IInv, Calls, Waits, top, PollDispatch, CanPoll
  <2>2. Begin(c, nread + 1, stack) /\ nread' \in Nat
    BY <1>1, <1>3 DEF PollDispatch
  <2> QED BY <2>1, <2>2, BeginIInv
<1>4. CASE PollInvalid
  BY <1>1, <1>4 DEF PollInvalid, pr_response_send, IInv
<1> QED BY <1>2, <1>3, <1>4

(* The command below the one that has ended, when it goes on. *)
LEMMA Resumed ==
    ASSUME NEW f, NEW g, GoodFrame(g), g.todo # <<>>
    PROVE  LET h == CallerResumes(f, g)
           IN  /\ GoodFrame(h) /\ SameCommand(g, h)
               /\ h.phase = g.phase /\ h.failed = g.failed
               /\ h.scope = g.scope /\ h.row = g.row /\ h.num = g.num
               /\ g.client # f.client => h = g
               /\ g.client = f.client =>
                     /\ h.todo = Tail(g.todo)
                     /\ h.returns = g.returns
                           \/ (Head(g.todo).op = "subres" /\ h.returns = "ERROR")
<1>1. CASE g.client # f.client
  BY <1>1 DEF CallerResumes, SameCommand
<1>2. CASE g.client = f.client
  <2>1. PICK r : r = IF Head(g.todo).op = "subres" /\ f.result < 0 THEN "ERROR" ELSE g.returns
    OBVIOUS
  <2>2. PICK h : h = GoesOn(g, r)
    OBVIOUS
  <2>3. DOMAIN g = FrameFields
    BY DEF GoodFrame, Framed
  <2>4. CallerResumes(f, g) = h
    BY <1>2, <2>1, <2>2, <2>3 DEF CallerResumes, GoesOn, FrameFields
  <2>5. r = g.returns \/ (Head(g.todo).op = "subres" /\ r = "ERROR")
    BY <2>1
  <2>6. /\ GoodFrame(h) /\ SameCommand(g, h) /\ h.returns = r
        /\ h.todo = Tail(g.todo) /\ h.phase = g.phase /\ h.failed = g.failed
        /\ h.scope = g.scope /\ h.row = g.row /\ h.num = g.num
    BY <2>2, <2>5, CallMadeGood
  <2> QED BY <1>2, <2>4, <2>5, <2>6
<1> QED BY <1>1, <1>2

(* The stack after pr_cmd_dispatch has returned.  The command that has     *)
(* ended is f, its caller g.                                               *)
LEMMA Ended ==
    ASSUME IInv, EndDispatch
    PROVE  /\ stack # <<>> /\ Len(stack) \in Nat /\ GoodStack(stack')
           /\ Len(stack) = 1 => stack' = <<>>
           /\ Len(stack) # 1 =>
                 LET n == Len(stack) - 1
                 IN  /\ n \in 1..Len(stack) /\ n < Len(stack) /\ Len(stack') = n
                     /\ stack' # <<>> /\ DOMAIN stack' = 1..n
                     /\ GoodFrame(stack[n]) /\ Waits(stack[n])
                     /\ stack'[n] = CallerResumes(stack[Len(stack)], stack[n])
                     /\ \A i \in 1..n : i # n => stack'[i] = stack[i]
<1>1. stack # <<>> /\ GoodStack(stack)
  BY DEF IInv, EndDispatch
<1>2. Len(stack) \in Nat /\ Len(stack) > 0 /\ DOMAIN stack = 1..Len(stack)
  BY <1>1, TopOfStack
<1>3. PICK below, n : below = SubSeq(stack, 1, Len(stack) - 1) /\ n = Len(stack) - 1
  OBVIOUS
<1>4. /\ GoodStack(below) /\ Len(below) = n /\ DOMAIN below = 1..n
      /\ \A i \in 1..n : below[i] = stack[i] /\ Waits(below[i])
      /\ Len(stack) = 1 => below = <<>>
  BY <1>1, <1>3, StackPopped
<1>5. stack' = IF Len(below) = 0 THEN below
               ELSE [below EXCEPT ![Len(below)] = CallerResumes(top, below[Len(below)])]
  BY <1>3 DEF EndDispatch
<1>6. CASE Len(stack) = 1
  BY <1>1, <1>2, <1>3, <1>4, <1>5, <1>6
<1>7. CASE Len(stack) # 1
  <2>1. n \in 1..Len(stack) /\ n < Len(stack) /\ n # 0 /\ n \in DOMAIN below
    BY <1>2, <1>3, <1>4, <1>7
  <2>2. below # <<>>
    BY <1>4, <2>1
  <2>3. GoodFrame(below[n]) /\ Waits(below[n]) /\ below[n] = stack[n]
    BY <1>4, <2>1 DEF GoodStack
  <2>4. GoodFrame(CallerResumes(top, below[n]))
    BY <2>3, Resumed DEF Waits
  <2>5. stack' = [below EXCEPT ![Len(below)] = CallerResumes(top, below[n])]
    BY <1>4, <1>5, <2>1
  <2>6. /\ GoodStack(stack') /\ Len(stack') = Len(below) /\ DOMAIN stack' = DOMAIN below
        /\ stack'[Len(below)] = CallerResumes(top, below[n])
        /\ \A i \in DOMAIN below : i # Len(below) => stack'[i] = below[i]
    BY <1>4, <2>2, <2>4, <2>5, StackSet
  <2>7. stack' # <<>>
    BY <2>6, <2>1, <1>4
  <2> QED BY <1>1, <1>2, <1>3, <1>4, <1>7, <2>1, <2>3, <2>6, <2>7 DEF top
<1> QED BY <1>6, <1>7

LEMMA EndDispatchIInv ==
    ASSUME IInv, EndDispatch PROVE IInv'
<1>1. GoodStack(stack')
  BY Ended
<1>2. Responses(resp_list') /\ Responses(resp_err_list') /\ nread' = nread
  BY NoResponses DEF EndDispatch, IInv
<1> QED BY <1>1, <1>2 DEF IInv

LEMMA NextIInv ==
    ASSUME IInv, [Next]_vars PROVE IInv'
<1>1. CASE UNCHANGED vars
  BY <1>1 DEF vars, lists, IInv
<1>2. CASE Next
  BY <1>2, ReadIInv, AuthCheckFailsIInv, CallHandlerIInv, NoHandlerLeftIInv,
     HandlerReturnsIInv, CallIInv, DispatchSubIInv, PollIInv, EndDispatchIInv DEF Next
<1> QED BY <1>1, <1>2

(* What every command leaves behind in the logs: when its dispatch is over,  *)
(* each log handler registered for all commands was called, also when one   *)
(* of them failed (_dispatch of main.c goes on in the log phases).          *)
THEOREM LogsReached == Spec => []LogsRun
<1>1. Init => IInv
  BY InitIInv
<1>2. IInv /\ [Next]_vars => IInv'
  BY NextIInv
<1>3. IInv => LogsRun
  <2> SUFFICES ASSUME IInv, stack # <<>>, top.phase = "END" 
               PROVE  \A i \in DOMAIN Table :
                         Table[i].cmd = ANY /\ Table[i].phase = LogPhase(top) => i \in top.logged
    BY DEF LogsRun
  <2>1. GoodFrame(top)
    BY TopGood
  <2> QED BY <2>1 DEF GoodFrame, LoggedSoFar
<1> QED BY <1>1, <1>2, <1>3, PTL DEF Spec
-----------------------------------------------------------------------------
(* The pools of the responses. *)

(* The rest of what a handler does adds to the same list; a handler that   *)
(* reports the failure of the command it has dispatched adds to the list   *)
(* of the errors only.                                                     *)
LEMMA RestOneSided ==
    ASSUME NEW calls, IsList(calls), calls # <<>>, NEW phase, NEW r, NEW q,
           OneSided(calls, phase, r), q = r \/ (Head(calls).op = "subres" /\ q = "ERROR")
    PROVE  OneSided(Tail(calls), phase, q)
<1>1. PICK n : n = Len(calls)
  OBVIOUS
<1>2. n \in Nat /\ n > 0 /\ DOMAIN calls = 1..n /\ Head(calls) = calls[1]
  BY <1>1, ListFacts
<1>3. PICK rest : rest = Tail(calls)
  OBVIOUS
<1>4. DOMAIN rest = 1..(n - 1) /\ \A k \in 1..(n - 1) : rest[k] = calls[k + 1]
  BY <1>1, <1>3, TailList
<1>5. \A k \in 1..(n - 1) : k + 1 \in DOMAIN calls
  BY <1>2
<1>6. ASSUME NEW k \in DOMAIN rest
      PROVE  /\ rest[k].op = "add" => MayAdd(phase, q)
             /\ rest[k].op = "err" => MayAddErr(phase, q)
             /\ rest[k].op = "subres" => \A j \in DOMAIN rest : rest[j].op # "add"
  <2>1. k + 1 \in DOMAIN calls /\ rest[k] = calls[k + 1]
    BY <1>4, <1>5
  <2>2. /\ rest[k].op = "add" => MayAdd(phase, r)
        /\ rest[k].op = "err" => MayAddErr(phase, r)
        /\ rest[k].op = "subres" => \A j \in DOMAIN calls : calls[j].op # "add"
    BY <2>1 DEF OneSided
  <2>3. rest[k].op = "subres" => \A j \in DOMAIN rest : rest[j].op # "add"
    BY <1>4, <1>5, <2>2
  <2>4. CASE q = r
    BY <2>2, <2>3, <2>4
  <2>5. CASE Head(calls).op = "subres" /\ q = "ERROR"
    <3>1. 1 \in DOMAIN calls
      BY <1>2
    <3>2. \A j \in DOMAIN calls : calls[j].op # "add"
      BY <1>2, <2>5, <3>1 DEF OneSided
    <3>3. rest[k].op # "add"
      BY <2>1, <3>2
    <3>4. rest[k].op = "err" => MayAddErr(phase, q)
      BY <2>2, <2>5 DEF MayAddErr
    <3> QED BY <2>3, <3>3, <3>4
  <2> QED BY <2>4, <2>5
<1> QED BY <1>3, <1>6 DEF OneSided

(* What the handlers of an inner command may do, and what they dispatch.   *)
SubsInner(calls) ==
    \A k \in DOMAIN calls : calls[k].op \in {"sub", "subres"} => calls[k].arg \in InnerCommands

LEMMA RestSubsInner ==
    ASSUME NEW calls, IsList(calls), calls # <<>>, SubsInner(calls)
    PROVE  SubsInner(Tail(calls))
<1>1. PICK n : n = Len(calls)
  OBVIOUS
<1>2. n \in Nat /\ n > 0 /\ DOMAIN calls = 1..n
  BY <1>1, ListFacts
<1>3. PICK rest : rest = Tail(calls)
  OBVIOUS
<1>4. DOMAIN rest = 1..(n - 1) /\ \A k \in 1..(n - 1) : rest[k] = calls[k + 1]
  BY <1>1, <1>3, TailList
<1>5. \A k \in 1..(n - 1) : k + 1 \in DOMAIN calls
  BY <1>2
<1> QED BY <1>3, <1>4, <1>5 DEF SubsInner

(* The responses that are there, with a new one from the pool in use.      *)
ListsLive(list, err_list) == \A r \in Range(list) \cup Range(err_list) : r.pool \in Live

LEMMA InsertLive ==
    ASSUME NEW list, Responses(list), \A r \in Range(list) : r.pool \in Live,
           NEW num, resp_pool \in Live
    PROVE  \A r \in Range(Insert(list, Response(num))) : r.pool \in Live
<1>1. DOMAIN Response(num) = {"num", "by", "pool"} /\ Response(num).pool = resp_pool
  BY DEF Response
<1>2. PICK new : new = Insert(list, Response(num))
  OBVIOUS
<1>3. \A i \in DOMAIN new : \/ new[i].pool = resp_pool
                            \/ \E j \in DOMAIN list : new[i].pool = list[j].pool
  BY <1>1, <1>2, InsertResponses
<1>4. \A j \in DOMAIN list : list[j].pool \in Live
  BY DEF Range
<1>5. \A i \in DOMAIN new : new[i].pool \in Live
  BY <1>3, <1>4
<1> QED BY <1>2, <1>5 DEF Range

LEMMA AddedLive ==
    ASSUME IInv, PoolsLive, stack # <<>>, NEW num,
           pr_response_add(num) \/ pr_response_add_err(num)
    PROVE  resp_pool' \in Live /\ ListsLive(resp_list', resp_err_list')
<1>1. resp_pool \in Live /\ \A r \in Range(resp_list) \cup Range(resp_err_list) : r.pool \in Live
  BY DEF PoolsLive
<1>2. Responses(resp_list) /\ Responses(resp_err_list)
  BY DEF IInv
<1>3. resp_pool' \in Live
  BY <1>1 DEF pr_response_add, pr_response_add_err
<1>4. CASE pr_response_add(num)
  <2>1. (resp_list' = resp_list \/ resp_list' = Insert(resp_list, Response(num)))
        /\ resp_err_list' = resp_err_list
    BY <1>4 DEF pr_response_add
  <2>2. \A r \in Range(Insert(resp_list, Response(num))) : r.pool \in Live
    BY <1>1, <1>2, InsertLive
  <2> QED BY <1>1, <1>3, <2>1, <2>2 DEF ListsLive
<1>5. CASE pr_response_add_err(num)
  <2>1. (resp_err_list' = resp_err_list \/ resp_err_list' = Insert(resp_err_list, Response(num)))
        /\ resp_list' = resp_list
    BY <1>5 DEF pr_response_add_err
  <2>2. \A r \in Range(Insert(resp_err_list, Response(num))) : r.pool \in Live
    BY <1>1, <1>2, InsertLive
  <2> QED BY <1>1, <1>3, <2>1, <2>2 DEF ListsLive
<1> QED BY <1>4, <1>5

(* Steps of the innermost command keep its number and the pool set aside.  *)
LEMMA SetTopPool ==
    ASSUME IInv, PoolInv, stack # <<>>, NEW g, GoodFrame(g), SameCommand(top, g),
           stack' = SetTop(g), nread' = nread,
           resp_pool' \in Live, ListsLive(resp_list', resp_err_list'),
           Inner(top) =>
              /\ OneSided(g.todo, g.phase, g.returns) /\ SubsInner(g.todo)
              /\ resp_list' # <<>> => MayHaveAdded(g)
              /\ resp_err_list' # <<>> => MayHaveAddedErr(g)
    PROVE  PoolInv'
<1>1. PICK n : n = Len(stack)
  OBVIOUS
<1>2. n \in Nat /\ n > 0 /\ DOMAIN stack = 1..n /\ n \in DOMAIN stack /\ GoodStack(stack)
  BY <1>1, TopOfStack DEF IInv
<1>3. /\ GoodStack(stack') /\ Len(stack') = n /\ DOMAIN stack' = 1..n
      /\ stack'[n] = g /\ \A i \in 1..n : i # n => stack'[i] = stack[i]
  BY <1>1, <1>2, StackSet DEF SetTop
<1>4. stack' # <<>> /\ top' = g /\ top = stack[n]
  BY <1>1, <1>2, <1>3 DEF top
<1>5. \A i \in 1..n : /\ stack'[i].client = stack[i].client
                      /\ stack'[i].saved = stack[i].saved /\ stack'[i].cmd = stack[i].cmd
  BY <1>3, <1>4 DEF SameCommand
<1>6. 1 \in 1..n
  BY <1>2
<1>7. Live' = Live
  BY <1>2, <1>3, <1>5 DEF Live
<1>8. SavedLive'
  <2> SUFFICES ASSUME NEW i \in 1..n
               PROVE  IF i = 1 THEN stack'[i].saved = NULL
                      ELSE stack'[i].saved \in {SESSION} \cup {stack'[j].client : j \in 1..(i - 1)}
    BY <1>3 DEF SavedLive
  <2>1. \A j \in 1..(i - 1) : j \in 1..n
    BY <1>2
  <2>2. IF i = 1 THEN stack[i].saved = NULL
        ELSE stack[i].saved \in {SESSION} \cup {stack[j].client : j \in 1..(i - 1)}
    BY <1>2 DEF PoolInv, SavedLive
  <2> QED BY <1>5, <2>1, <2>2
<1>9. Numbered'
  BY <1>2, <1>3, <1>5 DEF PoolInv, Numbered
<1>10. \A i \in 1..n : stack'[i].client # stack'[1].client <=> Inner(stack[i])
  BY <1>5, <1>6 DEF Inner
<1>11. InnerSided'
  <2> SUFFICES ASSUME NEW i \in 1..n, Inner(stack[i])
               PROVE  /\ stack'[i].cmd \in InnerCommands
                      /\ OneSided(stack'[i].todo, stack'[i].phase, stack'[i].returns)
                      /\ SubsInner(stack'[i].todo)
    BY <1>3, <1>10 DEF InnerSided, Inner, SubsInner
  <2>1. /\ stack[i].cmd \in InnerCommands
        /\ OneSided(stack[i].todo, stack[i].phase, stack[i].returns)
        /\ SubsInner(stack[i].todo)
    BY <1>2 DEF PoolInv, InnerSided, SubsInner
  <2>2. CASE i = n
    BY <1>3, <1>4, <1>5, <2>1, <2>2
  <2>3. CASE i # n
    BY <1>3, <2>1, <2>3
  <2> QED BY <2>2, <2>3
<1>12. InnerClean'
  <2>1. (Inner(top))' <=> Inner(top)
    BY <1>2, <1>3, <1>4, <1>10 DEF Inner
  <2>2. (resp_list # <<>> => MayHaveAdded(top))' <=> (resp_list' # <<>> => MayHaveAdded(g))
    BY <1>4 DEF MayHaveAdded
  <2>3. (resp_err_list # <<>> => MayHaveAddedErr(top))' <=> (resp_err_list' # <<>> => MayHaveAddedErr(g))
    BY <1>4 DEF MayHaveAddedErr
  <2> QED BY <2>1, <2>2, <2>3 DEF InnerClean
<1>13. PoolsLive'
  BY <1>4, <1>7 DEF PoolsLive, ListsLive
<1> QED BY <1>8, <1>9, <1>11, <1>12, <1>13 DEF PoolInv

(* What is known of the innermost command. *)
LEMMA TopPool ==
    ASSUME IInv, PoolInv, stack # <<>>
    PROVE  /\ resp_pool \in Live /\ ListsLive(resp_list, resp_err_list)
           /\ SESSION \in Live
           /\ Inner(top) =>
                 /\ top.cmd \in InnerCommands
                 /\ OneSided(top.todo, top.phase, top.returns) /\ SubsInner(top.todo)
                 /\ resp_list # <<>> => MayHaveAdded(top)
                 /\ resp_err_list # <<>> => MayHaveAddedErr(top)
<1>1. Len(stack) \in DOMAIN stack
  BY TopOfStack DEF IInv
<1>2. Inner(top) => /\ top.cmd \in InnerCommands
                    /\ OneSided(top.todo, top.phase, top.returns) /\ SubsInner(top.todo)
  BY <1>1 DEF PoolInv, InnerSided, SubsInner, top
<1>3. resp_pool \in Live /\ ListsLive(resp_list, resp_err_list)
  BY DEF PoolInv, PoolsLive, ListsLive
<1>4. SESSION \in Live
  BY DEF Live
<1>5. Inner(top) => /\ resp_list # <<>> => MayHaveAdded(top)
                    /\ resp_err_list # <<>> => MayHaveAddedErr(top)
  BY DEF PoolInv, InnerClean
<1> QED BY <1>2, <1>3, <1>4, <1>5

LEMMA NothingToDo == ASSUME NEW phase, NEW r PROVE OneSided(<<>>, phase, r) /\ SubsInner(<<>>)
  BY DEF OneSided, SubsInner

(* What a command that goes on to the next call of _dispatch may have      *)
(* added so far.                                                           *)
LEMMA AdvanceClean ==
    ASSUME NEW f, GoodFrame(f), NEW g, GoodFrame(g), g.returns = "NONE", NEW res \in {-1, 0, 1},
           IF res < 0 /\ f.phase \in {"PRE_CMD", "CMD"} THEN g.failed # "NO" ELSE g.failed = f.failed,
           g.phase = "PRE_CMD" => f.phase = "PRE_CMD",
           g.phase = "CMD" => f.phase = "PRE_CMD" \/ (f.phase = "CMD" /\ res = 0),
           f.returns = "HANDLED" => res = 1, f.returns = "ERROR" /\ ~IsLog(f.phase) => res = -1,
           f.returns = "NONE" /\ f.phase = "CMD" => res # 1,
           f.phase = "CMD" /\ f.returns = "DECLINED" => res = 0
    PROVE  /\ MayHaveAdded(f) => MayHaveAdded(g)
           /\ MayHaveAddedErr(f) => MayHaveAddedErr(g)
<1>1. f.phase \in Phases /\ PhaseOfOutcome(f) /\ f.returns \in {"NONE", "HANDLED", "DECLINED", "ERROR"}
  BY DEF GoodFrame, Framed
<1>2. MayHaveAdded(f) => MayHaveAdded(g)
  BY <1>1 DEF MayHaveAdded
<1>3. MayHaveAddedErr(f) => MayHaveAddedErr(g)
  BY <1>1 DEF MayHaveAddedErr, IsLog
<1> QED BY <1>2, <1>3

LEMMA AuthCheckFailsPool ==
    ASSUME IInv, PoolInv, AuthCheckFails PROVE PoolInv'
<1>1. stack # <<>> /\ GoodFrame(top) /\ top.phase # "END" /\ top.returns = "NONE"
  BY TopGood DEF AuthCheckFails, Running
<1>2. ~(IsLog(top.phase) /\ top.scope = "ANY")
  <2>1. NextRow(top) \in DOMAIN Table /\ Matches(top, NextRow(top)) /\ Table[NextRow(top)].requires_auth
    BY NextRowIs DEF AuthCheckFails
  <2> QED BY <2>1, LogAssumption DEF Matches, Match
<1>3. PICK g : g = Advance(top, -1)
  OBVIOUS
<1>4. /\ GoodFrame(g) /\ SameCommand(top, g) /\ g.returns = "NONE" /\ g.todo = <<>>
      /\ IF -1 < 0 /\ top.phase \in {"PRE_CMD", "CMD"} THEN g.failed # "NO" ELSE g.failed = top.failed
      /\ g.phase = "PRE_CMD" => top.phase = "PRE_CMD"
      /\ g.phase = "CMD" => top.phase = "PRE_CMD" \/ (top.phase = "CMD" /\ -1 = 0)
  BY <1>1, <1>2, <1>3, AdvanceGood
<1>5. /\ MayHaveAdded(top) => MayHaveAdded(g)
      /\ MayHaveAddedErr(top) => MayHaveAddedErr(g)
  BY <1>1, <1>4, AdvanceClean
<1>6. /\ stack' = SetTop(g) /\ nread' = nread
      /\ resp_pool' = resp_pool /\ resp_list' = resp_list /\ resp_err_list' = resp_err_list
  BY <1>3 DEF AuthCheckFails, pr_response_send
<1> QED BY <1>1, <1>4, <1>5, <1>6, TopPool, NothingToDo, SetTopPool

(* The calls of a handler dispatch inner commands. *)
LEMMA HandlerSubsInner ==
    ASSUME NEW i \in DOMAIN Table, NEW b \in Table[i].does
    PROVE  SubsInner(b.calls)
<1> SUFFICES ASSUME NEW k \in DOMAIN b.calls, b.calls[k].op \in {"sub", "subres"}
             PROVE  b.calls[k].arg \in InnerCommands
  BY DEF SubsInner
<1>1. b \in UNION {Table[j].does : j \in DOMAIN Table}
  OBVIOUS
<1>2. b.calls[k] \in Range(b.calls)
  BY DEF Range
<1>3. b.calls[k] \in UNION {Range(d.calls) : d \in UNION {Table[j].does : j \in DOMAIN Table}}
  BY <1>1, <1>2
<1> QED BY <1>3 DEF InnerCommands

LEMMA CallHandlerPool ==
    ASSUME OneSidedHandlers, IInv, PoolInv, CallHandler PROVE PoolInv'
<1>1. stack # <<>> /\ GoodFrame(top) /\ top.phase # "END" /\ NextRow(top) # 0 /\ top.returns = "NONE"
  BY TopGood DEF CallHandler, Running
<1>2. PICK b \in Table[NextRow(top)].does : stack' = SetTop(Called(top, b))
  BY DEF CallHandler, Called
<1>3. PICK g : g = Called(top, b)
  OBVIOUS
<1>4. /\ GoodFrame(g) /\ SameCommand(top, g)
      /\ g.todo = b.calls /\ g.returns = b.returns
      /\ g.phase = top.phase /\ g.failed = top.failed
  BY <1>1, <1>3, CalledGood
<1>5. NextRow(top) \in DOMAIN Table /\ Matches(top, NextRow(top))
  BY <1>1, NextRowIs
<1>6. SubsInner(g.todo)
  BY <1>4, <1>5, HandlerSubsInner
<1>7. Inner(top) => OneSided(g.todo, g.phase, g.returns)
  BY <1>1, <1>4, <1>5, TopPool DEF OneSidedHandlers, Matches, Match
<1>8. /\ MayHaveAdded(top) => MayHaveAdded(g)
      /\ MayHaveAddedErr(top) => MayHaveAddedErr(g)
  BY <1>1, <1>4 DEF MayHaveAdded, MayHaveAddedErr
<1>9. /\ stack' = SetTop(g) /\ nread' = nread
      /\ resp_pool' = resp_pool /\ resp_list' = resp_list /\ resp_err_list' = resp_err_list
  BY <1>2, <1>3 DEF CallHandler, lists
<1> QED BY <1>1, <1>4, <1>6, <1>7, <1>8, <1>9, TopPool, SetTopPool

LEMMA NoHandlerLeftPool ==
    ASSUME IInv, PoolInv, NoHandlerLeft PROVE PoolInv'
<1>1. /\ stack # <<>> /\ GoodFrame(top) /\ top.phase # "END" /\ NextRow(top) = 0
      /\ top.returns = "NONE" /\ nread' = nread
  BY TopGood DEF NoHandlerLeft, Running
<1>2. PICK unknown, res : /\ unknown = (top.phase = "CMD" /\ top.scope = "OWN")
                          /\ res = IF unknown THEN -1 ELSE 0
  OBVIOUS
<1>3. PICK g : g = Advance(top, res)
  OBVIOUS
<1>4. /\ GoodFrame(g) /\ SameCommand(top, g) /\ g.returns = "NONE" /\ g.todo = <<>>
      /\ IF res < 0 /\ top.phase \in {"PRE_CMD", "CMD"} THEN g.failed # "NO" ELSE g.failed = top.failed
      /\ g.phase = "PRE_CMD" => top.phase = "PRE_CMD"
      /\ g.phase = "CMD" => top.phase = "PRE_CMD" \/ (top.phase = "CMD" /\ res = 0)
  BY <1>1, <1>2, <1>3, AllLogged, AdvanceGood
<1>5. /\ MayHaveAdded(top) => MayHaveAdded(g)
      /\ MayHaveAddedErr(top) => MayHaveAddedErr(g)
  BY <1>1, <1>2, <1>4, AdvanceClean
<1>6. stack' = SetTop(g)
  BY <1>2, <1>3 DEF NoHandlerLeft
<1>7. CASE unknown
  <2>1. pr_response_add_err(500)
    BY <1>2, <1>7 DEF NoHandlerLeft
  <2>2. resp_pool' \in Live /\ ListsLive(resp_list', resp_err_list') /\ resp_list' = resp_list
    BY <1>1, <2>1, AddedLive DEF PoolInv, pr_response_add_err
  <2>3. MayHaveAddedErr(g)
    <3>1. res = -1
      BY <1>2, <1>7
    <3>2. top.phase = "CMD"
      BY <1>2, <1>7
    <3>3. g.failed # "NO"
      BY <1>4, <3>1, <3>2
    <3> QED BY <3>3 DEF MayHaveAddedErr
  <2> QED BY <1>1, <1>4, <1>5, <1>6, <2>2, <2>3, TopPool, NothingToDo, SetTopPool
<1>8. CASE ~unknown
  <2>1. resp_pool' = resp_pool /\ resp_list' = resp_list /\ resp_err_list' = resp_err_list
    BY <1>2, <1>8 DEF NoHandlerLeft, lists
  <2> QED BY <1>1, <1>4, <1>5, <1>6, <2>1, TopPool, NothingToDo, SetTopPool
<1> QED BY <1>7, <1>8

LEMMA HandlerReturnsPool ==
    ASSUME IInv, PoolInv, HandlerReturns PROVE PoolInv'
<1>1. stack # <<>> /\ GoodFrame(top) /\ Running(top) /\ nread' = nread /\ top.todo = <<>>
  BY TopGood DEF HandlerReturns
<1>2. PICK g : /\ stack' = SetTop(g)
               /\ g = IF Result(top) = 0 THEN [top EXCEPT !.returns = "NONE", !.num = R_DUP]
                      ELSE Advance(top, Result(top))
  BY DEF HandlerReturns
<1>3. /\ Result(top) \in {-1, 0, 1}
      /\ IsLog(top.phase) /\ top.scope = "ANY" => Result(top) = 0
      /\ Result(top) = -1 => top.returns = "ERROR"
      /\ Result(top) = 1 => top.returns = "HANDLED"
      /\ top.returns = "ERROR" /\ ~IsLog(top.phase) => Result(top) = -1
      /\ top.returns = "HANDLED" => Result(top) = 1
      /\ top.returns = "DECLINED" => Result(top) = 0
  BY <1>1, ResultIs DEF Result
<1>4. top.phase # "END"
  BY <1>1 DEF GoodFrame, EndsIdle, Running
<1>5. /\ GoodFrame(g) /\ SameCommand(top, g) /\ g.returns = "NONE" /\ g.todo = <<>>
      /\ MayHaveAdded(top) => MayHaveAdded(g)
      /\ MayHaveAddedErr(top) => MayHaveAddedErr(g)
      /\ top.returns = "ERROR" /\ SendsError(top.phase) => MayHaveAddedErr(g)
  <2>1. CASE Result(top) = 0
    <3>1. /\ GoodFrame(g) /\ SameCommand(top, g) /\ g.returns = "NONE"
          /\ g.todo = top.todo /\ g.phase = top.phase /\ g.failed = top.failed
      BY <1>1, <1>2, <2>1, KeepLookingGood
    <3>2. top.returns # "HANDLED" /\ (top.returns = "ERROR" => IsLog(top.phase))
      BY <1>3, <2>1
    <3> QED BY <1>1, <3>1, <3>2 DEF MayHaveAdded, MayHaveAddedErr, IsLog, SendsError
  <2>2. CASE Result(top) # 0
    <3>1. PICK res \in {-1, 0, 1} : res = Result(top)
      BY <1>3
    <3>2. /\ GoodFrame(g) /\ SameCommand(top, g) /\ g.returns = "NONE" /\ g.todo = <<>>
          /\ IF res < 0 /\ top.phase \in {"PRE_CMD", "CMD"} THEN g.failed # "NO" ELSE g.failed = top.failed
          /\ g.phase = "PRE_CMD" => top.phase = "PRE_CMD"
          /\ g.phase = "CMD" => top.phase = "PRE_CMD" \/ (top.phase = "CMD" /\ res = 0)
      BY <1>1, <1>2, <1>3, <1>4, <2>2, <3>1, AdvanceGood
    <3>3. /\ top.returns = "HANDLED" => res = 1
          /\ top.returns = "ERROR" /\ ~IsLog(top.phase) => res = -1
          /\ top.returns # "NONE" /\ top.returns # "DECLINED"
      BY <1>1, <1>3, <2>2, <3>1 DEF Running
    <3>4. /\ MayHaveAdded(top) => MayHaveAdded(g)
          /\ MayHaveAddedErr(top) => MayHaveAddedErr(g)
      BY <1>1, <3>2, <3>3, AdvanceClean
    <3>5. top.returns = "ERROR" /\ SendsError(top.phase) => MayHaveAddedErr(g)
      BY <1>1, <3>2, <3>3 DEF SendsError, IsLog, MayHaveAddedErr, GoodFrame, PhaseOfOutcome
    <3> QED BY <3>2, <3>4, <3>5
  <2> QED BY <2>1, <2>2
<1>6. CASE top.returns = "ERROR" /\ top.num # R_DUP /\ SendsError(top.phase)
  <2>1. pr_response_add_err(top.num)
    BY <1>6 DEF HandlerReturns
  <2>2. resp_pool' \in Live /\ ListsLive(resp_list', resp_err_list') /\ resp_list' = resp_list
    BY <1>1, <2>1, AddedLive DEF PoolInv, pr_response_add_err
  <2> QED BY <1>1, <1>2, <1>5, <1>6, <2>2, TopPool, NothingToDo, SetTopPool
<1>7. CASE ~(top.returns = "ERROR" /\ top.num # R_DUP /\ SendsError(top.phase))
  <2>1. resp_pool' = resp_pool /\ resp_list' = resp_list /\ resp_err_list' = resp_err_list
    BY <1>7 DEF HandlerReturns, lists
  <2> QED BY <1>1, <1>2, <1>5, <2>1, TopPool, NothingToDo, SetTopPool
<1> QED BY <1>6, <1>7

LEMMA CallPool ==
    ASSUME IInv, PoolInv,
           \/ HandlerAdds \/ HandlerAddsErr \/ HandlerSends \/ pr_data_abort
           \/ SetsFlag \/ TransferEnds
    PROVE  PoolInv'
<1>1. PICK op : /\ Calls(op)
                /\ op = "add" \/ (resp_list' = resp_list)
                /\ op = "err" \/ (resp_err_list' = resp_err_list)
                /\ \/ HandlerAdds /\ op = "add"
                   \/ HandlerAddsErr /\ op = "err"
                   \/ HandlerSends \/ pr_data_abort \/ SetsFlag \/ TransferEnds
  BY DEF HandlerAdds, HandlerAddsErr, HandlerSends, pr_data_abort, SetsFlag, TransferEnds,
         pr_response_add, pr_response_add_err, pr_response_send, lists
<1>2. PICK g : g = CallMade
  OBVIOUS
<1>3. /\ stack # <<>> /\ GoodFrame(top) /\ top.todo # <<>> /\ Running(top)
      /\ GoodFrame(g) /\ SameCommand(top, g)
      /\ g.returns = top.returns /\ g.todo = Tail(top.todo)
      /\ g.phase = top.phase /\ g.failed = top.failed
  BY <1>1, <1>2, CallMadeIs
<1>4. stack' = SetTop(g) /\ nread' = nread
  BY <1>2 DEF HandlerAdds, HandlerAddsErr, HandlerSends, pr_data_abort, SetsFlag, TransferEnds
<1>5. IsList(top.todo) /\ 1 \in DOMAIN top.todo /\ top.todo[1].op = op
  <2>1. IsList(top.todo)
    BY <1>3 DEF GoodFrame, Framed
  <2>2. 1 \in DOMAIN top.todo /\ Head(top.todo) = top.todo[1]
    BY <1>3, <2>1, ListFacts
  <2> QED BY <1>1, <2>1, <2>2 DEF Calls
<1>6. Inner(top) =>
         /\ OneSided(g.todo, g.phase, g.returns) /\ SubsInner(g.todo)
         /\ op = "add" => MayAdd(top.phase, top.returns)
         /\ op = "err" => MayAddErr(top.phase, top.returns)
  <2> SUFFICES ASSUME Inner(top)
               PROVE  /\ OneSided(g.todo, g.phase, g.returns) /\ SubsInner(g.todo)
                      /\ op = "add" => MayAdd(top.phase, top.returns)
                      /\ op = "err" => MayAddErr(top.phase, top.returns)
    OBVIOUS
  <2>1. OneSided(top.todo, top.phase, top.returns) /\ SubsInner(top.todo)
    BY <1>3, TopPool
  <2>2. OneSided(g.todo, g.phase, g.returns) /\ SubsInner(g.todo)
    BY <1>3, <1>5, <2>1, RestOneSided, RestSubsInner
  <2>3. /\ op = "add" => MayAdd(top.phase, top.returns)
        /\ op = "err" => MayAddErr(top.phase, top.returns)
    BY <1>5, <2>1 DEF OneSided
  <2> QED BY <2>2, <2>3
<1>7. /\ MayHaveAdded(top) => MayHaveAdded(g)
      /\ MayHaveAddedErr(top) => MayHaveAddedErr(g)
  BY <1>3 DEF MayHaveAdded, MayHaveAddedErr
<1>8. PhaseOfOutcome(top)
  BY <1>3 DEF GoodFrame
<1>9. MayAdd(top.phase, top.returns) => MayHaveAdded(g)
  BY <1>3, <1>8 DEF MayAdd, MayHaveAdded, PhaseOfOutcome, IsLog, LogPhase
<1>10. MayAddErr(top.phase, top.returns) => MayHaveAddedErr(g)
  BY <1>3, <1>8 DEF MayAddErr, MayHaveAddedErr, PhaseOfOutcome, IsLog, LogPhase
<1>11. resp_pool' \in Live /\ ListsLive(resp_list', resp_err_list')
  <2>1. CASE HandlerAdds \/ HandlerAddsErr
    BY <1>3, <2>1, AddedLive DEF HandlerAdds, HandlerAddsErr, PoolInv
  <2>2. CASE HandlerSends \/ pr_data_abort \/ SetsFlag \/ TransferEnds
    <3>1. /\ resp_pool' = resp_pool \/ resp_pool' = SESSION
          /\ resp_list' = resp_list /\ resp_err_list' = resp_err_list
      BY <2>2 DEF HandlerSends, pr_data_abort, SetsFlag, TransferEnds, pr_response_send, lists
    <3> QED BY <1>3, <3>1, TopPool
  <2> QED BY <1>1, <2>1, <2>2
<1>12. Inner(top) => /\ resp_list' # <<>> => MayHaveAdded(g)
                     /\ resp_err_list' # <<>> => MayHaveAddedErr(g)
  BY <1>1, <1>3, <1>6, <1>7, <1>9, <1>10, TopPool
<1> QED BY <1>3, <1>4, <1>6, <1>11, <1>12, SetTopPool

(* A command dispatched while another is in progress. *)
LEMMA BeginPool ==
    ASSUME IInv, PoolInv, stack # <<>>, Waits(top),
           NEW c, NEW client, Begin(c, client, stack),
           nread' \in Nat, nread <= nread', client \in 1..nread', top.client <= client,
           client # stack[1].client => c \in InnerCommands
    PROVE  PoolInv'
<1>1. PICK n, g : n = Len(stack) /\ g = NewFrame(c, client, resp_pool)
  OBVIOUS
<1>2. n \in Nat /\ n > 0 /\ DOMAIN stack = 1..n /\ GoodStack(stack) /\ top = stack[n]
  BY <1>1, TopOfStack DEF IInv, top
<1>3. GoodFrame(g) /\ g.cmd = c /\ g.client = client /\ g.saved = resp_pool /\ g.todo = <<>>
  BY <1>1, NewFrameGood
<1>4. /\ stack' # <<>> /\ Len(stack') = n + 1 /\ DOMAIN stack' = 1..(n + 1)
      /\ stack'[n + 1] = g /\ \A i \in 1..n : stack'[i] = stack[i]
  BY <1>1, <1>2, <1>3, StackPushed DEF Begin, top
<1>5. top' = g
  BY <1>4 DEF top
<1>6. /\ \A i \in 1..(n + 1) : i = n + 1 \/ i \in 1..n
      /\ \A i \in 1..n : i \in 1..(n + 1) /\ i # n + 1
      /\ 1 \in 1..n /\ n \in 1..n /\ n + 1 \in 1..(n + 1)
  BY <1>2
<1>7. /\ resp_list' = <<>> /\ resp_err_list' = <<>> /\ resp_pool' = client
  BY DEF Begin
<1>8. SavedLive'
  <2> SUFFICES ASSUME NEW i \in 1..(n + 1)
               PROVE  IF i = 1 THEN stack'[i].saved = NULL
                      ELSE stack'[i].saved \in {SESSION} \cup {stack'[j].client : j \in 1..(i - 1)}
    BY <1>4 DEF SavedLive
  <2>1. CASE i = n + 1
    <3>1. resp_pool \in {SESSION} \cup {stack[j].client : j \in 1..n}
      BY <1>2, TopPool DEF Live
    <3>2. resp_pool \in {SESSION} \cup {stack'[j].client : j \in 1..n}
      BY <1>4, <3>1
    <3>3. i # 1 /\ i - 1 = n
      BY <1>2, <2>1
    <3> QED BY <1>3, <1>4, <2>1, <3>2, <3>3
  <2>2. CASE i \in 1..n
    <3>1. \A j \in 1..(i - 1) : j \in 1..n
      BY <1>2, <2>2
    <3>2. IF i = 1 THEN stack[i].saved = NULL
          ELSE stack[i].saved \in {SESSION} \cup {stack[j].client : j \in 1..(i - 1)}
      BY <1>2, <2>2 DEF PoolInv, SavedLive
    <3> QED BY <1>4, <2>2, <3>1, <3>2
  <2> QED BY <1>6, <2>1, <2>2
<1>9. Numbered'
  <2>1. /\ \A i \in 1..n : stack[i].client \in 1..nread
        /\ \A i, j \in 1..n : i <= j => stack[i].client <= stack[j].client
        /\ nread \in Nat
    BY <1>2 DEF PoolInv, Numbered, IInv
  <2>2. \A i \in 1..n : stack[i].client \in 1..nread' /\ stack[i].client <= client
    BY <1>2, <1>6, <2>1
  <2>3. \A i \in 1..(n + 1) : stack'[i].client \in 1..nread'
    BY <1>3, <1>4, <1>6, <2>2
  <2>4. ASSUME NEW i \in 1..(n + 1), NEW j \in 1..(n + 1), i <= j
        PROVE  stack'[i].client <= stack'[j].client
    <3>1. CASE i \in 1..n /\ j \in 1..n
      BY <1>4, <2>1, <2>4, <3>1
    <3>2. CASE i \in 1..n /\ j = n + 1
      BY <1>3, <1>4, <2>2, <3>2
    <3>3. CASE i = n + 1
      <4>1. j = n + 1
        BY <1>2, <2>4, <3>3
      <4> QED BY <1>3, <1>4, <3>3, <4>1
    <3> QED BY <1>6, <3>1, <3>2, <3>3
  <2> QED BY <1>4, <2>3, <2>4 DEF Numbered
<1>10. stack'[1].client = stack[1].client
  BY <1>4, <1>6
<1>11. InnerSided'
  <2> SUFFICES ASSUME NEW i \in 1..(n + 1), stack'[i].client # stack[1].client
               PROVE  /\ stack'[i].cmd \in InnerCommands
                      /\ OneSided(stack'[i].todo, stack'[i].phase, stack'[i].returns)
                      /\ SubsInner(stack'[i].todo)
    BY <1>4, <1>10 DEF InnerSided, Inner, SubsInner
  <2>1. CASE i \in 1..n
    <3>1. Inner(stack[i]) /\ stack'[i] = stack[i]
      BY <1>4, <2>1 DEF Inner
    <3> QED BY <1>2, <2>1, <3>1 DEF PoolInv, InnerSided, SubsInner
  <2>2. CASE i = n + 1
    BY <1>3, <1>4, <2>2, NothingToDo
  <2> QED BY <1>6, <2>1, <2>2
<1>12. InnerClean'
  BY <1>7 DEF InnerClean
<1>13. PoolsLive'
  <2>1. client \in Live'
    BY <1>3, <1>4, <1>6 DEF Live
  <2>2. Range(<<>>) = {}
    BY DEF Range
  <2> QED BY <1>4, <1>7, <2>1, <2>2 DEF PoolsLive
<1> QED BY <1>8, <1>9, <1>11, <1>12, <1>13 DEF PoolInv

LEMMA DispatchSubPool ==
    ASSUME IInv, PoolInv, DispatchSub PROVE PoolInv'
<1>1. PICK op \in {"sub", "subres"} : Calls(op)
  BY DEF DispatchSub
<1>2. stack # <<>> /\ GoodFrame(top) /\ top.todo # <<>> /\ Waits(top)
  BY <1>1, CallMadeIs DEF Calls, Waits
<1>3. Begin(Arg, top.client, stack) /\ nread' = nread
  BY DEF DispatchSub
<1>4. nread \in Nat /\ top.client \in 1..nread
  BY <1>2, TopOfStack DEF IInv, PoolInv, Numbered, top
<1>5. Inner(top) => Arg \in InnerCommands
  <2>1. IsList(top.todo)
    BY <1>2 DEF GoodFrame, Framed
  <2>2. 1 \in DOMAIN top.todo /\ Head(top.todo) = top.todo[1]
    BY <1>2, <2>1, ListFacts
  <2>3. Inner(top) => SubsInner(top.todo)
    BY <1>2, TopPool
  <2> QED BY <1>1, <2>2, <2>3 DEF SubsInner, Calls, Arg
<1> QED BY <1>2, <1>3, <1>4, <1>5, BeginPool DEF Inner

(* A step of poll_ctrl that leaves the stack alone. *)
LEMMA SameStackPool ==
    ASSUME IInv, PoolInv, UNCHANGED <<stack, resp_pool>>, nread' = nread + 1,
           \/ resp_list' = <<>> /\ resp_err_list' = <<>>
           \/ UNCHANGED <<resp_list, resp_err_list>>
    PROVE  PoolInv'
<1>1. nread \in Nat
  BY DEF IInv
<1>2. Numbered'
  <2>1. \A x \in 1..nread : x \in 1..nread'
    BY <1>1
  <2> QED BY <2>1 DEF PoolInv, Numbered
<1>3. SavedLive' /\ InnerSided'
  BY DEF PoolInv, SavedLive, InnerSided, Inner
<1>4. Range(<<>>) = {}
  BY DEF Range
<1>5. InnerClean'
  BY DEF PoolInv, InnerClean, Inner, top, MayHaveAdded, MayHaveAddedErr
<1>6. PoolsLive'
  BY <1>4 DEF PoolInv, PoolsLive, Live
<1> QED BY <1>2, <1>3, <1>5, <1>6 DEF PoolInv

LEMMA PollPool ==
    ASSUME IInv, PoolInv,
           \/ \E c \in XferCommands : PollBusy(c) \/ PollNoop(c) \/ PollDispatch(c)
           \/ PollInvalid
    PROVE  PoolInv'
<1>1. ASSUME NEW c, PollBusy(c) \/ PollNoop(c) PROVE PoolInv'
  BY <1>1, SameStackPool DEF PollBusy, PollNoop, PollAnswers
<1>2. ASSUME NEW c \in XferCommands, PollDispatch(c) PROVE PoolInv'
  <2>1. stack # <<>> /\ Waits(top)
    BY <1>2 DEF Calls, Waits, PollDispatch, CanPoll
  <2>2. Begin(c, nread + 1, stack) /\ nread' = nread + 1 /\ c \notin Busy \cup {"NOOP"}
    BY <1>2 DEF PollDispatch
  <2>3. c \in InnerCommands
    BY <2>2 DEF InnerCommands
  <2>4. nread \in Nat /\ top.client \in 1..nread
    BY <2>1, TopOfStack DEF IInv, PoolInv, Numbered, top
  <2>5. nread' \in Nat /\ nread <= nread' /\ nread + 1 \in 1..nread' /\ top.client <= nread + 1
    BY <2>2, <2>4
  <2> QED BY <2>1, <2>2, <2>3, <2>5, BeginPool
<1>3. CASE PollInvalid
  BY <1>3, SameStackPool DEF PollInvalid, pr_response_send
<1> QED BY <1>1, <1>2, <1>3

LEMMA ReadPool ==
    ASSUME IInv, PoolInv, (\E c \in Commands \cup EarlyCommands : ReadCommand(c)) \/ InvalidCommand
    PROVE  PoolInv'
<1>1. ASSUME NEW c, ReadCommand(c) PROVE PoolInv'
  <2>1. /\ stack = <<>> /\ nread \in Nat /\ nread' = nread + 1 /\ resp_pool = NULL
        /\ Begin(c, nread + 1, <<>>)
    BY <1>1 DEF ReadCommand, IInv, PoolInv, PoolsLive
  <2>2. PICK g : g = NewFrame(c, nread + 1, resp_pool)
    OBVIOUS
  <2>3. GoodFrame(g) /\ g.client = nread + 1 /\ g.saved = resp_pool
    BY <2>2, NewFrameGood
  <2>4. stack' # <<>> /\ DOMAIN stack' = 1..1 /\ stack'[1] = g
    BY <2>1, <2>2 DEF Begin
  <2>5. \A i \in 1..1 : i = 1
    OBVIOUS
  <2>6. SavedLive' /\ InnerSided'
    BY <2>1, <2>3, <2>4, <2>5 DEF SavedLive, InnerSided, Inner
  <2>7. Numbered'
    BY <2>1, <2>3, <2>4, <2>5 DEF Numbered
  <2>8. InnerClean'
    BY <2>1 DEF InnerClean, Begin
  <2>9. PoolsLive'
    <3>1. nread + 1 \in Live'
      BY <2>3, <2>4 DEF Live
    <3>2. Range(<<>>) = {}
      BY DEF Range
    <3> QED BY <2>1, <2>4, <3>1, <3>2 DEF PoolsLive, Begin
  <2> QED BY <2>6, <2>7, <2>8, <2>9 DEF PoolInv
<1>2. CASE InvalidCommand
  BY <1>2, SameStackPool DEF InvalidCommand
<1> QED BY <1>1, <1>2

(* The end of pr_cmd_dispatch.  When an inner command ends both lists are  *)
(* empty; otherwise no pool is destroyed but that of the outermost command. *)
LEMMA EndDispatchPool ==
    ASSUME IInv, PoolInv, EndDispatch PROVE PoolInv'
<1>1. PICK m : m = Len(stack)
  OBVIOUS
<1>2. /\ stack # <<>> /\ m \in Nat /\ m > 0 /\ DOMAIN stack = 1..m
      /\ top = stack[m] /\ GoodFrame(top) /\ top.phase = "END"
  BY <1>1, TopOfStack, TopGood DEF IInv, EndDispatch, top
<1>3. resp_pool' = top.saved /\ nread' = nread
  BY DEF EndDispatch
<1>4. \/ top.failed = "NO" /\ resp_list' = <<>> /\ resp_err_list' = resp_err_list
      \/ top.failed # "NO" /\ resp_list' = resp_list /\ resp_err_list' = <<>>
  BY DEF EndDispatch
<1>5. Inner(top) => resp_list' = <<>> /\ resp_err_list' = <<>>
  BY <1>2, <1>4, TopPool DEF MayHaveAdded, MayHaveAddedErr
<1>6. Range(<<>>) = {}
  BY DEF Range
<1>7. CASE m = 1
  <2>1. stack' = <<>>
    BY <1>1, <1>7, Ended
  <2>2. top.saved = NULL
    BY <1>2, <1>7 DEF PoolInv, SavedLive
  <2> QED BY <1>3, <2>1, <2>2 DEF PoolInv, SavedLive, Numbered, InnerSided, InnerClean, PoolsLive
<1>8. CASE m # 1
  <2>1. PICK n : n = m - 1
    OBVIOUS
  <2>2. /\ n \in 1..m /\ n < m /\ Len(stack') = n /\ stack' # <<>> /\ DOMAIN stack' = 1..n
        /\ GoodFrame(stack[n]) /\ stack[n].todo # <<>> /\ Waits(stack[n])
        /\ stack'[n] = CallerResumes(stack[m], stack[n])
        /\ \A i \in 1..n : i # n => stack'[i] = stack[i]
    BY <1>1, <1>8, <2>1, Ended DEF Waits
  <2>3. /\ SameCommand(stack[n], stack'[n])
        /\ stack'[n].phase = stack[n].phase /\ stack'[n].failed = stack[n].failed
        /\ stack[n].client # top.client => stack'[n] = stack[n]
        /\ stack[n].client = top.client =>
              /\ stack'[n].todo = Tail(stack[n].todo)
              /\ stack'[n].returns = stack[n].returns
                    \/ (Head(stack[n].todo).op = "subres" /\ stack'[n].returns = "ERROR")
    BY <1>2, <2>2, Resumed
  <2>4. \A i \in 1..n : /\ stack'[i].client = stack[i].client
                        /\ stack'[i].saved = stack[i].saved /\ stack'[i].cmd = stack[i].cmd
    BY <2>2, <2>3 DEF SameCommand
  <2>5. 1 \in 1..n /\ n \in 1..n /\ m \in 1..m /\ \A i \in 1..n : i \in 1..m /\ i <= n /\ i <= m
    BY <1>2, <1>8, <2>1
  <2>6. top' = stack'[n]
    BY <2>2 DEF top
  <2>7. SavedLive'
    <3> SUFFICES ASSUME NEW i \in 1..n
                 PROVE  IF i = 1 THEN stack'[i].saved = NULL
                        ELSE stack'[i].saved \in {SESSION} \cup {stack'[j].client : j \in 1..(i - 1)}
      BY <2>2 DEF SavedLive
    <3>1. \A j \in 1..(i - 1) : j \in 1..n
      BY <2>2
    <3>2. IF i = 1 THEN stack[i].saved = NULL
          ELSE stack[i].saved \in {SESSION} \cup {stack[j].client : j \in 1..(i - 1)}
      BY <1>2, <2>5 DEF PoolInv, SavedLive
    <3> QED BY <2>4, <3>1, <3>2
  <2>8. Numbered'
    BY <1>2, <1>3, <2>2, <2>4, <2>5 DEF PoolInv, Numbered
  <2>9. InnerSided'
    <3> SUFFICES ASSUME NEW i \in 1..n, stack[i].client # stack[1].client
                 PROVE  /\ stack'[i].cmd \in InnerCommands
                        /\ OneSided(stack'[i].todo, stack'[i].phase, stack'[i].returns)
                        /\ SubsInner(stack'[i].todo)
      BY <2>2, <2>4, <2>5 DEF InnerSided, Inner, SubsInner
    <3>1. /\ stack[i].cmd \in InnerCommands
          /\ OneSided(stack[i].todo, stack[i].phase, stack[i].returns)
          /\ SubsInner(stack[i].todo)
      BY <1>2, <2>5 DEF PoolInv, InnerSided, Inner, SubsInner
    <3>2. CASE i # n \/ stack[n].client # top.client
      BY <2>2, <2>3, <3>1, <3>2
    <3>3. CASE i = n /\ stack[n].client = top.client
      <4>1. IsList(stack[n].todo)
        BY <2>2 DEF GoodFrame, Framed
      <4>2. OneSided(Tail(stack[n].todo), stack[n].phase, stack'[n].returns)
        BY <2>2, <2>3, <3>1, <3>3, <4>1, RestOneSided
      <4>3. SubsInner(Tail(stack[n].todo))
        BY <2>2, <3>1, <3>3, <4>1, RestSubsInner
      <4> QED BY <2>3, <2>4, <3>1, <3>3, <4>2, <4>3
    <3> QED BY <3>2, <3>3
  <2>10. \A i \in 1..m : stack[1].client <= stack[i].client /\ stack[i].client <= top.client
    <3>1. \A i, j \in 1..m : i <= j => stack[i].client <= stack[j].client
      BY <1>2 DEF PoolInv, Numbered
    <3>2. \A i \in 1..m : 1 <= i /\ i <= m /\ 1 \in 1..m /\ m \in 1..m
      BY <1>2
    <3> QED BY <1>2, <3>1, <3>2
  <2>11. ~Inner(top) => \A i \in 1..m : stack[i].client = stack[1].client
    <3>1. \A i \in 1..m : stack[i].client \in Nat
      BY <1>2 DEF PoolInv, Numbered, IInv
    <3>2. \A a, b \in Nat : a <= b /\ b <= a => a = b
      OBVIOUS
    <3> QED BY <2>5, <2>10, <3>1, <3>2 DEF Inner
  <2>12. InnerClean'
    <3>1. (Inner(top))' => Inner(top)
      BY <2>4, <2>5, <2>6, <2>11 DEF Inner
    <3> QED BY <1>5, <3>1 DEF InnerClean
  <2>13. Live' = {SESSION} \cup {stack[i].client : i \in 1..n}
    BY <2>2, <2>4 DEF Live
  <2>14. resp_pool' \in Live'
    BY <1>2, <1>3, <1>8, <2>1, <2>5, <2>13 DEF PoolInv, SavedLive
  <2>15. ASSUME NEW r \in Range(resp_list') \cup Range(resp_err_list') PROVE r.pool \in Live'
    <3>1. ~Inner(top)
      BY <1>5, <1>6, <2>15
    <3>2. \A i \in 1..m : stack[i].client = stack[1].client
      BY <2>11, <3>1
    <3>3. Live = {SESSION} \cup {stack[i].client : i \in 1..m}
      BY <1>2 DEF Live
    <3>4. Live = {SESSION, stack[1].client} /\ Live' = {SESSION, stack[1].client}
      BY <2>5, <2>13, <3>2, <3>3
    <3>5. r \in Range(resp_list) \cup Range(resp_err_list)
      BY <1>4, <1>6, <2>15
    <3> QED BY <1>2, <3>4, <3>5, TopPool DEF ListsLive
  <2>16. PoolsLive'
    BY <2>2, <2>14, <2>15 DEF PoolsLive
  <2> QED BY <2>7, <2>8, <2>9, <2>12, <2>16 DEF PoolInv
<1> QED BY <1>7, <1>8

LEMMA NextPool ==
    ASSUME OneSidedHandlers, IInv, PoolInv, [Next]_vars PROVE PoolInv'
<1>1. CASE UNCHANGED vars
  BY <1>1 DEF vars, lists, PoolInv, SavedLive, Numbered, InnerSided, Inner, InnerClean, top,
     MayHaveAdded, MayHaveAddedErr, PoolsLive, Live
<1>2. CASE Next
  BY <1>2, ReadPool, AuthCheckFailsPool, CallHandlerPool, NoHandlerLeftPool,
     HandlerReturnsPool, CallPool, DispatchSubPool, PollPool, EndDispatchPool DEF Next
<1> QED BY <1>1, <1>2

LEMMA InitPool == Init => PoolInv
<1> SUFFICES ASSUME Init PROVE PoolInv
  OBVIOUS
<1>1. stack = <<>> /\ resp_pool = NULL /\ DOMAIN stack = {}
  BY DEF Init
<1> QED BY <1>1 DEF PoolInv, SavedLive, Numbered, InnerSided, InnerClean, PoolsLive

(* The responses that wait to be sent, and the next one, are in pools that  *)
(* exist, however commands are dispatched within others (pr_cmd_dispatch    *)
(* puts the pool of before back, poll_ctrl destroys that of the command it  *)
(* has read): for handlers of inner commands that add to the list that is   *)
(* flushed.                                                                 *)
THEOREM ResponsesLive == OneSidedHandlers /\ Spec => []PoolsLive
<1>1. Init => IInv /\ PoolInv
  BY InitIInv, InitPool
<1>2. OneSidedHandlers /\ IInv /\ PoolInv /\ [Next]_vars => (IInv /\ PoolInv)'
  BY NextIInv, NextPool
<1>3. IInv /\ PoolInv => PoolsLive
  BY DEF PoolInv
<1>4. OneSidedHandlers => []OneSidedHandlers
  OBVIOUS
<1> QED BY <1>1, <1>2, <1>3, <1>4, PTL DEF Spec
-----------------------------------------------------------------------------
(* A rename in progress. *)

(* A command that goes on to the next call of _dispatch: at the log         *)
(* handlers of its own the one that removes the note is still to come.      *)
LEMMA AdvanceCleans ==
    ASSUME NEW f, NEW g, GoodFrame(g), g.row = 0, ~(IsLog(f.phase) /\ f.scope = "OWN"),
           g.phase = "END" => IsLog(f.phase) /\ f.scope = "OWN"
    PROVE  WillClean(g)
<1>1. g.phase # "END"
  OBVIOUS
<1>2. ASSUME IsLog(g.phase) PROVE \E i \in DOMAIN Table : i > g.row /\ Cleans(i, g.phase)
  <2>1. PICK i \in DOMAIN Table : Cleans(i, g.phase)
    BY <1>2, RenameAssumption DEF IsLog
  <2>2. i > 0
    BY TableAssumption, ListFacts
  <2> QED BY <2>1, <2>2
<1> QED BY <1>1, <1>2 DEF WillClean

(* Steps of the innermost command.  RNTO is never dispatched within         *)
(* another command, so it is innermost only when it is alone.               *)
NoteKept ==
    /\ authenticated' \in BOOLEAN /\ rnfr' \in BOOLEAN
    /\ (authenticated => authenticated') /\ (rnfr' => authenticated')
    /\ (rnfr' => rnfr \/ top.cmd = "RNFR")

CleansYet(g) ==
    Len(stack) = 1 /\ top.cmd = "RNTO" =>
        (rnfr' => WillClean(g)) /\ (IsLog(g.phase) => g.returns # "HANDLED")

LEMMA SetTopRename ==
    ASSUME IInv, RenameInv, stack # <<>>, NEW g, GoodFrame(g), SameCommand(top, g),
           stack' = SetTop(g), done' = done, NoteKept, Notes(g), CleansYet(g)
    PROVE  RenameInv'
<1>1. PICK n : n = Len(stack)
  OBVIOUS
<1>2. n \in Nat /\ n > 0 /\ DOMAIN stack = 1..n /\ n \in DOMAIN stack /\ GoodStack(stack) /\ top = stack[n]
  BY <1>1, TopOfStack DEF IInv, top
<1>3. /\ Len(stack') = n /\ DOMAIN stack' = 1..n
      /\ stack'[n] = g /\ \A i \in 1..n : i # n => stack'[i] = stack[i]
  BY <1>1, <1>2, StackSet DEF SetTop
<1>4. stack' # <<>>
  BY <1>2, <1>3
<1>5. ASSUME NEW i \in 1..n PROVE (Notes(stack[i]))'
  <2>1. Notes(stack'[i])
    BY <1>2, <1>3 DEF RenameInv
  <2> QED BY <2>1 DEF Notes, NoteKept
<1>6. ASSUME NEW i \in 1..n, i # 1 PROVE stack'[i].cmd \notin {"RNFR", "RNTO"}
  BY <1>2, <1>3, <1>6 DEF RenameInv, SameCommand
<1>7. ASSUME stack'[1].cmd = "RNTO"
      PROVE  (rnfr' => WillClean(stack'[1])) /\ (IsLog(stack'[1].phase) => stack'[1].returns # "HANDLED")
  <2>1. CASE n = 1
    BY <1>1, <1>2, <1>3, <1>7, <2>1 DEF SameCommand, CleansYet
  <2>2. CASE n # 1
    <3>1. top.cmd # "RNFR" /\ stack'[1] = stack[1] /\ 1 \in 1..n
      BY <1>2, <1>3, <2>2 DEF RenameInv
    <3> QED BY <1>2, <1>7, <3>1 DEF RenameInv, NoteKept
  <2> QED BY <2>1, <2>2
<1>8. (WillClean(stack[1]))' <=> WillClean(stack'[1])
  BY DEF WillClean
<1>9. ASSUME NEW d \in done' PROVE ~(d.cmd = "RNTO" /\ d.log # "NO")
  BY <1>9 DEF RenameInv
<1>10. (authenticated \in BOOLEAN /\ rnfr \in BOOLEAN /\ (rnfr => authenticated))'
  BY DEF NoteKept
<1>11. (\A i \in DOMAIN stack : Notes(stack[i]) /\ (i # 1 => stack[i].cmd \notin {"RNFR", "RNTO"}))'
  BY <1>3, <1>5, <1>6
<1>12. (stack # <<>> /\ stack[1].cmd = "RNTO" =>
          /\ rnfr => WillClean(stack[1])
          /\ IsLog(stack[1].phase) => stack[1].returns # "HANDLED")'
  BY <1>7, <1>8
<1>13. (\A d \in done : d.cmd = "RNTO" /\ d.log # "NO" => stack = <<>> /\ ~rnfr)'
  BY <1>9
<1> QED BY <1>10, <1>11, <1>12, <1>13 DEF RenameInv

LEMMA NoNotes == ASSUME NEW f, f.todo = <<>> PROVE Notes(f)
  BY DEF Notes

(* What is known of an RNTO that is alone. *)
LEMMA TopRename ==
    ASSUME IInv, RenameInv, stack # <<>>
    PROVE  /\ Notes(top) /\ rnfr \in BOOLEAN /\ authenticated \in BOOLEAN /\ (rnfr => authenticated)
           /\ Len(stack) = 1 /\ top.cmd = "RNTO" =>
                 (rnfr => WillClean(top)) /\ (IsLog(top.phase) => top.returns # "HANDLED")
  BY TopOfStack DEF IInv, RenameInv, top

LEMMA AuthCheckFailsRename ==
    ASSUME IInv, RenameInv, AuthCheckFails PROVE RenameInv'
<1>1. stack # <<>> /\ GoodFrame(top) /\ top.phase # "END"
  BY TopGood DEF AuthCheckFails
<1>2. ~(IsLog(top.phase) /\ top.scope = "ANY")
  <2>1. NextRow(top) \in DOMAIN Table /\ Matches(top, NextRow(top)) /\ Table[NextRow(top)].requires_auth
    BY NextRowIs DEF AuthCheckFails
  <2> QED BY <2>1, LogAssumption DEF Matches, Match
<1>3. PICK g : g = Advance(top, -1)
  OBVIOUS
<1>4. GoodFrame(g) /\ SameCommand(top, g) /\ g.returns = "NONE" /\ g.todo = <<>>
  BY <1>1, <1>2, <1>3, AdvanceGood
<1>5. /\ stack' = SetTop(g) /\ done' = done
      /\ authenticated' = authenticated /\ rnfr' = rnfr /\ ~authenticated
  BY <1>3 DEF AuthCheckFails, flags
<1>6. Notes(g)
  BY <1>4, NoNotes
<1>7. ~rnfr' /\ CleansYet(g)
  BY <1>1, <1>4, <1>5, TopRename DEF CleansYet
<1>8. NoteKept
  BY <1>1, <1>5, <1>7, TopRename DEF NoteKept
<1> QED BY <1>1, <1>4, <1>5, <1>6, <1>7, <1>8, SetTopRename

LEMMA CallHandlerRename ==
    ASSUME IInv, RenameInv, CallHandler PROVE RenameInv'
<1>1. stack # <<>> /\ GoodFrame(top) /\ top.phase # "END" /\ NextRow(top) # 0 /\ top.todo = <<>>
  BY TopGood DEF CallHandler, GoodFrame, EndsIdle
<1>2. PICK b \in Table[NextRow(top)].does : stack' = SetTop(Called(top, b))
  BY DEF CallHandler, Called
<1>3. PICK g, n : g = Called(top, b) /\ n = NextRow(top)
  OBVIOUS
<1>4. /\ GoodFrame(g) /\ SameCommand(top, g)
      /\ g.todo = b.calls /\ g.returns = b.returns /\ g.phase = top.phase
      /\ g.scope = top.scope /\ g.row = n
  BY <1>1, <1>3, CalledGood
<1>5. /\ n \in DOMAIN Table /\ Matches(top, n)
      /\ \A i \in DOMAIN Table : i > top.row /\ Matches(top, i) => n <= i
      /\ \A i \in DOMAIN Table : i \in Nat
  BY <1>1, <1>3, NextRowIs, TableAssumption, ListFacts
<1>6. /\ stack' = SetTop(g) /\ done' = done
      /\ authenticated' = authenticated /\ rnfr' = rnfr
      /\ Table[n].requires_auth => authenticated
  BY <1>2, <1>3 DEF CallHandler, flags
<1>7. Notes(g)
  <2> SUFFICES ASSUME NEW k \in DOMAIN b.calls
               PROVE  /\ b.calls[k].op = "rnfr" =>
                            /\ b.calls[k].arg \in BOOLEAN
                            /\ b.calls[k].arg = TRUE => g.cmd = "RNFR" /\ authenticated
                      /\ b.calls[k].op \in {"sub", "subres"} => b.calls[k].arg \notin {"RNFR", "RNTO"}
    BY <1>4 DEF Notes
  <2>1. /\ b.calls[k].op = "rnfr" =>
              /\ b.calls[k].arg \in BOOLEAN
              /\ b.calls[k].arg = TRUE => Table[n].cmd = "RNFR" /\ Table[n].requires_auth
        /\ b.calls[k].op \in {"sub", "subres"} => b.calls[k].arg \notin {"RNFR", "RNTO"}
    BY <1>3, <1>5, RenameAssumption
  <2>2. Table[n].cmd = "RNFR" => g.cmd = "RNFR"
    BY <1>4, <1>5, RenameAssumption DEF Matches, Match, SameCommand
  <2> QED BY <1>6, <2>1, <2>2
<1>8. ASSUME top.cmd = "RNTO", IsLog(top.phase) PROVE g.returns # "HANDLED"
  <2>1. CASE top.scope = "ANY"
    BY <1>4, <1>8, <2>1 DEF GoodFrame, LogGoesOn
  <2>2. CASE top.scope # "ANY"
    <3>1. Table[n].cmd = "RNTO" /\ IsLog(Table[n].phase)
      BY <1>5, <1>8, <2>2 DEF Matches, Match
    <3> QED BY <1>3, <1>4, <1>5, <3>1, RenameAssumption
  <2> QED BY <2>1, <2>2
<1>9. ASSUME top.cmd = "RNTO", WillClean(top) PROVE WillClean(g)
  <2> SUFFICES ASSUME IsLog(top.phase), top.scope = "OWN"
               PROVE  \/ \E k \in DOMAIN b.calls : b.calls[k].op = "rnfr" /\ b.calls[k].arg = FALSE
                      \/ \E i \in DOMAIN Table : i > n /\ Cleans(i, top.phase)
    BY <1>1, <1>4 DEF WillClean
  <2>1. PICK i \in DOMAIN Table : i > top.row /\ Cleans(i, top.phase)
    BY <1>1, <1>9 DEF WillClean
  <2>2. Matches(top, i)
    BY <1>9, <2>1 DEF Cleans, Matches, Match
  <2>3. n = i \/ i > n
    BY <1>5, <2>1, <2>2
  <2>4. CASE n = i
    BY <1>3, <2>1, <2>4 DEF Cleans
  <2> QED BY <2>1, <2>3, <2>4
<1>10. CleansYet(g)
  BY <1>1, <1>4, <1>6, <1>8, <1>9, TopRename DEF CleansYet
<1>11. NoteKept
  BY <1>1, <1>6, TopRename DEF NoteKept
<1> QED BY <1>1, <1>4, <1>6, <1>7, <1>10, <1>11, SetTopRename

LEMMA NoHandlerLeftRename ==
    ASSUME IInv, RenameInv, NoHandlerLeft PROVE RenameInv'
<1>1. /\ stack # <<>> /\ GoodFrame(top) /\ top.phase # "END" /\ NextRow(top) = 0
      /\ top.todo = <<>>
  BY TopGood DEF NoHandlerLeft, GoodFrame, EndsIdle
<1>2. PICK res \in {-1, 0, 1} : stack' = SetTop(Advance(top, res))
  BY DEF NoHandlerLeft
<1>3. PICK g : g = Advance(top, res)
  OBVIOUS
<1>4. /\ GoodFrame(g) /\ SameCommand(top, g) /\ g.returns = "NONE" /\ g.todo = <<>> /\ g.row = 0
      /\ g.phase = "END" => IsLog(top.phase) /\ top.scope = "OWN"
  BY <1>1, <1>3, AllLogged, AdvanceGood
<1>5. /\ stack' = SetTop(g) /\ done' = done
      /\ authenticated' = authenticated /\ rnfr' = rnfr
  BY <1>2, <1>3 DEF NoHandlerLeft, flags
<1>6. ASSUME top.cmd = "RNTO", WillClean(top) PROVE WillClean(g)
  <2>1. ASSUME IsLog(top.phase), top.scope = "OWN" PROVE FALSE
    <3>1. PICK i \in DOMAIN Table : i > top.row /\ Cleans(i, top.phase)
      BY <1>1, <1>6, <2>1 DEF WillClean
    <3>2. Matches(top, i)
      BY <1>6, <2>1, <3>1 DEF Cleans, Matches, Match
    <3> QED BY <1>1, <3>1, <3>2, NextRowIs
  <2> QED BY <1>4, <2>1, AdvanceCleans
<1>7. CleansYet(g)
  BY <1>1, <1>4, <1>5, <1>6, TopRename DEF CleansYet
<1>8. NoteKept
  BY <1>1, <1>5, TopRename DEF NoteKept
<1> QED BY <1>1, <1>4, <1>5, <1>7, <1>8, NoNotes, SetTopRename

LEMMA HandlerReturnsRename ==
    ASSUME IInv, RenameInv, HandlerReturns PROVE RenameInv'
<1>1. stack # <<>> /\ GoodFrame(top) /\ Running(top) /\ top.todo = <<>> /\ top.phase # "END"
  BY TopGood DEF HandlerReturns, GoodFrame, EndsIdle
<1>2. PICK g : /\ stack' = SetTop(g)
               /\ g = IF Result(top) = 0 THEN [top EXCEPT !.returns = "NONE", !.num = R_DUP]
                      ELSE Advance(top, Result(top))
  BY DEF HandlerReturns
<1>3. /\ done' = done /\ authenticated' = authenticated /\ rnfr' = rnfr
  BY DEF HandlerReturns, flags
<1>4. /\ Result(top) \in {-1, 0, 1}
      /\ IsLog(top.phase) /\ top.scope = "ANY" => Result(top) = 0
      /\ Result(top) = 1 => top.returns = "HANDLED"
      /\ IsLog(top.phase) => Result(top) # -1
  BY <1>1, ResultIs
<1>5. /\ GoodFrame(g) /\ SameCommand(top, g) /\ g.returns = "NONE" /\ g.todo = <<>>
      /\ WillClean(top) /\ (IsLog(top.phase) => top.returns # "HANDLED") => WillClean(g)
  <2>1. CASE Result(top) = 0
    <3>1. /\ GoodFrame(g) /\ SameCommand(top, g) /\ g.returns = "NONE"
          /\ g.todo = top.todo /\ g.phase = top.phase /\ g.scope = top.scope /\ g.row = top.row
      BY <1>1, <1>2, <2>1, KeepLookingGood
    <3> QED BY <1>1, <3>1 DEF WillClean
  <2>2. CASE Result(top) # 0
    <3>1. /\ GoodFrame(g) /\ SameCommand(top, g) /\ g.returns = "NONE" /\ g.todo = <<>> /\ g.row = 0
          /\ g.phase = "END" => IsLog(top.phase) /\ top.scope = "OWN"
      BY <1>1, <1>2, <1>4, <2>2, AdvanceGood
    <3>2. (IsLog(top.phase) => top.returns # "HANDLED") => ~IsLog(top.phase)
      BY <1>4, <2>2
    <3> QED BY <3>1, <3>2, AdvanceCleans
  <2> QED BY <2>1, <2>2
<1>6. CleansYet(g)
  BY <1>1, <1>3, <1>5, TopRename DEF CleansYet
<1>7. NoteKept
  BY <1>1, <1>3, TopRename DEF NoteKept
<1> QED BY <1>1, <1>2, <1>3, <1>5, <1>6, <1>7, NoNotes, SetTopRename

(* The calls of a handler: RNTO may have its note removed. *)
LEMMA CallRename ==
    ASSUME IInv, RenameInv,
           \/ HandlerAdds \/ HandlerAddsErr \/ HandlerSends \/ pr_data_abort
           \/ SetsFlag \/ TransferEnds
    PROVE  RenameInv'
<1>1. PICK op : /\ Calls(op)
                /\ (authenticated' = authenticated) \/ (authenticated' = TRUE)
                /\ \/ op = "rnfr" /\ rnfr' = Arg /\ authenticated' = authenticated
                   \/ op # "rnfr" /\ rnfr' = rnfr
  <2>1. CASE SetsFlag
    <3>1. CASE Calls("authd") /\ authenticated' = TRUE /\ UNCHANGED <<logged_in, rnfr>>
      <4>1. "authd" # "rnfr"
        OBVIOUS
      <4>2. rnfr' = rnfr
        BY <3>1
      <4> QED BY <3>1, <4>1, <4>2, Zenon
    <3>2. CASE Calls("login") /\ logged_in' = TRUE /\ UNCHANGED <<authenticated, rnfr>>
      BY <3>2
    <3>3. CASE Calls("rnfr") /\ rnfr' = Arg /\ UNCHANGED <<authenticated, logged_in>>
      BY <3>3
    <3> QED BY <2>1, <3>1, <3>2, <3>3 DEF SetsFlag
  <2>2. CASE HandlerAdds \/ HandlerAddsErr \/ HandlerSends \/ pr_data_abort \/ TransferEnds
    BY <2>2 DEF HandlerAdds, HandlerAddsErr, HandlerSends, pr_data_abort, TransferEnds, flags
  <2> QED BY <2>1, <2>2
<1>2. PICK g, calls : g = CallMade /\ calls = top.todo
  OBVIOUS
<1>3. /\ stack # <<>> /\ GoodFrame(top) /\ calls # <<>> /\ IsList(calls)
      /\ GoodFrame(g) /\ SameCommand(top, g)
      /\ g.returns = top.returns /\ g.todo = Tail(calls) /\ g.phase = top.phase
      /\ g.scope = top.scope /\ g.row = top.row
  BY <1>1, <1>2, CallMadeIs DEF GoodFrame, Framed
<1>4. stack' = SetTop(g) /\ done' = done
  BY <1>2 DEF HandlerAdds, HandlerAddsErr, HandlerSends, pr_data_abort, SetsFlag, TransferEnds
<1>5. PICK n : n = Len(calls)
  OBVIOUS
<1>6. /\ n \in Nat /\ n > 0 /\ DOMAIN calls = 1..n /\ Head(calls) = calls[1]
      /\ DOMAIN g.todo = 1..(n - 1) /\ \A k \in 1..(n - 1) : g.todo[k] = calls[k + 1]
  BY <1>3, <1>5, ListFacts, TailList
<1>7. calls[1].op = op /\ Arg = calls[1].arg
  BY <1>1, <1>2, <1>6 DEF Calls, Arg
<1>8. 1 \in DOMAIN calls /\ \A k \in 1..(n - 1) : k + 1 \in DOMAIN calls
  BY <1>6
<1>9. /\ rnfr \in BOOLEAN /\ authenticated \in BOOLEAN /\ (rnfr => authenticated)
      /\ Notes(top)
  BY <1>3, TopRename
<1>10. Notes(g)
  BY <1>2, <1>3, <1>6, <1>8, <1>9 DEF Notes, SameCommand
<1>11. op = "rnfr" => Arg \in BOOLEAN /\ (Arg = TRUE => top.cmd = "RNFR" /\ authenticated)
  BY <1>2, <1>7, <1>8, <1>9 DEF Notes
<1>12. NoteKept
  <2>1. CASE op = "rnfr" /\ rnfr' = Arg /\ authenticated' = authenticated
    BY <1>9, <1>11, <2>1 DEF NoteKept
  <2>2. CASE op # "rnfr" /\ rnfr' = rnfr
    BY <1>1, <1>9, <2>2 DEF NoteKept
  <2> QED BY <1>1, <2>1, <2>2
<1>13. ASSUME Len(stack) = 1, top.cmd = "RNTO", rnfr' PROVE WillClean(g)
  <2>1. op # "rnfr" /\ rnfr' = rnfr
    BY <1>1, <1>11, <1>13
  <2>2. WillClean(top)
    BY <1>3, <1>13, <2>1, TopRename
  <2>3. ASSUME NEW k \in DOMAIN calls, calls[k].op = "rnfr", calls[k].arg = FALSE
        PROVE  \E j \in DOMAIN g.todo : g.todo[j].op = "rnfr" /\ g.todo[j].arg = FALSE
    <3>1. k # 1
      BY <1>7, <2>1, <2>3
    <3>2. k - 1 \in 1..(n - 1) /\ (k - 1) + 1 = k
      BY <1>6, <3>1
    <3> QED BY <1>6, <2>3, <3>2
  <2> QED BY <1>2, <1>3, <2>2, <2>3 DEF WillClean
<1>14. CleansYet(g)
  BY <1>3, <1>13, TopRename DEF CleansYet
<1> QED BY <1>3, <1>4, <1>10, <1>12, <1>14, SetTopRename

(* A command dispatched within another is neither RNFR nor RNTO. *)
LEMMA BeginRename ==
    ASSUME IInv, RenameInv, stack # <<>>, Waits(top), NEW c, NEW client, Begin(c, client, stack),
           c \notin {"RNFR", "RNTO"}, UNCHANGED <<flags, done>>
    PROVE  RenameInv'
<1>1. PICK n, g : n = Len(stack) /\ g = NewFrame(c, client, resp_pool)
  OBVIOUS
<1>2. n \in Nat /\ n > 0 /\ DOMAIN stack = 1..n /\ GoodStack(stack) /\ top = stack[n]
  BY <1>1, TopOfStack DEF IInv, top
<1>3. GoodFrame(g) /\ g.cmd = c /\ g.todo = <<>>
  BY <1>1, NewFrameGood
<1>4. /\ stack' # <<>> /\ DOMAIN stack' = 1..(n + 1)
      /\ stack'[n + 1] = g /\ \A i \in 1..n : stack'[i] = stack[i]
  BY <1>1, <1>2, <1>3, StackPushed DEF Begin, top
<1>5. /\ \A i \in 1..(n + 1) : i = n + 1 \/ i \in 1..n
      /\ 1 \in 1..n
  BY <1>2
<1>6. authenticated' = authenticated /\ rnfr' = rnfr /\ done' = done
  BY DEF flags
<1>7. (authenticated \in BOOLEAN /\ rnfr \in BOOLEAN /\ (rnfr => authenticated))'
  BY <1>6 DEF RenameInv
<1>8. ASSUME NEW i \in 1..(n + 1)
      PROVE  Notes(stack'[i]) /\ (i # 1 => stack'[i].cmd \notin {"RNFR", "RNTO"})
  BY <1>2, <1>3, <1>4, <1>5, NoNotes DEF RenameInv
<1>9. (\A i \in DOMAIN stack : Notes(stack[i]) /\ (i # 1 => stack[i].cmd \notin {"RNFR", "RNTO"}))'
  BY <1>4, <1>6, <1>8 DEF Notes
<1>10. (stack # <<>> /\ stack[1].cmd = "RNTO" =>
          /\ rnfr => WillClean(stack[1])
          /\ IsLog(stack[1].phase) => stack[1].returns # "HANDLED")'
  <2>1. stack'[1] = stack[1]
    BY <1>4, <1>5
  <2> QED BY <1>6, <2>1 DEF RenameInv, WillClean
<1>11. (\A d \in done : d.cmd = "RNTO" /\ d.log # "NO" => stack = <<>> /\ ~rnfr)'
  BY <1>6 DEF RenameInv
<1> QED BY <1>7, <1>9, <1>10, <1>11 DEF RenameInv

LEMMA DispatchSubRename ==
    ASSUME IInv, RenameInv, DispatchSub PROVE RenameInv'
<1>1. PICK op \in {"sub", "subres"} : Calls(op)
  BY DEF DispatchSub
<1>2. stack # <<>> /\ GoodFrame(top) /\ top.todo # <<>> /\ Waits(top)
  BY <1>1, CallMadeIs DEF Calls, Waits
<1>3. Begin(Arg, top.client, stack) /\ UNCHANGED <<flags, done>>
  BY DEF DispatchSub
<1>4. Arg \notin {"RNFR", "RNTO"}
  <2>1. IsList(top.todo)
    BY <1>2 DEF GoodFrame, Framed
  <2>2. 1 \in DOMAIN top.todo /\ Head(top.todo) = top.todo[1]
    BY <1>2, <2>1, ListFacts
  <2>3. Notes(top)
    BY <1>2, TopRename
  <2> QED BY <1>1, <2>2, <2>3 DEF Notes, Calls, Arg
<1> QED BY <1>2, <1>3, <1>4, BeginRename

LEMMA PollRename ==
    ASSUME IInv, RenameInv,
           \/ \E c \in XferCommands : PollBusy(c) \/ PollNoop(c) \/ PollDispatch(c)
           \/ PollInvalid
    PROVE  RenameInv'
<1>1. ASSUME NEW c, UNCHANGED <<flags, stack>>, stack # <<>>,
             done' = done \cup {[id |-> nread + 1, cmd |-> c, log |-> "NO"]}
      PROVE  RenameInv'
  <2>1. authenticated' = authenticated /\ rnfr' = rnfr /\ stack' = stack
    BY <1>1 DEF flags
  <2>2. \A d \in done' : ~(d.cmd = "RNTO" /\ d.log # "NO")
    BY <1>1 DEF RenameInv
  <2> QED BY <2>1, <2>2 DEF RenameInv, Notes, WillClean
<1>2. ASSUME NEW c, PollBusy(c) \/ PollNoop(c) PROVE RenameInv'
  BY <1>1, <1>2 DEF PollBusy, PollNoop, PollAnswers, CanPoll, Calls
<1>3. ASSUME NEW c, PollDispatch(c) PROVE RenameInv'
  <2>1. stack # <<>> /\ Waits(top)
    BY <1>3 DEF Calls, Waits, PollDispatch, CanPoll
  <2>2. Begin(c, nread + 1, stack) /\ c \notin {"RNFR", "RNTO"} /\ UNCHANGED <<flags, done>>
    BY <1>3 DEF PollDispatch, Busy
  <2> QED BY <2>1, <2>2, BeginRename
<1>4. CASE PollInvalid
  BY <1>1, <1>4 DEF PollInvalid, CanPoll, Calls
<1> QED BY <1>2, <1>3, <1>4

LEMMA ReadRename ==
    ASSUME IInv, RenameInv, (\E c \in Commands \cup EarlyCommands : ReadCommand(c)) \/ InvalidCommand
    PROVE  RenameInv'
<1>1. ASSUME NEW c, ReadCommand(c) PROVE RenameInv'
  <2>1. /\ authenticated' = authenticated /\ rnfr' = rnfr /\ done' = {}
        /\ Begin(c, nread + 1, <<>>)
    BY <1>1 DEF ReadCommand, flags
  <2>2. PICK g : g = NewFrame(c, nread + 1, resp_pool)
    OBVIOUS
  <2>3. GoodFrame(g) /\ g.todo = <<>> /\ g.phase = "PRE_CMD"
    BY <2>2, NewFrameGood
  <2>4. DOMAIN stack' = 1..1 /\ stack'[1] = g
    BY <2>1, <2>2 DEF Begin
  <2>5. \A i \in 1..1 : i = 1
    OBVIOUS
  <2>6. (\A i \in DOMAIN stack : Notes(stack[i]) /\ (i # 1 => stack[i].cmd \notin {"RNFR", "RNTO"}))'
    BY <2>3, <2>4, <2>5 DEF Notes
  <2>7. (stack # <<>> /\ stack[1].cmd = "RNTO" =>
          /\ rnfr => WillClean(stack[1])
          /\ IsLog(stack[1].phase) => stack[1].returns # "HANDLED")'
    BY <2>3, <2>4 DEF WillClean, IsLog
  <2> QED BY <2>1, <2>6, <2>7 DEF RenameInv
<1>2. CASE InvalidCommand
  <2>1. /\ authenticated' = authenticated /\ rnfr' = rnfr /\ stack' = <<>>
        /\ \A d \in done' : d.log = "NO" /\ DOMAIN stack' = {}
    BY <1>2 DEF InvalidCommand, flags
  <2>2. (\A i \in DOMAIN stack : Notes(stack[i]) /\ (i # 1 => stack[i].cmd \notin {"RNFR", "RNTO"}))'
    BY <2>1
  <2> QED BY <2>1, <2>2 DEF RenameInv
<1> QED BY <1>1, <1>2

(* The command that waited for the one that has ended. *)
LEMMA EndDispatchRename ==
    ASSUME IInv, RenameInv, EndDispatch PROVE RenameInv'
<1>1. PICK m : m = Len(stack)
  OBVIOUS
<1>2. /\ stack # <<>> /\ m \in Nat /\ m > 0 /\ DOMAIN stack = 1..m
      /\ top = stack[m] /\ GoodFrame(top) /\ top.phase = "END"
  BY <1>1, TopOfStack, TopGood DEF IInv, EndDispatch, top
<1>3. /\ authenticated' = authenticated /\ rnfr' = rnfr
      /\ \A d \in done' : d \in done \/ d.cmd = top.cmd
  BY DEF EndDispatch, flags
<1>4. \A d \in done : ~(d.cmd = "RNTO" /\ d.log # "NO")
  BY <1>2 DEF RenameInv
<1>5. (authenticated \in BOOLEAN /\ rnfr \in BOOLEAN /\ (rnfr => authenticated))'
  BY <1>3 DEF RenameInv
<1>6. CASE m = 1
  <2>1. stack' = <<>> /\ DOMAIN stack' = {}
    BY <1>1, <1>6, Ended
  <2>2. top.cmd = "RNTO" => ~rnfr
    BY <1>1, <1>2, <1>6, TopRename DEF WillClean
  <2>3. (\A d \in done : d.cmd = "RNTO" /\ d.log # "NO" => stack = <<>> /\ ~rnfr)'
    BY <1>3, <1>4, <2>1, <2>2
  <2>4. (\A i \in DOMAIN stack : Notes(stack[i]) /\ (i # 1 => stack[i].cmd \notin {"RNFR", "RNTO"}))'
    BY <2>1
  <2> QED BY <1>5, <2>1, <2>3, <2>4 DEF RenameInv
<1>7. CASE m # 1
  <2>1. PICK n, g, h : n = m - 1 /\ g = stack[n] /\ h = stack'[n]
    OBVIOUS
  <2>2. /\ n \in 1..m /\ n < m /\ stack' # <<>> /\ DOMAIN stack' = 1..n
        /\ GoodFrame(g) /\ Waits(g) /\ g.todo # <<>>
        /\ h = CallerResumes(stack[m], g)
        /\ \A i \in 1..n : i # n => stack'[i] = stack[i]
    BY <1>1, <1>7, <2>1, Ended DEF Waits
  <2>3. /\ SameCommand(g, h) /\ h.phase = g.phase /\ h.scope = g.scope /\ h.row = g.row
        /\ (h = g) \/ ((h.todo = Tail(g.todo)) /\ (h.returns = g.returns \/ h.returns = "ERROR"))
    BY <2>2, Resumed
  <2>4. n \in Nat /\ 1 \in 1..n /\ n \in 1..n /\ m \in 1..m /\ \A i \in 1..n : i \in 1..m
    BY <1>2, <1>7, <2>1
  <2>5. PICK calls, len : calls = g.todo /\ len = Len(calls)
    OBVIOUS
  <2>6. /\ len \in Nat /\ len > 0 /\ DOMAIN calls = 1..len
        /\ calls[1].op \in {"sub", "subres", "poll"}
        /\ DOMAIN Tail(calls) = 1..(len - 1)
        /\ \A k \in 1..(len - 1) : Tail(calls)[k] = calls[k + 1]
    <3>1. IsList(calls) /\ calls # <<>>
      BY <2>2, <2>5 DEF GoodFrame, Framed
    <3>2. len \in Nat /\ len > 0 /\ DOMAIN calls = 1..len /\ Head(calls) = calls[1]
      BY <2>5, <3>1, ListFacts
    <3> QED BY <2>2, <2>5, <3>1, <3>2, TailList DEF Waits
  <2>7. \A k \in 1..(len - 1) : k + 1 \in DOMAIN calls
    BY <2>6
  <2>8. Notes(g)
    BY <1>2, <2>1, <2>2 DEF RenameInv
  <2>9. Notes(h)
    <3>1. CASE h = g
      BY <2>8, <3>1
    <3>2. CASE h.todo = Tail(g.todo)
      <4> SUFFICES ASSUME NEW k \in DOMAIN h.todo
                   PROVE  /\ h.todo[k].op = "rnfr" =>
                                /\ h.todo[k].arg \in BOOLEAN
                                /\ h.todo[k].arg = TRUE => h.cmd = "RNFR" /\ authenticated
                          /\ h.todo[k].op \in {"sub", "subres"} =>
                                h.todo[k].arg \notin {"RNFR", "RNTO"}
        BY DEF Notes
      <4>1. k + 1 \in DOMAIN g.todo /\ h.todo[k] = g.todo[k + 1]
        BY <2>5, <2>6, <2>7, <3>2
      <4>2. h.cmd = g.cmd
        BY <2>3 DEF SameCommand
      <4> QED BY <2>8, <4>1, <4>2 DEF Notes
    <3> QED BY <2>3, <3>1, <3>2
  <2>10. ASSUME NEW i \in 1..n
         PROVE  Notes(stack'[i]) /\ (i # 1 => stack'[i].cmd \notin {"RNFR", "RNTO"})
    <3>1. Notes(stack[i]) /\ (i # 1 => stack[i].cmd \notin {"RNFR", "RNTO"})
      BY <1>2, <2>4 DEF RenameInv
    <3>2. CASE i = n
      BY <2>1, <2>3, <2>9, <3>1, <3>2 DEF SameCommand
    <3>3. CASE i # n
      BY <2>2, <3>1, <3>3
    <3> QED BY <3>2, <3>3
  <2>11. (\A i \in DOMAIN stack : Notes(stack[i]) /\ (i # 1 => stack[i].cmd \notin {"RNFR", "RNTO"}))'
    BY <1>3, <2>2, <2>10 DEF Notes
  <2>12. WillClean(g) => WillClean(h)
    <3>1. CASE h = g
      BY <3>1
    <3>2. CASE h.todo = Tail(g.todo)
      <4>1. ASSUME NEW k \in DOMAIN calls, calls[k].op = "rnfr", calls[k].arg = FALSE
            PROVE  \E j \in DOMAIN h.todo : h.todo[j].op = "rnfr" /\ h.todo[j].arg = FALSE
        <5>1. k # 1
          BY <2>6, <4>1
        <5>2. k - 1 \in 1..(len - 1) /\ (k - 1) + 1 = k
          BY <2>6, <5>1
        <5> QED BY <2>5, <2>6, <3>2, <4>1, <5>2
      <4> QED BY <2>3, <2>5, <4>1 DEF WillClean
    <3> QED BY <2>3, <3>1, <3>2
  <2>13. (stack # <<>> /\ stack[1].cmd = "RNTO" =>
            /\ rnfr => WillClean(stack[1])
            /\ IsLog(stack[1].phase) => stack[1].returns # "HANDLED")'
    <3>1. stack[1].cmd = "RNTO" =>
             /\ rnfr => WillClean(stack[1])
             /\ IsLog(stack[1].phase) => stack[1].returns # "HANDLED"
      BY <1>2 DEF RenameInv
    <3>2. stack'[1].cmd = "RNTO" =>
             /\ rnfr => WillClean(stack'[1])
             /\ IsLog(stack'[1].phase) => stack'[1].returns # "HANDLED"
      <4>1. CASE n = 1
        BY <2>1, <2>3, <2>12, <3>1, <4>1 DEF SameCommand
      <4>2. CASE n # 1
        BY <2>2, <2>4, <3>1, <4>2
      <4> QED BY <4>1, <4>2
    <3> QED BY <1>3, <3>2 DEF WillClean
  <2>14. top.cmd # "RNTO"
    BY <1>2, <1>7, <2>4 DEF RenameInv
  <2>15. (\A d \in done : d.cmd = "RNTO" /\ d.log # "NO" => stack = <<>> /\ ~rnfr)'
    BY <1>3, <1>4, <2>14
  <2> QED BY <1>5, <2>11, <2>13, <2>15 DEF RenameInv
<1> QED BY <1>6, <1>7

LEMMA NextRename ==
    ASSUME IInv, RenameInv, [Next]_vars PROVE RenameInv'
<1>1. CASE UNCHANGED vars
  BY <1>1 DEF vars, flags, RenameInv, Notes, WillClean
<1>2. CASE Next
  BY <1>2, ReadRename, AuthCheckFailsRename, CallHandlerRename, NoHandlerLeftRename,
     HandlerReturnsRename, CallRename, DispatchSubRename, PollRename, EndDispatchRename DEF Next
<1> QED BY <1>1, <1>2

LEMMA InitRename == Init => RenameInv
<1> SUFFICES ASSUME Init PROVE RenameInv
  OBVIOUS
<1>1. authenticated = FALSE /\ rnfr = FALSE /\ stack = <<>> /\ done = {} /\ DOMAIN stack = {}
  BY DEF Init
<1> QED BY <1>1 DEF RenameInv

(* A rename is over once RNTO has been answered, whatever it and the other  *)
(* handlers returned: core_rnto_cleanup has removed the note, for which     *)
(* core_pre_any refuses all other commands, in whichever log phase it ran.  *)
THEOREM RenameOver == Spec => []RenameEnds
<1>1. Init => IInv /\ RenameInv
  BY InitIInv, InitRename
<1>2. IInv /\ RenameInv /\ [Next]_vars => (IInv /\ RenameInv)'
  BY NextIInv, NextRename
<1>3. IInv /\ RenameInv => RenameEnds
  BY DEF RenameInv, RenameEnds
<1> QED BY <1>1, <1>2, <1>3, PTL DEF Spec
-----------------------------------------------------------------------------
(* pr_response_flush: responses of one code are one reply. *)

(* What is written of them after the first i.                              *)
OneCodeSoFar(list, to, c, i) ==
    IF i = 0 THEN NothingWritten
    ELSE [ml |-> i < Len(list), last_numeric |-> c,
          out |-> [j \in 1..i |-> Line(c, j = Len(list), to, list[j])]]

LEMMA WriteOneCode ==
    ASSUME NEW list, IsList(list), list # <<>>, NEW to, NEW c, list[1].num = c,
           \A i \in DOMAIN list : list[i].num \in {R_DUP, c}, NEW i \in 1..Len(list)
    PROVE  WriteResponse(list, to, OneCodeSoFar(list, to, c, i - 1), i)
              = OneCodeSoFar(list, to, c, i)
<1>1. PICK n : n = Len(list)
  OBVIOUS
<1>2. n \in Nat /\ n > 0 /\ DOMAIN list = 1..n /\ i \in 1..n /\ i - 1 \in Nat /\ i \in Nat
  BY <1>1, ListFacts
<1>3. PICK L : L = [j \in 1..n |-> Line(c, j = n, to, list[j])]
  OBVIOUS
<1>4. \A j \in 1..n : L[j] = Line(c, j = n, to, list[j])
  BY <1>3
<1>5. \A m \in 0..n : [j \in 1..m |-> Line(c, j = n, to, list[j])] = [j \in 1..m |-> L[j]]
  BY <1>2, <1>4
<1>6. PICK s : s = OneCodeSoFar(list, to, c, i - 1)
  OBVIOUS
<1>7. /\ s.ml = (i # 1) /\ (i # 1 => s.last_numeric = c) /\ s.out = [j \in 1..(i - 1) |-> L[j]]
  <2>1. CASE i = 1
    <3>1. s = NothingWritten
      BY <1>6, <2>1 DEF OneCodeSoFar
    <3>2. [j \in 1..(i - 1) |-> L[j]] = <<>>
      BY <2>1
    <3> QED BY <2>1, <3>1, <3>2 DEF NothingWritten
  <2>2. CASE i # 1
    <3>1. i - 1 # 0 /\ i - 1 < n /\ i - 1 \in 0..n
      BY <1>2, <2>2
    <3>2. s = [ml |-> i - 1 < n, last_numeric |-> c,
               out |-> [j \in 1..(i - 1) |-> Line(c, j = n, to, list[j])]]
      BY <1>1, <1>6, <3>1 DEF OneCodeSoFar
    <3> QED BY <1>5, <2>2, <3>1, <3>2
  <2> QED BY <2>1, <2>2
<1>8. OneCodeSoFar(list, to, c, i)
        = [ml |-> i < n, last_numeric |-> c, out |-> [j \in 1..i |-> L[j]]]
  <2>1. i # 0 /\ i \in 0..n
    BY <1>2
  <2> QED BY <1>1, <1>5, <2>1 DEF OneCodeSoFar
<1>9. Append(s.out, L[i]) = [j \in 1..i |-> L[j]]
  <2>1. Append([j \in 1..(i - 1) |-> L[j]], L[i]) = [j \in 1..i |-> L[j]]
    BY <1>2
  <2> QED BY <1>7, <2>1
<1>10. list[i].num \in {R_DUP, c} /\ (i < n => list[i + 1].num \in {R_DUP, c})
  BY <1>2
<1>11. WriteResponse(list, to, s, i)
         = [ml |-> i < n, last_numeric |-> c, out |-> Append(s.out, L[i])]
  <2>1. L[i] = Line(c, i = n, to, list[i]) /\ (i < n) = (i # n)
    BY <1>2, <1>4
  <2>2. CASE i = 1
    <3>1. ~s.ml /\ list[i].num = c
      BY <1>7, <2>2
    <3>2. PICK starts : starts = (i < Len(list) /\ list[i + 1].num \in {R_DUP, list[i].num})
      OBVIOUS
    <3>3. starts = (i < n) /\ (~starts) = (i = n)
      BY <1>1, <1>10, <2>1, <3>1, <3>2
    <3>4. WriteResponse(list, to, s, i)
            = [ml |-> starts, last_numeric |-> c,
               out |-> Append(s.out, Line(c, ~starts, to, list[i]))]
      BY <3>1, <3>2 DEF WriteResponse
    <3> QED BY <2>1, <3>3, <3>4
  <2>3. CASE i # 1
    <3>1. s.ml /\ s.last_numeric = c
      BY <1>7, <2>3
    <3>2. PICK ends : ends = (~(i < Len(list)) \/ list[i].num \notin {R_DUP, s.last_numeric})
      OBVIOUS
    <3>3. (~ends) = (i < n) /\ ends = (i = n)
      BY <1>1, <1>10, <2>1, <3>1, <3>2
    <3>4. WriteResponse(list, to, s, i)
            = [ml |-> ~ends, last_numeric |-> c,
               out |-> Append(s.out, Line(c, ends, to, list[i]))]
      BY <3>1, <3>2 DEF WriteResponse
    <3> QED BY <2>1, <3>3, <3>4
  <2> QED BY <2>2, <2>3
<1> QED BY <1>6, <1>8, <1>9, <1>11

LEMMA FlushOneCode ==
    ASSUME NEW list, IsList(list), list # <<>>, NEW to, NEW c, list[1].num = c,
           \A i \in DOMAIN list : list[i].num \in {R_DUP, c}
    PROVE  Flush(list, to) = [j \in 1..Len(list) |-> Line(c, j = Len(list), to, list[j])]
<1>1. PICK n : n = Len(list) /\ n \in Nat /\ n > 0
  BY ListFacts
<1>2. PICK S : S = [i \in 0..n |-> OneCodeSoFar(list, to, c, i)]
  OBVIOUS
<1>3. \A i \in 1..n : WriteResponse(list, to, OneCodeSoFar(list, to, c, i - 1), i)
                        = OneCodeSoFar(list, to, c, i)
  BY <1>1, WriteOneCode
<1>4. OneCodeSoFar(list, to, c, 0) = NothingWritten
  BY DEF OneCodeSoFar
<1>5. S = [i \in 0..n |-> IF i = 0 THEN NothingWritten ELSE WriteResponse(list, to, S[i - 1], i)]
  <2>1. ASSUME NEW i \in 0..n
        PROVE  S[i] = IF i = 0 THEN NothingWritten ELSE WriteResponse(list, to, S[i - 1], i)
    <3>1. CASE i = 0
      BY <1>2, <1>4, <3>1
    <3>2. CASE i # 0
      <4>1. i \in 1..n /\ i - 1 \in 0..n
        BY <1>1, <3>2
      <4> QED BY <1>2, <1>3, <3>2, <4>1
    <3> QED BY <3>1, <3>2
  <2>2. S = [i \in 0..n |-> S[i]]
    BY <1>2
  <2> QED BY <2>1, <2>2
<1> DEFINE after[i \in 0..Len(list)] ==
        IF i = 0 THEN NothingWritten ELSE WriteResponse(list, to, after[i - 1], i)
<1>6. after = [i \in 0..n |-> IF i = 0 THEN NothingWritten ELSE WriteResponse(list, to, after[i - 1], i)]
  BY <1>1, <1>5
<1>7. Written(list, to) = after
  BY DEF Written
<1> HIDE DEF after
<1>8. ASSUME NEW m \in 0..n PROVE after[m] = OneCodeSoFar(list, to, c, m)
  <2>1. PICK T : T = {i \in 0..n : after[i] # OneCodeSoFar(list, to, c, i)}
    OBVIOUS
  <2>2. ASSUME T # {} PROVE FALSE
    <3>1. T \in SUBSET Nat
      BY <1>1, <2>1
    <3>2. PICK i \in T : \A j \in T : i <= j
      BY <2>2, <3>1, LeastNatural
    <3>3. i \in 0..n /\ after[i] # OneCodeSoFar(list, to, c, i)
      BY <2>1, <3>2
    <3>4. i # 0
      BY <1>1, <1>4, <1>6, <3>3
    <3>5. i \in 1..n /\ i - 1 \in 0..n /\ ~(i <= i - 1)
      BY <1>1, <3>3, <3>4
    <3>6. after[i - 1] = OneCodeSoFar(list, to, c, i - 1)
      BY <2>1, <3>2, <3>5
    <3>7. after[i] = WriteResponse(list, to, after[i - 1], i)
      BY <1>6, <3>3, <3>4
    <3> QED BY <1>3, <3>3, <3>5, <3>6, <3>7
  <2> QED BY <2>1, <2>2
<1>9. after[n] = OneCodeSoFar(list, to, c, n) /\ n # 0
  BY <1>1, <1>8
<1>10. Flush(list, to) = after[n].out
  BY <1>1, <1>7 DEF Flush
<1> QED BY <1>1, <1>9, <1>10 DEF OneCodeSoFar

LEMMA FlushNothing == ASSUME NEW to PROVE Flush(<<>>, to) = <<>>
<1> DEFINE after[i \in 0..Len(<<>>)] ==
        IF i = 0 THEN NothingWritten ELSE WriteResponse(<<>>, to, after[i - 1], i)
<1>1. PICK S : S = [i \in 0..0 |-> NothingWritten]
  OBVIOUS
<1>2. S = [i \in 0..Len(<<>>) |->
              IF i = 0 THEN NothingWritten ELSE WriteResponse(<<>>, to, S[i - 1], i)]
  BY <1>1
<1>3. after = [i \in 0..Len(<<>>) |->
                  IF i = 0 THEN NothingWritten ELSE WriteResponse(<<>>, to, after[i - 1], i)]
  BY <1>2
<1>4. Written(<<>>, to) = after
  BY DEF Written
<1> HIDE DEF after
<1>5. after[0] = NothingWritten /\ Len(<<>>) = 0
  BY <1>3
<1> QED BY <1>4, <1>5 DEF Flush, NothingWritten
-----------------------------------------------------------------------------
(* The lines sent. *)

LEMMA SentLine ==
    ASSUME NEW ls, IsList(ls), NEW e, NEW id
    PROVE  /\ FinalLines(Append(ls, e), id)
                = FinalLines(ls, id) \cup
                     (IF e.to = id /\ e.ends /\ e.as >= 200 THEN {Len(ls) + 1} ELSE {})
           /\ \A i \in FinalLines(ls, id) : Append(ls, e)[i] = ls[i]
           /\ Len(ls) + 1 \in DOMAIN Append(ls, e) /\ Append(ls, e)[Len(ls) + 1] = e
           /\ DOMAIN ls \subseteq DOMAIN Append(ls, e)
<1>1. PICK n, r : n = Len(ls) /\ r = Append(ls, e)
  OBVIOUS
<1>2. /\ n \in Nat /\ DOMAIN ls = 1..n /\ DOMAIN r = 1..(n + 1) /\ r[n + 1] = e
      /\ \A i \in 1..n : r[i] = ls[i]
  BY <1>1, ListFacts, AppendList
<1>3. DOMAIN r = (DOMAIN ls) \cup {n + 1}
  BY <1>2
<1>4. FinalLines(r, id) = FinalLines(ls, id) \cup
                     (IF e.to = id /\ e.ends /\ e.as >= 200 THEN {n + 1} ELSE {})
  BY <1>2, <1>3 DEF FinalLines
<1>5. \A i \in FinalLines(ls, id) : r[i] = ls[i]
  BY <1>2 DEF FinalLines
<1> QED BY <1>1, <1>2, <1>3, <1>4, <1>5

(* The lines r are ls and then lines of code c, made of list; and if these *)
(* make one reply.                                                         *)
NewLines(r, ls, list, id, c) ==
    /\ IsList(r)
    /\ \A k : k # id => FinalLines(r, k) = FinalLines(ls, k)
    /\ \A i \in DOMAIN ls : i \in DOMAIN r /\ r[i] = ls[i]
    /\ \A i \in DOMAIN r : i \notin DOMAIN ls =>
          /\ r[i].to = id /\ r[i].as = c /\ r[i].num \in {R_DUP, c}
          /\ \E j \in DOMAIN list : r[i].by = list[j].by
AddsReply(r, ls, list, id, c) ==
    /\ NewLines(r, ls, list, id, c)
    /\ \E i \in DOMAIN r : FinalLines(r, id) = FinalLines(ls, id) \cup {i} /\ r[i].as = c

(* A list of responses of one code is sent as one reply.                   *)
LEMMA SentReply ==
    ASSUME NEW ls, IsList(ls), NEW list, IsList(list), list # <<>>, NEW c \in Nat,
           c >= 200, OneCode(list, c), list[1].num = c, NEW to
    PROVE  AddsReply(ls \o Flush(list, to), ls, list, to, c)
<1>1. PICK n, k, m : n = Len(ls) /\ k = Len(list) /\ m = Len(ls) + Len(list)
  OBVIOUS
<1>2. n \in Nat /\ k \in Nat /\ k > 0 /\ DOMAIN ls = 1..n /\ DOMAIN list = 1..k /\ m = n + k
  BY <1>1, ListFacts
<1>3. PICK out : out = [j \in 1..k |-> Line(c, j = k, to, list[j])]
  OBVIOUS
<1>4. Flush(list, to) = out
  BY <1>1, <1>3, FlushOneCode DEF OneCode
<1>5. PICK S : S = Range(ls) \cup {Line(c, j = k, to, list[j]) : j \in 1..k}
  OBVIOUS
<1>6. ls \in Seq(S) /\ out \in Seq(S) /\ Len(out) = k
  <2>1. out \in [1..k -> S]
    BY <1>3, <1>5
  <2>2. \A i \in 1..n : ls[i] \in S
    BY <1>2, <1>5 DEF Range
  <2>3. ls \in Seq(S)
    BY <1>1, <1>2, <2>2 DEF IsList
  <2> QED BY <1>2, <2>1, <2>3
<1>7. PICK r : r = ls \o Flush(list, to)
  OBVIOUS
<1>8. r = ls \o out
  BY <1>4, <1>7
<1>9. /\ r \in Seq(S) /\ Len(r) = m /\ DOMAIN r = 1..m
      /\ \A i \in 1..n : r[i] = ls[i]
      /\ \A i \in (n + 1)..m : r[i] = out[i - n]
  <2>1. /\ ls \o out \in Seq(S) /\ Len(ls \o out) = n + k
        /\ \A i \in 1..(n + k) : (ls \o out)[i] = IF i <= n THEN ls[i] ELSE out[i - n]
    <3>1. /\ ls \o out \in Seq(S) /\ Len(ls \o out) = Len(ls) + Len(out)
          /\ \A i \in 1..Len(ls) + Len(out) :
                (ls \o out)[i] = IF i <= Len(ls) THEN ls[i] ELSE out[i - Len(ls)]
      BY <1>6, ConcatProperties
    <3> QED BY <1>1, <1>6, <3>1
  <2>2. r \in Seq(S) /\ Len(r) = m /\ DOMAIN r = 1..m
    BY <1>2, <1>8, <2>1
  <2>3. \A i \in 1..n : i \in 1..(n + k) /\ i <= n
    BY <1>2
  <2>4. \A i \in (n + 1)..m : i \in 1..(n + k) /\ ~(i <= n)
    BY <1>2
  <2> QED BY <1>8, <2>1, <2>2, <2>3, <2>4
<1>10. IsList(r)
  BY <1>9, ListOf
<1>11. \A i \in (n + 1)..m :
          /\ r[i] = Line(c, i - n = k, to, list[i - n]) /\ i - n \in 1..k
          /\ (i - n = k) = (i = m)
  BY <1>2, <1>3, <1>9
<1>12. \A i \in (n + 1)..m :
          /\ r[i].to = to /\ r[i].as = c /\ r[i].ends = (i = m)
          /\ r[i].num = list[i - n].num /\ r[i].by = list[i - n].by
  <2> SUFFICES ASSUME NEW i \in (n + 1)..m
               PROVE  /\ r[i].to = to /\ r[i].as = c /\ r[i].ends = (i = m)
                      /\ r[i].num = list[i - n].num /\ r[i].by = list[i - n].by
    OBVIOUS
  <2>1. PICK e : e = (i - n = k)
    OBVIOUS
  <2>2. r[i] = Line(c, e, to, list[i - n]) /\ e = (i = m)
    BY <1>11, <2>1
  <2> QED BY <2>2 DEF Line
<1>13. (DOMAIN r) = (DOMAIN ls) \cup ((n + 1)..m) /\ m \in (n + 1)..m /\ m \in 1..m
  BY <1>2, <1>9
<1>14. \A i \in DOMAIN r : i \notin DOMAIN ls => i \in (n + 1)..m
  BY <1>13
<1>15. FinalLines(r, to) = FinalLines(ls, to) \cup {m}
  BY <1>2, <1>9, <1>12, <1>13 DEF FinalLines
<1>16. ASSUME NEW id, id # to PROVE FinalLines(r, id) = FinalLines(ls, id)
  BY <1>2, <1>9, <1>12, <1>13, <1>16 DEF FinalLines
<1>17. \A i \in (n + 1)..m : r[i].num \in {R_DUP, c} /\ \E j \in DOMAIN list : r[i].by = list[j].by
  BY <1>2, <1>11, <1>12 DEF OneCode
<1>18. r[m].as = c
  BY <1>12, <1>13
<1>19. \A i \in DOMAIN ls : i \in DOMAIN r /\ r[i] = ls[i]
  BY <1>2, <1>9, <1>13
<1>20. \A i \in DOMAIN r : i \notin DOMAIN ls =>
          /\ r[i].to = to /\ r[i].as = c /\ r[i].num \in {R_DUP, c}
          /\ \E j \in DOMAIN list : r[i].by = list[j].by
  BY <1>12, <1>14, <1>17
<1>21. m \in DOMAIN r
  BY <1>9, <1>13
<1>22. AddsReply(r, ls, list, to, c)
  BY <1>10, <1>15, <1>16, <1>18, <1>19, <1>20, <1>21 DEF AddsReply, NewLines
<1> QED BY <1>7, <1>22

LEMMA SentNothing ==
    ASSUME NEW ls, IsList(ls), NEW to PROVE ls \o Flush(<<>>, to) = ls
  BY FlushNothing DEF IsList
-----------------------------------------------------------------------------
(* A response whose code is that of the ones in the list. *)
LEMMA InsertOneCode ==
    ASSUME NEW list, Responses(list), NEW c \in Nat, c # R_DUP, OneCode(list, c),
           NEW r, DOMAIN r = {"num", "by", "pool"}, r.num \in {R_DUP, c}
    PROVE  /\ Insert(list, r) # <<>> /\ OneCode(Insert(list, r), c)
           /\ StartsWith(Insert(list, r), c) <=> (r.num = c \/ StartsWith(list, c))
<1> DEFINE filled == [i \in DOMAIN list |->
                         IF r.num # R_DUP /\ list[i].num = R_DUP
                         THEN [list[i] EXCEPT !.num = r.num] ELSE list[i]]
           I == {i \in 1..Len(filled) : filled[i].num > r.num}
           higher == SelectInSeq(filled, LAMBDA q : q.num > r.num)
<1>1. Len(list) \in Nat /\ DOMAIN list = 1..Len(list)
  BY ListFacts DEF Responses
<1>2. \A i \in DOMAIN list :
        /\ r.num = c => filled[i].num = c
        /\ r.num = R_DUP => filled[i] = list[i]
  BY DEF OneCode, Responses
<1>3. IsList(filled) /\ DOMAIN filled = DOMAIN list /\ Len(filled) = Len(list)
  <2>1. PICK S : S = {filled[i] : i \in DOMAIN list}
    OBVIOUS
  <2>2. filled \in [1..Len(list) -> S]
    BY <1>1, <2>1
  <2>3. filled \in Seq(S) /\ Len(filled) = Len(list)
    BY <1>1, <2>2
  <2>4. IsList(filled)
    BY <2>3, ListOf
  <2> QED BY <2>3, <2>4
<1>4. Insert(list, r) = IF r.num = R_DUP \/ higher = 0 THEN Append(filled, r)
                        ELSE InsertAt(filled, higher, r)
  BY DEF Insert
<1> HIDE DEF filled
<1>5. r.num = R_DUP \/ higher = 0
  <2>1. higher = IF I # {} THEN Min(I) ELSE 0
    BY DEF SelectInSeq
  <2>2. ASSUME r.num = c PROVE I = {}
    <3>1. \A i \in 1..Len(filled) : filled[i].num = c
      BY <1>1, <1>2, <1>3, <2>2
    <3>2. ~(c > c)
      OBVIOUS
    <3> QED BY <3>1, <3>2, <2>2
  <2> QED BY <2>1, <2>2
<1> HIDE DEF higher
<1>6. PICK n, res : n = Len(list) /\ res = Insert(list, r)
  OBVIOUS
<1>7. res = Append(filled, r)
  BY <1>4, <1>5, <1>6
<1>8. /\ IsList(res) /\ DOMAIN res = 1..(n + 1) /\ Len(res) = n + 1 /\ res[n + 1] = r
      /\ \A i \in 1..n : res[i] = filled[i]
  BY <1>1, <1>3, <1>6, <1>7, AppendList
<1>9. n \in Nat /\ res # <<>> /\ 1 \in DOMAIN res /\ DOMAIN res = (1..n) \cup {n + 1}
  BY <1>1, <1>6, <1>8
<1>10. list # <<>> <=> n > 0
  BY <1>1, <1>6, ListFacts DEF Responses
<1>11. CASE r.num = c
  <2>1. \A i \in DOMAIN res : res[i].num = c
    BY <1>1, <1>2, <1>6, <1>8, <1>9, <1>11
  <2> QED BY <1>6, <1>9, <1>11, <2>1 DEF OneCode, StartsWith
<1>12. CASE r.num = R_DUP
  <2>1. \A i \in 1..n : res[i] = list[i]
    BY <1>1, <1>2, <1>6, <1>8, <1>12
  <2>2. \A i \in 1..n : list[i].num \in {R_DUP, c} /\ (list[i].num = c => list[1].num = c)
    BY <1>1, <1>6 DEF OneCode
  <2>3. CASE n = 0
    <3>1. \A i \in DOMAIN res : res[i].num = R_DUP
      BY <1>8, <1>9, <1>12, <2>3
    <3> QED BY <1>6, <1>9, <1>10, <1>12, <2>3, <3>1 DEF OneCode, StartsWith
  <2>4. CASE n # 0
    <3>1. 1 \in 1..n /\ res[1] = list[1] /\ list # <<>>
      BY <1>9, <1>10, <2>1, <2>4
    <3>2. OneCode(res, c)
      BY <1>8, <1>9, <1>12, <2>1, <2>2, <3>1 DEF OneCode
    <3> QED BY <1>6, <1>9, <1>12, <3>1, <3>2 DEF StartsWith
  <2> QED BY <1>9, <2>3, <2>4
<1> QED BY <1>11, <1>12
-----------------------------------------------------------------------------
(* What a handler has still to say. *)

(* The calls after the first one.                                          *)
LEMMA RestOfCalls ==
    ASSUME NEW calls, IsList(calls), calls # <<>>
    PROVE  /\ Range(calls) = Range(Tail(calls)) \cup {Head(calls)} /\ IsList(Tail(calls))
           /\ Orderly(calls) => Orderly(Tail(calls))
           /\ Orderly(calls) /\ Speaks(Head(calls)) =>
                 \A c \in Range(Tail(calls)) : ~Interrupts(c)
           /\ Orderly(calls) /\ Head(calls).op \in {"add", "err", "send"} => Head(calls).arg \in Nat
<1>1. PICK n, r : n = Len(calls) /\ r = Tail(calls)
  OBVIOUS
<1>2. n \in Nat /\ n > 0 /\ DOMAIN calls = 1..n /\ Head(calls) = calls[1]
  BY <1>1, ListFacts
<1>3. DOMAIN r = 1..(n - 1) /\ (\A k \in 1..(n - 1) : r[k] = calls[k + 1]) /\ IsList(r)
  BY <1>1, TailList
<1>4. \A k \in 1..(n - 1) : k + 1 \in 1..n /\ 1 < k + 1
  BY <1>2
<1>5. \A k \in 1..n : k = 1 \/ (k - 1 \in 1..(n - 1) /\ k - 1 + 1 = k)
  BY <1>2
<1>6. Range(calls) = Range(r) \cup {calls[1]}
  <2>1. \A c \in Range(r) : c \in Range(calls)
    BY <1>2, <1>3, <1>4 DEF Range
  <2>2. calls[1] \in Range(calls)
    BY <1>2 DEF Range
  <2>3. ASSUME NEW k \in 1..n PROVE calls[k] \in Range(r) \cup {calls[1]}
    <3>1. CASE k = 1
      BY <3>1
    <3>2. CASE k # 1
      <4>1. k - 1 \in 1..(n - 1) /\ r[k - 1] = calls[k]
        BY <1>3, <1>5, <3>2
      <4> QED BY <1>3, <4>1 DEF Range
    <3> QED BY <3>1, <3>2
  <2> QED BY <1>2, <2>1, <2>2, <2>3 DEF Range
<1>7. Orderly(calls) => Orderly(r)
  <2> SUFFICES ASSUME Orderly(calls) PROVE Orderly(r)
    OBVIOUS
  <2>1. \A k \in DOMAIN r : r[k].op \in {"add", "err", "send"} => r[k].arg \in Nat
    BY <1>2, <1>3, <1>4 DEF Orderly
  <2>2. ASSUME NEW j \in DOMAIN r, NEW k \in DOMAIN r, j < k, Speaks(r[j]) PROVE ~Interrupts(r[k])
    <3>1. j + 1 \in DOMAIN calls /\ k + 1 \in DOMAIN calls /\ j + 1 < k + 1
      BY <1>2, <1>3, <1>4, <2>2
    <3> QED BY <1>3, <2>2, <3>1 DEF Orderly
  <2> QED BY <2>1, <2>2 DEF Orderly
<1>8. ASSUME Orderly(calls), Speaks(calls[1]), NEW c \in Range(r) PROVE ~Interrupts(c)
  <2>1. PICK k \in 1..(n - 1) : c = r[k]
    BY <1>3 DEF Range
  <2>2. k + 1 \in DOMAIN calls /\ 1 \in DOMAIN calls /\ 1 < k + 1 /\ c = calls[k + 1]
    BY <1>2, <1>3, <1>4, <2>1
  <2> QED BY <1>8, <2>2 DEF Orderly
<1>9. Orderly(calls) /\ calls[1].op \in {"add", "err", "send"} => calls[1].arg \in Nat
  BY <1>2 DEF Orderly
<1> QED BY <1>1, <1>2, <1>3, <1>6, <1>7, <1>8, <1>9

LEMMA RestMaySay ==
    ASSUME NEW calls, IsList(calls), calls # <<>>, NEW cmd, NEW phase, NEW r, NEW num,
           MaySay(cmd, phase, r, calls, num)
    PROVE  MaySay(cmd, phase, r, Tail(calls), num)
<1>1. PICK S, R : S = Range(calls) /\ R = Range(Tail(calls))
  OBVIOUS
<1>2. R \subseteq S /\ (Orderly(calls) => Orderly(Tail(calls)))
  BY <1>1, RestOfCalls
<1>3. Quiet(cmd, phase, S) => Quiet(cmd, phase, R)
  BY <1>2 DEF Quiet
<1> QED BY <1>1, <1>2, <1>3 DEF MaySay

(* Nothing is left to say. *)
LEMMA NoCalls == Range(<<>>) = {} /\ Orderly(<<>>)
<1>1. DOMAIN <<>> = {}
  OBVIOUS
<1> QED BY <1>1 DEF Range, Orderly

LEMMA IdleMaySay ==
    ASSUME NEW cmd, NEW phase PROVE MaySay(cmd, phase, "NONE", <<>>, R_DUP)
  BY NoCalls DEF MaySay, Decides, Quiet

LEMMA NoFinalLines == ASSUME NEW id PROVE FinalLines(<<>>, id) = {}
<1>1. DOMAIN <<>> = {}
  OBVIOUS
<1> QED BY <1>1 DEF FinalLines

(* The codes of responses around those of the CMD handler. *)
LEMMA HeadsAre ==
    ASSUME NEW cmd
    PROVE  /\ \A h, k \in Heads(cmd) : h = k
           /\ Heads(cmd) \subseteq Codes("add")
           /\ cmd \in InnerCommands \cup {ANY} => Heads(cmd) = {}
<1>1. CASE \E i \in DOMAIN Table : Table[i].cmd = cmd
  BY <1>1, AnswerAssumption
<1>2. CASE ~\E i \in DOMAIN Table : Table[i].cmd = cmd
  <2>1. PICK rows : rows = {i \in DOMAIN Table : Table[i].cmd = cmd /\ Table[i].phase # "CMD"}
    OBVIOUS
  <2>2. rows = {}
    BY <1>2, <2>1
  <2>3. PICK calls : calls = UNION {Range(b.calls) : b \in UNION {Table[i].does : i \in rows}}
    OBVIOUS
  <2>4. calls = {}
    BY <2>2, <2>3
  <2>5. Heads(cmd) = {c.arg : c \in {d \in calls : d.op = "add"}}
    BY <2>1, <2>3 DEF Heads
  <2>6. Heads(cmd) = {}
    BY <2>4, <2>5
  <2> QED BY <2>6
<1> QED BY <1>1, <1>2

LEMMA CodesAre ==
    /\ \A o : \A c \in Codes(o) : c \in Nat /\ c # R_DUP /\ c >= 200
    /\ 500 \in Codes("err") /\ 530 \in Codes("err")
    /\ \A c \in Codes("add") : c < 400
    /\ \A c \in Codes("err") : ~(c < 400)
  BY DEF Codes, R_DUP

(* A call that is not part of the answer has been made. *)
LEMMA AnsweringRest ==
    ASSUME NEW cmd, NEW list, NEW R, NEW S, NEW h, S = R \cup {h}, NEW o, NEW num, NEW ls, NEW id,
           NEW last, NEW c, h.op # o, ~Concludes(h),
           Answering(cmd, list, S, o, num, ls, id, last, c)
    PROVE  Answering(cmd, list, R, o, num, ls, id, last, c)
<1>1. \A q \in R : q.op = o => q.arg \in {R_DUP, c}
  BY DEF Answering
<1>2. Gathers(list, S, o, c) => Gathers(list, R, o, c)
  BY DEF Gathers
<1>3. GathersNone(list, S, o) => GathersNone(list, R, o)
  BY DEF GathersNone
<1>4. ConcludesNot(S) => ConcludesNot(R)
  BY DEF ConcludesNot
<1>5. ASSUME \E q \in S : Concludes(q) /\ (q.op = "send" => q.arg = c)
      PROVE  \E q \in R : Concludes(q) /\ (q.op = "send" => q.arg = c)
  BY <1>5
<1>6. OneAnswer(list, R, o, num, ls, id, c)
  BY <1>2, <1>3, <1>4, <1>5 DEF Answering, OneAnswer
<1> QED BY <1>1, <1>6 DEF Answering

LEMMA HeadedRest ==
    ASSUME NEW cmd, NEW list, NEW R, NEW S, NEW h, S = R \cup {h}, NEW c, h.op # "add",
           Headed(cmd, list, S, c)
    PROVE  Headed(cmd, list, R, c)
  BY DEF Headed, Gathers

(* One that is.                                                            *)
LEMMA AnsweringAdded ==
    ASSUME NEW cmd, NEW list, Responses(list), NEW R, NEW S, NEW h, S = R \cup {h},
           NEW o, h.op = o, o \in {"add", "err"}, NEW num, NEW ls, NEW id, NEW last, 
           NEW c \in Nat, c # R_DUP,
           NEW r, DOMAIN r = {"num", "by", "pool"}, r.num = h.arg,
           Answering(cmd, list, S, o, num, ls, id, last, c)
    PROVE  /\ Answering(cmd, Insert(list, r), R, o, num, ls, id,
                        IF h.arg = R_DUP THEN last ELSE h.arg, c)
           /\ Gathers(list, S, o, c) => Gathers(Insert(list, r), R, o, c)
<1>1. h \in S /\ h.arg \in {R_DUP, c} /\ OneCode(list, c) /\ (\A q \in R : q.op = o => q.arg \in {R_DUP, c})
  BY DEF Answering
<1>2. PICK new, l : new = Insert(list, r) /\ l = IF h.arg = R_DUP THEN last ELSE h.arg
  OBVIOUS
<1>3. OneCode(new, c) /\ (StartsWith(new, c) <=> h.arg = c \/ StartsWith(list, c))
  BY <1>1, <1>2, InsertOneCode
<1>4. ~GathersNone(list, S, o)
  BY <1>1 DEF GathersNone
<1>5. /\ Gathers(list, S, o, c) /\ num = R_DUP
      /\ ConcludesNot(S) /\ FinalLines(ls, id) = {}
  BY <1>4 DEF Answering, OneAnswer
<1>6. Gathers(new, R, o, c)
  BY <1>3, <1>5 DEF Gathers
<1>7. OneAnswer(new, R, o, num, ls, id, c)
  <2>1. ConcludesNot(R)
    BY <1>5 DEF ConcludesNot
  <2> QED BY <1>5, <1>6, <2>1 DEF OneAnswer
<1>8. Told(cmd, new, ls, id, l, c)
  <2>1. Told(cmd, list, ls, id, last, c)
    BY DEF Answering
  <2> QED BY <1>1, <1>2, <1>3, <1>5, <2>1 DEF Told
<1>9. Answering(cmd, new, R, o, num, ls, id, l, c)
  BY <1>1, <1>3, <1>7, <1>8 DEF Answering
<1> QED BY <1>2, <1>6, <1>9
-----------------------------------------------------------------------------
(* What a command owes its client, step by step. *)

SameState(f, g) ==
    /\ g.cmd = f.cmd /\ g.client = f.client /\ g.phase = f.phase
    /\ g.failed = f.failed /\ g.returns = f.returns /\ g.num = f.num

LEMMA DecidedIs ==
    ASSUME NEW f, GoodFrame(f)
    PROVE  /\ Decided(f) \in {"no", "add", "err"}
           /\ Decided(f) = "no" =>
                 /\ Decides(f.phase, f.returns) = "no" /\ f.failed = "NO"
                 /\ f.phase \in {"PRE_CMD", "CMD"}
           /\ Decides(f.phase, f.returns) # "no" =>
                 /\ Decided(f) = Decides(f.phase, f.returns) /\ f.failed = "NO"
                 /\ f.phase \in {"PRE_CMD", "CMD"}
           /\ Decides(f.phase, f.returns) = "no" /\ Decided(f) = "err" =>
                 f.phase \notin {"PRE_CMD", "CMD", "POST_CMD"}
  BY DEF GoodFrame, Framed, PhaseOfOutcome, Decided, Decides

(* Nothing has been said: the answer does not depend on the lines and the  *)
(* last code.                                                              *)
LEMMA AnsweringFresh ==
    ASSUME NEW cmd, NEW calls, NEW o, NEW num, NEW ls, NEW id, NEW last, NEW c,
           Answering(cmd, <<>>, calls, o, num, ls, id, last, c), FinalLines(ls, id) = {},
           NEW ms, NEW jd, NEW now, FinalLines(ms, jd) = {}
    PROVE  Answering(cmd, <<>>, calls, o, num, ms, jd, now, c)
<1>1. OneAnswer(<<>>, calls, o, num, ms, jd, c)
  BY DEF Answering, OneAnswer
<1>2. Told(cmd, <<>>, ms, jd, now, c)
  BY DEF Told, StartsWith
<1> QED BY <1>1, <1>2 DEF Answering

(* The commands that may stay without an answer are not dispatched within  *)
(* another, and nothing is put around their responses.                     *)
LEMMA UnansweredAre ==
    /\ ANY \notin Unanswered
    /\ \A c \in Unanswered : c \notin InnerCommands /\ Heads(c) = {}
  BY AnswerAssumption

(* The command is decided, and will not stay without an answer.            *)
Settled(f, err, ls, last) ==
    /\ Decided(f) # "no"
    /\ Decided(f) = "err" => \E c \in Codes("err") :
          Answering(f.cmd, err, Range(f.todo), "err", f.num, ls, f.client, last, c)

LEMMA InterruptsSettled ==
    ASSUME NEW f, GoodFrame(f), NEW ok, NEW err, NEW ls, NEW last, Owes(f, ok, err, ls, last),
           NEW h \in Range(f.todo), Interrupts(h)
    PROVE  Settled(f, err, ls, last)
<1>1. Decides(f.phase, f.returns) # "no"
  BY DEF Owes, MaySay, Quiet
<1>2. Decided(f) # "no"
  BY <1>1, DecidedIs
<1>3. ~Silent(f.cmd, err, Range(f.todo), f.num, ls, f.client, last)
  BY DEF Silent
<1> QED BY <1>2, <1>3 DEF Settled, Owes

LEMMA OwesFresh ==
    ASSUME NEW f, NEW ls, NEW last, Owes(f, <<>>, <<>>, ls, last), FinalLines(ls, f.client) = {},
           Settled(f, <<>>, ls, last), NEW ms, NEW now, FinalLines(ms, f.client) = {}
    PROVE  Owes(f, <<>>, <<>>, ms, now) /\ Settled(f, <<>>, ms, now)
<1>1. ASSUME NEW o, NEW c, Answering(f.cmd, <<>>, Range(f.todo), o, f.num, ls, f.client, last, c)
      PROVE  Answering(f.cmd, <<>>, Range(f.todo), o, f.num, ms, f.client, now, c)
  BY <1>1, AnsweringFresh
<1>2. Settled(f, <<>>, ms, now)
  BY <1>1 DEF Settled
<1>3. Decided(f) = "add" => \E c \in Codes("add") :
          /\ Answering(f.cmd, <<>>, Range(f.todo), "add", f.num, ms, f.client, now, c)
          /\ Headed(f.cmd, <<>>, Range(f.todo), c)
  BY <1>1 DEF Owes
<1> QED BY <1>2, <1>3 DEF Owes, Settled

(* The handler makes a call that is no part of the answer. *)
LEMMA OwesRest ==
    ASSUME NEW f, GoodFrame(f), f.todo # <<>>, NEW g, SameState(f, g), g.todo = Tail(f.todo),
           NEW ok, NEW err, NEW ls, NEW last, Owes(f, ok, err, ls, last),
           Head(f.todo).op \notin {"add", "err"}, ~Concludes(Head(f.todo))
    PROVE  /\ Owes(g, ok, err, ls, last)
           /\ Settled(f, err, ls, last) => Settled(g, err, ls, last)
<1>1. PICK S, R, h : S = Range(f.todo) /\ R = Range(g.todo) /\ h = Head(f.todo)
  OBVIOUS
<1>2. S = R \cup {h}
  BY <1>1, RestOfCalls DEF GoodFrame, Framed
<1>3. MaySay(g.cmd, g.phase, g.returns, g.todo, g.num)
  BY RestMaySay DEF GoodFrame, Framed, Owes, SameState
<1>4. Decided(g) = Decided(f)
  BY DEF Decided, SameState
<1>5. ASSUME NEW list, NEW o \in {"add", "err"}, NEW c,
             Answering(f.cmd, list, S, o, f.num, ls, f.client, last, c)
      PROVE  Answering(g.cmd, list, R, o, g.num, ls, g.client, last, c)
  <2>1. h.op # o /\ ~Concludes(h)
    BY <1>1
  <2>2. Answering(f.cmd, list, R, o, f.num, ls, f.client, last, c)
    BY <1>2, <1>5, <2>1, AnsweringRest
  <2> QED BY <2>2 DEF SameState
<1>6. ASSUME NEW c, Headed(f.cmd, ok, S, c) PROVE Headed(g.cmd, ok, R, c)
  <2>1. h.op # "add"
    BY <1>1
  <2> QED BY <1>2, <1>6, <2>1, HeadedRest DEF SameState
<1>7. ok # <<>> \/ err # <<>> \/ FinalLines(ls, g.client) # {} => \A c \in R : ~Interrupts(c)
  BY <1>1, <1>2 DEF Owes, SameState
<1>8. Decided(g) = "no" => Undecided(g.cmd, ok, ls, g.client, last)
  BY <1>4 DEF Owes, SameState
<1>9. Decided(g) = "add" => \E c \in Codes("add") :
         Answering(g.cmd, ok, R, "add", g.num, ls, g.client, last, c) /\ Headed(g.cmd, ok, R, c)
  BY <1>1, <1>4, <1>5, <1>6 DEF Owes
<1>10. Decided(g) = "err" =>
         \/ \E c \in Codes("err") : Answering(g.cmd, err, R, "err", g.num, ls, g.client, last, c)
         \/ Silent(g.cmd, err, R, g.num, ls, g.client, last)
  <2>1. Silent(f.cmd, err, S, f.num, ls, f.client, last) =>
           Silent(g.cmd, err, R, g.num, ls, g.client, last)
    BY <1>2 DEF Silent, SameState
  <2> QED BY <1>1, <1>4, <1>5, <2>1 DEF Owes
<1>11. /\ Decided(g) # "err" => err = <<>>
       /\ Decided(g) = "err" /\ g.cmd \in InnerCommands => ok = <<>>
  BY <1>4 DEF Owes, SameState
<1>12. Settled(f, err, ls, last) => Settled(g, err, ls, last)
  BY <1>1, <1>4, <1>5 DEF Settled
<1> QED BY <1>1, <1>3, <1>7, <1>8, <1>9, <1>10, <1>11, <1>12 DEF Owes

(* It adds to the list of the responses. *)
LEMMA OwesAdded ==
    ASSUME NEW f, GoodFrame(f), f.todo # <<>>, NEW g, SameState(f, g), g.todo = Tail(f.todo),
           NEW ok, Responses(ok), NEW err, NEW ls, NEW last, Owes(f, ok, err, ls, last),
           Head(f.todo).op = "add",
           NEW r, DOMAIN r = {"num", "by", "pool"}, r.num = Head(f.todo).arg
    PROVE  Owes(g, Insert(ok, r), err, ls, IF r.num = R_DUP THEN last ELSE r.num)
<1>1. PICK S, R, h : S = Range(f.todo) /\ R = Range(g.todo) /\ h = Head(f.todo)
  OBVIOUS
<1>2. S = R \cup {h} /\ h \in S /\ h.op = "add" /\ ~Concludes(h)
  BY <1>1, RestOfCalls DEF GoodFrame, Framed, Concludes, Dispatches
<1>3. MaySay(g.cmd, g.phase, g.returns, g.todo, g.num)
  BY RestMaySay DEF GoodFrame, Framed, Owes, SameState
<1>4. Decided(g) = Decided(f)
  BY DEF Decided, SameState
<1>5. PICK new, now : new = Insert(ok, r) /\ now = IF r.num = R_DUP THEN last ELSE r.num
  OBVIOUS
<1>6. \A c \in R : ~Interrupts(c)
  <2>1. Speaks(h) /\ Orderly(f.todo) /\ IsList(f.todo)
    BY <1>2 DEF Speaks, Owes, MaySay, GoodFrame, Framed
  <2> QED BY <1>1, <2>1, RestOfCalls
<1>7. CASE Decided(f) = "no"
  <2>1. Quiet(f.cmd, f.phase, S) /\ Undecided(f.cmd, ok, ls, f.client, last) /\ err = <<>>
    BY <1>1, <1>7, DecidedIs DEF Owes, MaySay
  <2>2. h.arg \in Heads(f.cmd)
    BY <1>2, <2>1 DEF Quiet
  <2>3. h.arg \in Nat /\ h.arg # R_DUP /\ \A k \in Heads(f.cmd) : k = h.arg
    BY <2>2, HeadsAre, CodesAre
  <2>4. OneCode(ok, h.arg) /\ Told(f.cmd, ok, ls, f.client, last, h.arg) /\ FinalLines(ls, f.client) = {}
    BY <2>1, <2>2 DEF Undecided
  <2>5. OneCode(new, h.arg) /\ r.num = h.arg /\ now = h.arg
    BY <1>1, <1>5, <2>3, <2>4, InsertOneCode
  <2>6. Told(f.cmd, new, ls, f.client, now, h.arg)
    BY <2>4, <2>5 DEF Told
  <2>7. Undecided(f.cmd, new, ls, f.client, now)
    BY <2>2, <2>3, <2>4, <2>5, <2>6, UnansweredAre DEF Undecided, Unspoken
  <2>8. Undecided(g.cmd, new, ls, g.client, now)
    BY <2>7 DEF SameState
  <2> QED BY <1>1, <1>3, <1>4, <1>5, <1>6, <1>7, <2>1, <2>8 DEF Owes
<1>8. CASE Decided(f) = "add"
  <2>1. err = <<>>
    BY <1>8 DEF Owes
  <2>2. PICK c \in Codes("add") :
           /\ Answering(f.cmd, ok, S, "add", f.num, ls, f.client, last, c)
           /\ Headed(f.cmd, ok, S, c)
    BY <1>1, <1>8 DEF Owes
  <2>3. c \in Nat /\ c # R_DUP
    BY CodesAre
  <2>4. /\ Answering(f.cmd, new, R, "add", f.num, ls, f.client, now, c)
        /\ Gathers(ok, S, "add", c) => Gathers(new, R, "add", c)
    BY <1>1, <1>2, <1>5, <2>2, <2>3, AnsweringAdded
  <2>5. Headed(f.cmd, new, R, c)
    BY <2>2, <2>4 DEF Headed
  <2>6. Answering(g.cmd, new, R, "add", g.num, ls, g.client, now, c) /\ Headed(g.cmd, new, R, c)
    BY <2>4, <2>5 DEF SameState
  <2> QED BY <1>1, <1>3, <1>4, <1>5, <1>6, <1>8, <2>1, <2>6 DEF Owes
<1>9. CASE Decided(f) = "err"
  <2>1. f.cmd \in Misreported /\ f.cmd \notin InnerCommands
    <3>1. CASE Decides(f.phase, f.returns) = "no"
      <4>1. Quiet(f.cmd, f.phase, S)
        BY <1>1, <3>1 DEF Owes, MaySay
      <4>2. f.phase \in {"PRE_CMD", "CMD", "POST_CMD"}
        BY <1>2, <4>1 DEF Quiet
      <4> QED BY <1>9, <3>1, <4>2, DecidedIs
    <3>2. CASE Decides(f.phase, f.returns) # "no"
      <4>1. Decides(f.phase, f.returns) = "err"
        BY <1>9, <3>2, DecidedIs
      <4> QED BY <1>1, <1>2, <4>1 DEF Owes, MaySay
    <3> QED BY <3>1, <3>2
  <2>2. PICK c \in Codes("err") : Answering(f.cmd, err, S, "err", f.num, ls, f.client, last, c)
    BY <1>1, <1>2, <1>9 DEF Owes, Silent, Speaks
  <2>3. Answering(f.cmd, err, R, "err", f.num, ls, f.client, last, c)
    <3>1. h.op # "err"
      BY <1>2
    <3> QED BY <1>2, <2>2, <3>1, AnsweringRest
  <2>4. Answering(f.cmd, err, R, "err", f.num, ls, f.client, now, c)
    BY <2>1, <2>3 DEF Answering, Told
  <2>5. Answering(g.cmd, err, R, "err", g.num, ls, g.client, now, c) /\ g.cmd \notin InnerCommands
    BY <2>1, <2>4 DEF SameState
  <2> QED BY <1>1, <1>3, <1>4, <1>5, <1>6, <1>9, <2>5 DEF Owes
<1> QED BY <1>7, <1>8, <1>9, DecidedIs

(* It adds to the list of the errors. *)
LEMMA OwesAddedErr ==
    ASSUME NEW f, GoodFrame(f), f.todo # <<>>, NEW g, SameState(f, g), g.todo = Tail(f.todo),
           NEW ok, NEW err, Responses(err), NEW ls, NEW last, Owes(f, ok, err, ls, last),
           Head(f.todo).op = "err",
           NEW r, DOMAIN r = {"num", "by", "pool"}, r.num = Head(f.todo).arg
    PROVE  Owes(g, ok, Insert(err, r), ls, IF r.num = R_DUP THEN last ELSE r.num)
<1>1. PICK S, R, h : S = Range(f.todo) /\ R = Range(g.todo) /\ h = Head(f.todo)
  OBVIOUS
<1>2. S = R \cup {h} /\ h \in S /\ h.op = "err"
  BY <1>1, RestOfCalls DEF GoodFrame, Framed
<1>3. MaySay(g.cmd, g.phase, g.returns, g.todo, g.num)
  BY RestMaySay DEF GoodFrame, Framed, Owes, SameState
<1>4. Decided(g) = Decided(f)
  BY DEF Decided, SameState
<1>5. PICK new, now : new = Insert(err, r) /\ now = IF r.num = R_DUP THEN last ELSE r.num
  OBVIOUS
<1>6. \A c \in R : ~Interrupts(c)
  <2>1. Speaks(h) /\ Orderly(f.todo) /\ IsList(f.todo)
    BY <1>2 DEF Speaks, Owes, MaySay, GoodFrame, Framed
  <2> QED BY <1>1, <2>1, RestOfCalls
<1>7. Decided(f) = "err"
  <2>1. Decides(f.phase, f.returns) # "no" /\ Decides(f.phase, f.returns) # "add"
    BY <1>1, <1>2 DEF Owes, MaySay, Quiet
  <2> QED BY <2>1, DecidedIs
<1>8. PICK c \in Codes("err") : Answering(f.cmd, err, S, "err", f.num, ls, f.client, last, c)
  BY <1>1, <1>2, <1>7 DEF Owes, Silent, Speaks
<1>9. c \in Nat /\ c # R_DUP
  BY CodesAre
<1>10. Answering(f.cmd, new, R, "err", f.num, ls, f.client, now, c)
  <2>1. r.num = h.arg /\ now = IF h.arg = R_DUP THEN last ELSE h.arg
    BY <1>1, <1>5
  <2>2. Answering(f.cmd, Insert(err, r), R, "err", f.num, ls, f.client,
                  IF h.arg = R_DUP THEN last ELSE h.arg, c)
    BY <1>2, <1>8, <1>9, <2>1, AnsweringAdded
  <2> QED BY <1>5, <2>1, <2>2
<1>11. Answering(g.cmd, new, R, "err", g.num, ls, g.client, now, c)
  BY <1>10 DEF SameState
<1>12. g.cmd \in InnerCommands => ok = <<>>
  BY <1>7 DEF Owes, SameState
<1> QED BY <1>1, <1>3, <1>4, <1>5, <1>6, <1>7, <1>11, <1>12 DEF Owes

(* It sends a line, final or not. *)
LEMMA OwesSent ==
    ASSUME NEW f, GoodFrame(f), f.todo # <<>>, NEW g, SameState(f, g), g.todo = Tail(f.todo),
           NEW ok, NEW err, NEW ls, IsList(ls), NEW last, Owes(f, ok, err, ls, last),
           Head(f.todo).op = "send",
           NEW e, e.as = Head(f.todo).arg, e.ends = TRUE, e.to = f.client
    PROVE  Owes(g, ok, err, Append(ls, e), e.as)
<1>1. PICK S, R, h : S = Range(f.todo) /\ R = Range(g.todo) /\ h = Head(f.todo)
  OBVIOUS
<1>2. S = R \cup {h} /\ h \in S /\ h.op = "send"
  BY <1>1, RestOfCalls DEF GoodFrame, Framed
<1>3. Interrupts(h)
  BY <1>2 DEF Interrupts
<1>4. PICK ms : ms = Append(ls, e)
  OBVIOUS
<1>5. /\ ok = <<>> /\ err = <<>> /\ FinalLines(ls, f.client) = {} /\ Heads(f.cmd) = {}
      /\ Decides(f.phase, f.returns) # "no" 
  BY <1>1, <1>2, <1>3 DEF Owes, MaySay, Quiet
<1>6. h.arg \in Nat
  <2>1. Orderly(f.todo) /\ IsList(f.todo)
    BY DEF Owes, MaySay, GoodFrame, Framed
  <2> QED BY <1>1, <1>2, <2>1, RestOfCalls
<1>7. CASE ~(h.arg >= 200)
  <2>1. ~Concludes(h)
    BY <1>2, <1>7 DEF Concludes, Dispatches
  <2>2. Owes(g, ok, err, ls, last) /\ Settled(g, err, ls, last)
    <3>1. Settled(f, err, ls, last)
      BY <1>1, <1>2, <1>3, InterruptsSettled
    <3> QED BY <1>1, <1>2, <2>1, <3>1, OwesRest
  <2>3. FinalLines(ms, f.client) = {}
    BY <1>1, <1>4, <1>5, <1>7, SentLine
  <2>4. FinalLines(ms, g.client) = {} /\ FinalLines(ls, g.client) = {}
    BY <1>5, <2>3 DEF SameState
  <2> QED BY <1>4, <1>5, <2>2, <2>4, OwesFresh
<1>8. CASE h.arg >= 200
  <2>1. Concludes(h) /\ Speaks(h)
    BY <1>2, <1>8 DEF Concludes, Speaks
  <2>2. \A c \in R : ~Interrupts(c)
    BY <1>1, <2>1, RestOfCalls DEF Owes, MaySay, GoodFrame, Framed
  <2>3. ConcludesNot(R)
    BY <2>2 DEF ConcludesNot, Concludes, Interrupts
  <2>4. FinalLines(ms, f.client) = {Len(ls) + 1} /\ ms[Len(ls) + 1] = e /\ Len(ls) + 1 \in DOMAIN ms
    BY <1>1, <1>4, <1>5, <1>8, SentLine
  <2>5. MaySay(g.cmd, g.phase, g.returns, g.todo, g.num)
    BY RestMaySay DEF GoodFrame, Framed, Owes, SameState
  <2>6. Decided(g) = Decided(f)
    BY DEF Decided, SameState
  <2>7. ASSUME NEW o \in {"add", "err"}, NEW c,
               Answering(f.cmd, <<>>, S, o, f.num, ls, f.client, last, c)
        PROVE  Answering(g.cmd, <<>>, R, o, g.num, ms, g.client, e.as, c)
    <3>1. ~ConcludesNot(S)
      BY <1>2, <2>1 DEF ConcludesNot
    <3>2. /\ GathersNone(<<>>, S, o) /\ f.num = R_DUP
          /\ \E q \in S : Concludes(q) /\ (q.op = "send" => q.arg = c)
      BY <2>7, <3>1 DEF Answering, OneAnswer
    <3>3. h.arg = c
      BY <1>2, <2>3, <3>2 DEF ConcludesNot
    <3>4. GathersNone(<<>>, R, o)
      BY <1>2, <3>2 DEF GathersNone
    <3>5. OneAnswer(<<>>, R, o, f.num, ms, f.client, c)
      BY <2>3, <2>4, <3>2, <3>4 DEF OneAnswer
    <3>6. Told(f.cmd, <<>>, ms, f.client, e.as, c)
      BY <1>1, <2>4, <3>3 DEF Told, StartsWith
    <3>7. OneCode(<<>>, c) /\ \A q \in R : q.op = o => q.arg \in {R_DUP, c}
      BY <1>2, <2>7 DEF Answering
    <3> QED BY <3>5, <3>6, <3>7 DEF Answering, SameState
  <2>8. \A c : Headed(g.cmd, <<>>, R, c)
    BY <1>5 DEF Headed, SameState
  <2>9. Decided(f) # "no"
    BY <1>5, DecidedIs
  <2>10. Decided(g) = "add" => \E c \in Codes("add") :
            Answering(g.cmd, <<>>, R, "add", g.num, ms, g.client, e.as, c) /\ Headed(g.cmd, <<>>, R, c)
    BY <1>1, <1>5, <2>6, <2>7, <2>8 DEF Owes
  <2>11. Decided(g) = "err" => \E c \in Codes("err") :
            Answering(g.cmd, <<>>, R, "err", g.num, ms, g.client, e.as, c)
    <3>1. Settled(f, err, ls, last)
      BY <1>1, <1>2, <1>3, InterruptsSettled
    <3> QED BY <1>1, <1>5, <2>6, <2>7, <3>1 DEF Settled
  <2> QED BY <1>1, <1>4, <1>5, <2>2, <2>5, <2>6, <2>9, <2>10, <2>11 DEF Owes
<1> QED BY <1>7, <1>8

(* The command that it has dispatched has been answered. *)
LEMMA OwesResumed ==
    ASSUME NEW f, GoodFrame(f), f.todo # <<>>, Dispatches(Head(f.todo)),
           Owes(f, <<>>, <<>>, <<>>, NULL),
           NEW g, g.cmd = f.cmd, g.client = f.client, g.phase = f.phase, g.failed = f.failed,
           g.num = f.num, g.todo = Tail(f.todo), g.returns = f.returns \/ g.returns = "ERROR",
           NEW ls, NEW i \in DOMAIN ls, FinalLines(ls, f.client) = {i}, NEW last
    PROVE  Owes(g, <<>>, <<>>, ls, last)
<1>1. PICK S, R, h : S = Range(f.todo) /\ R = Range(g.todo) /\ h = Head(f.todo)
  OBVIOUS
<1>2. S = R \cup {h} /\ h \in S /\ Concludes(h) /\ Speaks(h) /\ Interrupts(h) /\ Dispatches(h)
  BY <1>1, RestOfCalls DEF GoodFrame, Framed, Concludes, Speaks, Interrupts
<1>3. /\ Heads(f.cmd) = {} /\ Decides(f.phase, f.returns) # "no" /\ f.cmd \in Misreported
  BY <1>1, <1>2 DEF Owes, MaySay, Quiet
<1>4. /\ Decided(f) = Decides(f.phase, f.returns) /\ f.failed = "NO"
      /\ f.phase \in {"PRE_CMD", "CMD"} /\ Decided(f) \in {"add", "err"}
  BY <1>3, DecidedIs
<1>5. \A c \in R : ~Interrupts(c)
  BY <1>1, <1>2, RestOfCalls DEF Owes, MaySay, GoodFrame, Framed
<1>6. ConcludesNot(R)
  BY <1>5 DEF ConcludesNot, Concludes, Interrupts
<1>7. PICK c \in Codes(Decided(f)) :
         Answering(f.cmd, <<>>, S, Decided(f), f.num, <<>>, f.client, NULL, c)
  <2>1. Settled(f, <<>>, <<>>, NULL)
    BY <1>1, <1>2, InterruptsSettled
  <2> QED BY <1>1, <1>4, <2>1 DEF Owes, Settled
<1>8. /\ GathersNone(<<>>, S, Decided(f)) /\ f.num = R_DUP
  <2>1. ~ConcludesNot(S)
    BY <1>2 DEF ConcludesNot
  <2> QED BY <1>7, <2>1 DEF Answering, OneAnswer
<1>9. ASSUME NEW o, NEW d, GathersNone(<<>>, S, o)
      PROVE  Answering(g.cmd, <<>>, R, o, g.num, ls, g.client, last, d)
  <2>1. GathersNone(<<>>, R, o)
    BY <1>2, <1>9 DEF GathersNone
  <2>2. OneAnswer(<<>>, R, o, g.num, ls, g.client, d)
    BY <1>6, <1>8, <2>1 DEF OneAnswer
  <2>3. Told(g.cmd, <<>>, ls, g.client, last, d)
    BY <1>3 DEF Told
  <2>4. OneCode(<<>>, d) /\ \A q \in R : q.op = o => q.arg \in {R_DUP, d}
    BY <2>1 DEF OneCode, GathersNone
  <2> QED BY <2>2, <2>3, <2>4 DEF Answering
<1>10. \A d : Headed(g.cmd, <<>>, R, d)
  BY <1>3 DEF Headed
<1>11. CASE g.returns = f.returns
  <2>1. MaySay(g.cmd, g.phase, g.returns, g.todo, g.num)
    BY <1>11, RestMaySay DEF GoodFrame, Framed, Owes
  <2>2. Decided(g) = Decided(f)
    BY <1>11 DEF Decided
  <2> QED BY <1>1, <1>4, <1>5, <1>7, <1>8, <1>9, <1>10, <2>1, <2>2 DEF Owes
<1>12. CASE g.returns = "ERROR" /\ f.returns # "ERROR"
  <2>1. Decided(f) = "add" /\ Decides(f.phase, f.returns) = "add"
    BY <1>4, <1>12 DEF Decides
  <2>2. Decides(g.phase, g.returns) = "err" /\ Decided(g) = "err"
    BY <1>4, <1>12 DEF Decides, Decided
  <2>3. \A q \in R : q.op # "add"
    BY <1>2, <1>8, <2>1 DEF GathersNone
  <2>4. GathersNone(<<>>, S, "err")
    BY <1>1, <2>1 DEF Owes, MaySay, GathersNone
  <2>5. Orderly(g.todo)
    BY RestOfCalls DEF Owes, MaySay, GoodFrame, Framed
  <2>6. MaySay(g.cmd, g.phase, g.returns, g.todo, g.num)
    BY <1>1, <1>3, <2>2, <2>3, <2>5 DEF MaySay
  <2>7. Answering(g.cmd, <<>>, R, "err", g.num, ls, g.client, last, 500)
    BY <1>9, <2>4
  <2> QED BY <1>1, <1>5, <2>2, <2>6, <2>7, CodesAre DEF Owes
<1> QED BY <1>11, <1>12

(* A command that has just been read or dispatched. *)
LEMMA OwesBegun ==
    ASSUME NEW f, f.phase = "PRE_CMD", f.returns = "NONE", f.failed = "NO", f.todo = <<>>,
           f.num = R_DUP, NEW ls, FinalLines(ls, f.client) = {}, NEW last,
           Unspoken(f.cmd, ls, f.client, last)
    PROVE  Owes(f, <<>>, <<>>, ls, last)
<1>1. Decided(f) = "no"
  BY DEF Decided, Decides
<1>2. Undecided(f.cmd, <<>>, ls, f.client, last)
  BY DEF Undecided, OneCode, Told, StartsWith
<1>3. MaySay(f.cmd, f.phase, f.returns, f.todo, f.num)
  BY IdleMaySay
<1> QED BY <1>1, <1>2, <1>3 DEF Owes

(* What a handler for all commands does is right for each of them. *)
LEMMA AnswersOnceFor ==
    ASSUME NEW i \in DOMAIN Table, NEW b \in Table[i].does, NEW cmd,
           Table[i].cmd = ANY \/ Table[i].cmd = cmd,
           AnswersOnce(Table[i].cmd, Table[i].phase, b)
    PROVE  AnswersOnce(cmd, Table[i].phase, b)
<1>1. CASE Table[i].cmd = cmd
  BY <1>1
<1>2. CASE Table[i].cmd = ANY
  <2>1. PICK S, phase, o : S = Range(b.calls) /\ phase = Table[i].phase /\ o = Decides(phase, b.returns)
    OBVIOUS
  <2>2. MaySay(ANY, phase, b.returns, b.calls, b.num)
    BY <1>2, <2>1 DEF AnswersOnce
  <2>3. /\ o # "add" /\ ANY \notin Misreported /\ Heads(ANY) = {}
        /\ \A c \in S : ~Interrupts(c)
    BY <1>2, <2>1, AnswerAssumption
  <2>4. \A c \in S : ~Dispatches(c)
    BY <2>3 DEF Interrupts
  <2>5. Quiet(ANY, phase, S) => Quiet(cmd, phase, S)
    BY <2>3 DEF Quiet
  <2>6. MaySay(cmd, phase, b.returns, b.calls, b.num)
    BY <2>1, <2>2, <2>3, <2>4, <2>5 DEF MaySay
  <2>7. ASSUME NEW c, Answering(ANY, <<>>, S, o, b.num, <<>>, 0, NULL, c)
        PROVE  Answering(cmd, <<>>, S, o, b.num, <<>>, 0, NULL, c)
    <3>1. Told(cmd, <<>>, <<>>, 0, NULL, c)
      BY NoFinalLines DEF Told, StartsWith
    <3> QED BY <2>7, <3>1 DEF Answering
  <2>8. o # "no" => \E c \in Codes(o) : Answering(ANY, <<>>, S, o, b.num, <<>>, 0, NULL, c)
    BY <1>2, <2>1, UnansweredAre DEF AnswersOnce, Silent
  <2> QED BY <2>1, <2>3, <2>6, <2>7, <2>8 DEF AnswersOnce
<1> QED BY <1>1, <1>2

(* A handler is called. *)
LEMMA OwesCalled ==
    ASSUME NEW f, GoodFrame(f), ~Running(f), NEW ok, NEW err, NEW ls, NEW last,
           Owes(f, ok, err, ls, last), NEW b, AnswersOnce(f.cmd, f.phase, b),
           NEW g, g.cmd = f.cmd, g.client = f.client, g.phase = f.phase, g.failed = f.failed,
           g.todo = b.calls, g.returns = b.returns, g.num = b.num, GoodFrame(g)
    PROVE  Owes(g, ok, err, ls, last)
<1>1. PICK S, o : S = Range(b.calls) /\ o = Decides(f.phase, b.returns)
  OBVIOUS
<1>2. f.todo = <<>> /\ Range(f.todo) = {} /\ f.returns = "NONE" /\ f.num = R_DUP
  <2>1. f.todo = <<>> /\ f.returns = "NONE"
    BY DEF GoodFrame, EndsIdle, Running
  <2>2. Decides(f.phase, f.returns) = "no"
    BY <2>1 DEF Decides
  <2> QED BY <2>1, <2>2, NoCalls DEF Owes, MaySay
<1>3. MaySay(f.cmd, f.phase, b.returns, b.calls, b.num)
  BY DEF AnswersOnce
<1>4. ok # <<>> /\ Decided(f) = "no" => \A c \in S : ~Interrupts(c)
  <2>1. ok # <<>> /\ Decided(f) = "no" => Heads(f.cmd) # {}
    BY DEF Owes, Undecided
  <2> QED BY <1>1, <1>3, <2>1 DEF MaySay
<1>5. CASE o = "no"
  <2>1. Quiet(f.cmd, f.phase, S) /\ b.num = R_DUP
    BY <1>1, <1>3, <1>5 DEF MaySay
  <2>2. (\A c \in S : ~Interrupts(c)) /\ ConcludesNot(S)
    BY <2>1 DEF Quiet, ConcludesNot, Concludes, Interrupts
  <2>3. Decided(g) = Decided(f)
    BY <1>1, <1>2, <1>5 DEF Decided, Decides
  <2>4. Decided(f) = "add" => \E c \in Codes("add") :
           /\ Answering(f.cmd, ok, S, "add", b.num, ls, f.client, last, c)
           /\ Headed(f.cmd, ok, S, c)
    <3> SUFFICES ASSUME Decided(f) = "add"
                 PROVE  \E c \in Codes("add") :
                           /\ Answering(f.cmd, ok, S, "add", b.num, ls, f.client, last, c)
                           /\ Headed(f.cmd, ok, S, c)
      OBVIOUS
    <3>1. PICK c \in Codes("add") :
             /\ Answering(f.cmd, ok, {}, "add", R_DUP, ls, f.client, last, c)
             /\ Headed(f.cmd, ok, {}, c)
      BY <1>2 DEF Owes
    <3>2. \A h \in Heads(f.cmd) : c = h /\ StartsWith(ok, c)
      BY <3>1 DEF Headed, Gathers
    <3>3. \A q \in S : q.op = "add" => q.arg = c /\ StartsWith(ok, c)
      BY <2>1, <3>2 DEF Quiet
    <3>4. Gathers(ok, {}, "add", c) => Gathers(ok, S, "add", c)
      BY DEF Gathers
    <3>5. GathersNone(ok, {}, "add") => GathersNone(ok, S, "add")
      BY <3>3 DEF GathersNone, StartsWith
    <3>6. OneAnswer(ok, S, "add", b.num, ls, f.client, c)
      BY <2>1, <2>2, <3>1, <3>4, <3>5 DEF Answering, OneAnswer
    <3>7. Answering(f.cmd, ok, S, "add", b.num, ls, f.client, last, c)
      BY <3>1, <3>3, <3>6 DEF Answering
    <3>8. Headed(f.cmd, ok, S, c)
      BY <3>2 DEF Headed, Gathers
    <3> QED BY <3>7, <3>8
  <2>5. Decided(f) = "err" =>
           \/ \E c \in Codes("err") : Answering(f.cmd, err, S, "err", b.num, ls, f.client, last, c)
           \/ Silent(f.cmd, err, S, b.num, ls, f.client, last)
    <3>1. ASSUME Silent(f.cmd, err, {}, R_DUP, ls, f.client, last)
          PROVE  Silent(f.cmd, err, S, b.num, ls, f.client, last)
      <4>1. \A q \in S : q.op # "add" /\ q.op # "err"
        BY <2>1, <3>1, UnansweredAre DEF Silent, Quiet
      <4> QED BY <2>1, <2>2, <3>1, <4>1 DEF Silent, Speaks, ConcludesNot
    <3>2. ASSUME NEW c, Answering(f.cmd, err, {}, "err", R_DUP, ls, f.client, last, c)
          PROVE  Answering(f.cmd, err, S, "err", b.num, ls, f.client, last, c)
      <4>1. \A q \in S : q.op # "err"
        BY <2>1 DEF Quiet
      <4>2. Gathers(err, {}, "err", c) => Gathers(err, S, "err", c)
        BY DEF Gathers
      <4>3. GathersNone(err, {}, "err") => GathersNone(err, S, "err")
        BY <4>1 DEF GathersNone
      <4>4. OneAnswer(err, S, "err", b.num, ls, f.client, c)
        BY <2>1, <2>2, <3>2, <4>2, <4>3 DEF Answering, OneAnswer
      <4> QED BY <3>2, <4>1, <4>4 DEF Answering
    <3> QED BY <1>2, <3>1, <3>2 DEF Owes
  <2>6. /\ Decided(f) = "no" => Undecided(f.cmd, ok, ls, f.client, last)
        /\ Decided(f) # "err" => err = <<>>
        /\ Decided(f) = "err" /\ f.cmd \in InnerCommands => ok = <<>>
    BY DEF Owes
  <2> QED BY <1>1, <1>3, <2>2, <2>3, <2>4, <2>5, <2>6 DEF Owes
<1>6. CASE o # "no"
  <2>1. Decided(g) = o /\ o \in {"add", "err"} /\ f.failed = "NO" /\ f.phase \in {"PRE_CMD", "CMD"}
    BY <1>1, <1>6, DecidedIs DEF Decides
  <2>2. Decided(f) = "no"
    BY <1>2, <2>1 DEF Decided, Decides
  <2>3. Undecided(f.cmd, ok, ls, f.client, last) /\ err = <<>>
    BY <2>2 DEF Owes
  <2>4. FinalLines(ls, f.client) = {} /\ FinalLines(<<>>, 0) = {}
    BY <2>3, NoFinalLines DEF Undecided
  <2>silent. CASE o = "err" /\ Silent(f.cmd, <<>>, S, b.num, <<>>, 0, NULL)
    <3>1. f.cmd \in Unanswered /\ f.cmd \notin InnerCommands
      BY <2>silent, UnansweredAre DEF Silent
    <3>2. Silent(f.cmd, err, S, b.num, ls, f.client, last)
      BY <2>3, <2>silent, <3>1 DEF Silent, Undecided, Unspoken
    <3>3. \A q \in S : ~Interrupts(q)
      BY <2>silent DEF Silent
    <3> QED BY <1>1, <1>3, <2>1, <2>3, <2>silent, <3>1, <3>2, <3>3 DEF Owes
  <2> SUFFICES ASSUME ~(o = "err" /\ Silent(f.cmd, <<>>, S, b.num, <<>>, 0, NULL))
               PROVE  Owes(g, ok, err, ls, last)
    BY <2>silent
  <2>5. PICK c \in Codes(o) :
           /\ Answering(f.cmd, <<>>, S, o, b.num, <<>>, 0, NULL, c)
           /\ o = "add" => Headed(f.cmd, <<>>, S, c)
    BY <1>1, <1>6 DEF AnswersOnce
  <2>6. Answering(f.cmd, <<>>, S, o, b.num, ls, f.client, last, c)
    BY <2>4, <2>5, AnsweringFresh
  <2>7. ok # <<>> \/ err # <<>> \/ FinalLines(ls, g.client) # {} => \A q \in S : ~Interrupts(q)
    BY <1>4, <2>2, <2>3, <2>4
  <2>8. f.cmd \in InnerCommands => ok = <<>>
    BY <2>3, HeadsAre DEF Undecided
  <2>9. o = "add" => /\ Answering(f.cmd, ok, S, "add", b.num, ls, f.client, last, c)
                     /\ Headed(f.cmd, ok, S, c)
    <3> SUFFICES ASSUME o = "add"
                 PROVE  /\ Answering(f.cmd, ok, S, "add", b.num, ls, f.client, last, c)
                        /\ Headed(f.cmd, ok, S, c)
      OBVIOUS
    <3>1. CASE Heads(f.cmd) = {}
      <4>1. ok = <<>>
        BY <2>3, <3>1 DEF Undecided
      <4> QED BY <2>5, <2>6, <4>1
    <3>2. CASE Heads(f.cmd) # {}
      <4>1. c \in Heads(f.cmd) /\ Gathers(<<>>, S, "add", c)
        BY <2>5, <3>2 DEF Headed
      <4>2. OneCode(ok, c) /\ Told(f.cmd, ok, ls, f.client, last, c)
        BY <2>3, <4>1 DEF Undecided
      <4>3. \E q \in S : q.op = "add" /\ q.arg = c
        BY <4>1 DEF Gathers, StartsWith
      <4>4. Gathers(ok, S, "add", c) /\ ~GathersNone(<<>>, S, "add")
        BY <4>3 DEF Gathers, GathersNone
      <4>5. b.num = R_DUP /\ ConcludesNot(S)
        BY <2>6, <4>4 DEF Answering, OneAnswer
      <4>6. OneAnswer(ok, S, "add", b.num, ls, f.client, c)
        BY <2>4, <4>4, <4>5 DEF OneAnswer
      <4>7. Answering(f.cmd, ok, S, "add", b.num, ls, f.client, last, c)
        BY <2>6, <4>2, <4>6 DEF Answering
      <4>8. Headed(f.cmd, ok, S, c)
        BY <2>5, <4>4 DEF Headed
      <4> QED BY <4>7, <4>8
    <3> QED BY <3>1, <3>2
  <2> QED BY <1>1, <1>3, <2>1, <2>3, <2>5, <2>6, <2>7, <2>8, <2>9 DEF Owes
<1> QED BY <1>5, <1>6

(* A handler that has made its calls returns, or none is left: the search  *)
(* goes on, in this phase or the next.                                     *)
LEMMA OwesIdle ==
    ASSUME NEW f, f.todo = <<>>, f.num = R_DUP, NEW ok, NEW err, NEW ls, NEW last,
           Owes(f, ok, err, ls, last),
           NEW g, g.cmd = f.cmd, g.client = f.client, g.returns = "NONE", g.todo = <<>>,
           g.num = R_DUP, Decided(g) = Decided(f)
    PROVE  Owes(g, ok, err, ls, last)
<1>1. MaySay(g.cmd, g.phase, g.returns, g.todo, g.num)
  BY IdleMaySay
<1>2. Range(g.todo) = {}
  BY NoCalls
<1> QED BY <1>1, <1>2 DEF Owes

(* An answer is given by a list that holds the one response r.             *)
LEMMA OneResponse ==
    ASSUME NEW r, DOMAIN r = {"num", "by", "pool"}, r.num \in Nat, r.num # R_DUP
    PROVE  OneCode(Insert(<<>>, r), r.num) /\ StartsWith(Insert(<<>>, r), r.num)
<1>1. Responses(<<>>) /\ OneCode(<<>>, r.num)
  BY NoResponses DEF OneCode
<1> QED BY <1>1, InsertOneCode

(* A command is refused: by a message of the dispatcher, in the list, or   *)
(* by a line.                                                              *)
LEMMA OwesFailed ==
    ASSUME NEW g, g.returns = "NONE", g.todo = <<>>, g.num = R_DUP, Decided(g) = "err",
           NEW ok, g.cmd \in InnerCommands => ok = <<>>,
           NEW ls, FinalLines(ls, g.client) = {},
           NEW r, DOMAIN r = {"num", "by", "pool"}, r.num \in Codes("err")
    PROVE  Owes(g, ok, Insert(<<>>, r), ls, r.num)
<1>1. PICK new, c : new = Insert(<<>>, r) /\ c = r.num
  OBVIOUS
<1>2. MaySay(g.cmd, g.phase, g.returns, g.todo, g.num) /\ Range(g.todo) = {}
  BY IdleMaySay, NoCalls
<1>3. OneCode(new, c) /\ StartsWith(new, c)
  BY <1>1, CodesAre, OneResponse
<1>4. OneAnswer(new, {}, "err", g.num, ls, g.client, c)
  BY <1>3 DEF OneAnswer, Gathers, ConcludesNot
<1>5. Told(g.cmd, new, ls, g.client, c, c)
  BY DEF Told
<1>6. Answering(g.cmd, new, {}, "err", g.num, ls, g.client, c, c)
  BY <1>3, <1>4, <1>5 DEF Answering
<1> QED BY <1>1, <1>2, <1>6 DEF Owes

LEMMA OwesRefused ==
    ASSUME NEW g, g.returns = "NONE", g.todo = <<>>, g.num = R_DUP, Decided(g) = "err",
           NEW ok, g.cmd \in InnerCommands => ok = <<>>,
           NEW ls, IsList(ls), FinalLines(ls, g.client) = {},
           NEW e, e.as \in Codes("err"), e.ends = TRUE, e.to = g.client
    PROVE  Owes(g, ok, <<>>, Append(ls, e), e.as)
<1>1. PICK ms, c : ms = Append(ls, e) /\ c = e.as
  OBVIOUS
<1>2. MaySay(g.cmd, g.phase, g.returns, g.todo, g.num) /\ Range(g.todo) = {}
  BY IdleMaySay, NoCalls
<1>3. FinalLines(ms, g.client) = {Len(ls) + 1} /\ ms[Len(ls) + 1] = e /\ Len(ls) + 1 \in DOMAIN ms
  BY <1>1, CodesAre, SentLine
<1>4. OneAnswer(<<>>, {}, "err", g.num, ms, g.client, c)
  BY <1>3 DEF OneAnswer, GathersNone, ConcludesNot
<1>5. Told(g.cmd, <<>>, ms, g.client, c, c)
  BY <1>1, <1>3 DEF Told, StartsWith
<1>6. Answering(g.cmd, <<>>, {}, "err", g.num, ms, g.client, c, c)
  BY <1>4, <1>5 DEF Answering, OneCode
<1> QED BY <1>1, <1>2, <1>6 DEF Owes

(* What the phase after the next is decides.                               *)
LEMMA AdvanceDecided ==
    ASSUME NEW f, GoodFrame(f), f.phase # "END", NEW res \in {-1, 0, 1},
           IsLog(f.phase) /\ f.scope = "ANY" =>
              \A i \in DOMAIN Table :
                 Table[i].cmd = ANY /\ Table[i].phase = f.phase => i \in f.logged
    PROVE  /\ Decided(Advance(f, res)) =
                 IF f.phase \in {"PRE_CMD", "CMD"}
                 THEN IF res = -1 THEN "err"
                      ELSE IF f.phase = "CMD" /\ res = 1 THEN "add" ELSE "no"
                 ELSE Decided(f)
           /\ Advance(f, res).returns = "NONE" /\ Advance(f, res).todo = <<>>
           /\ Advance(f, res).num = R_DUP /\ SameCommand(f, Advance(f, res))
           /\ GoodFrame(Advance(f, res))
<1>1. PICK g : g = Advance(f, res)
  OBVIOUS
<1>2. /\ GoodFrame(g) /\ SameCommand(f, g) /\ g.returns = "NONE" /\ g.todo = <<>>
      /\ IF res < 0 /\ f.phase \in {"PRE_CMD", "CMD"} THEN g.failed # "NO" ELSE g.failed = f.failed
      /\ g.phase = "PRE_CMD" => f.phase = "PRE_CMD"
      /\ g.phase = "CMD" => f.phase = "PRE_CMD" \/ (f.phase = "CMD" /\ res = 0)
      /\ g.num = R_DUP
      /\ f.phase = "PRE_CMD" /\ res # -1 => g.phase \in {"PRE_CMD", "CMD"}
      /\ f.phase = "CMD" /\ res = 0 => g.phase = "CMD"
  BY <1>1, AdvanceGood
<1>3. f.phase \in {"PRE_CMD", "CMD"} => f.failed = "NO"
  BY DEF GoodFrame, PhaseOfOutcome
<1>4. Decided(g) = IF f.phase \in {"PRE_CMD", "CMD"}
                   THEN IF res = -1 THEN "err"
                        ELSE IF f.phase = "CMD" /\ res = 1 THEN "add" ELSE "no"
                   ELSE Decided(f)
  <2>1. CASE f.phase \in {"PRE_CMD", "CMD"} /\ res = -1
    BY <1>2, <2>1 DEF Decided
  <2>2. CASE f.phase \in {"PRE_CMD", "CMD"} /\ res # -1
    <3>1. g.failed = "NO"
      BY <1>2, <1>3, <2>2
    <3>2. CASE f.phase = "CMD" /\ res = 1
      <4>1. g.phase \notin {"PRE_CMD", "CMD"}
        BY <1>2, <3>2
      <4> QED BY <2>2, <3>1, <3>2, <4>1 DEF Decided
    <3>3. CASE ~(f.phase = "CMD" /\ res = 1)
      <4>1. g.phase \in {"PRE_CMD", "CMD"}
        BY <1>2, <2>2, <3>3
      <4> QED BY <1>2, <2>2, <3>1, <3>3, <4>1 DEF Decided, Decides
    <3> QED BY <3>2, <3>3
  <2>3. CASE f.phase \notin {"PRE_CMD", "CMD"}
    <3>1. g.failed = f.failed /\ g.phase \notin {"PRE_CMD", "CMD"}
      BY <1>2, <2>3
    <3> QED BY <2>3, <3>1 DEF Decided
  <2> QED BY <2>1, <2>2, <2>3
<1> QED BY <1>1, <1>2, <1>4
-----------------------------------------------------------------------------
(* The commands in progress, and the lines they have sent. *)

(* Only command id gets a line.                                            *)
SendsOnlyTo(id) ==
    /\ LinesSent' /\ DOMAIN sent \subseteq DOMAIN sent'
    /\ \A d : d # id => FinalLines(sent', d) = FinalLines(sent, d)
    /\ \A d : d # id /\ NoLines(sent, d) => NoLines(sent', d)

LEMMA NoLine ==
    ASSUME LinesSent, sent' = sent, nread \in Nat, nread' \in Nat, nread <= nread', NEW id
    PROVE  SendsOnlyTo(id)
<1>1. \A k \in 1..nread : k \in 1..nread'
  OBVIOUS
<1> QED BY <1>1 DEF SendsOnlyTo, LinesSent, OwnLines

OwnLine(num, id) == Line(num, TRUE, id, [num |-> num, by |-> id])

LEMMA OneLine ==
    ASSUME LinesSent, nread \in Nat, nread' \in Nat, nread <= nread', NEW num \in Nat,
           NEW id \in 1..nread', sent' = Append(sent, OwnLine(num, id))
    PROVE  SendsOnlyTo(id)
<1>1. PICK e, n : e = OwnLine(num, id) /\ n = Len(sent)
  OBVIOUS
<1>2. e.to = id /\ e.as = num /\ e.by = id /\ e.num = num
  BY <1>1 DEF OwnLine, Line
<1>3. /\ IsList(sent') /\ DOMAIN sent' = 1..(n + 1) /\ sent'[n + 1] = e
      /\ \A i \in DOMAIN sent : sent'[i] = sent[i]
  BY <1>1, AppendList DEF LinesSent
<1>4. n \in Nat /\ DOMAIN sent = 1..n
  BY <1>1, ListFacts DEF LinesSent
<1>5. (DOMAIN sent') = (DOMAIN sent) \cup {n + 1}
  BY <1>3, <1>4
<1>6. \A k \in 1..nread : k \in 1..nread'
  OBVIOUS
<1>7. ASSUME NEW i \in DOMAIN sent'
      PROVE  /\ sent'[i].to \in 1..nread' /\ sent'[i].as \in Nat
             /\ sent'[i].by = sent'[i].to /\ sent'[i].num \in {R_DUP, sent'[i].as}
  <2>1. CASE i \in DOMAIN sent
    BY <1>3, <1>6, <2>1 DEF LinesSent, OwnLines
  <2>2. CASE i = n + 1
    BY <1>2, <1>3, <2>2
  <2> QED BY <1>5, <2>1, <2>2
<1>8. LinesSent'
  BY <1>3, <1>7 DEF LinesSent, OwnLines
<1>9. ASSUME NEW d, d # id
      PROVE  /\ FinalLines(sent', d) = FinalLines(sent, d)
             /\ NoLines(sent, d) => NoLines(sent', d)
  <2>1. FinalLines(Append(sent, e), d)
          = FinalLines(sent, d) \cup (IF e.to = d /\ e.ends /\ e.as >= 200 THEN {Len(sent) + 1} ELSE {})
    BY SentLine DEF LinesSent
  <2>2. NoLines(sent, d) => NoLines(sent', d)
    BY <1>2, <1>3, <1>5, <1>9 DEF NoLines
  <2> QED BY <1>1, <1>2, <1>9, <2>1, <2>2
<1> QED BY <1>5, <1>8, <1>9 DEF SendsOnlyTo

(* What OneReply says of a command that is done; it stays so.              *)
Replied(ls, d) ==
    \/ \E i \in DOMAIN ls : FinalLines(ls, d.id) = {i}
    \/ /\ d.cmd \in Unanswered /\ d.log = "LOG_CMD_ERR"
       /\ NoLines(ls, d.id)

LEMMA StaysReplied ==
    ASSUME NEW id, SendsOnlyTo(id), NEW d \in done, d.id # id, OneReply
    PROVE  Replied(sent', d)
<1>1. Replied(sent, d)
  BY DEF OneReply, Replied
<1> QED BY <1>1 DEF SendsOnlyTo, Replied

(* A step of the innermost command. *)
TodoPlaced(todo, authd) ==
    \A c \in Range(todo) :
        /\ c.op = "poll" => authd
        /\ Dispatches(c) => c.arg \in InnerCommands /\ c.arg \in EarlyReach

LEMMA SetTopAnswer ==
    ASSUME IInv, AnswerInv, stack # <<>>, NEW g, GoodFrame(g), SameCommand(top, g),
           stack' = SetTop(g), nread' = nread, done' = done,
           authenticated' \in BOOLEAN, authenticated => authenticated',
           resp_pool' # NULL, TodoPlaced(g.todo, authenticated'),
           Owes(g, resp_list', resp_err_list', sent', last_code'), SendsOnlyTo(top.client),
           \A r \in Range(resp_list') \cup Range(resp_err_list') : r.by = top.client
    PROVE  AnswerInv'
<1>1. PICK n : n = Len(stack)
  OBVIOUS
<1>2. /\ n \in Nat /\ n > 0 /\ DOMAIN stack = 1..n /\ n \in DOMAIN stack /\ top = stack[n]
  BY <1>1, TopOfStack DEF IInv, top
<1>3. /\ Len(stack') = n /\ DOMAIN stack' = 1..n /\ stack'[n] = g
      /\ \A i \in 1..n : i # n => stack'[i] = stack[i]
  BY <1>1, <1>2, StackSet DEF IInv, SetTop
<1>4. \A i \in 1..n : /\ stack'[i].client = stack[i].client /\ stack'[i].cmd = stack[i].cmd
                      /\ stack'[i].saved = stack[i].saved
  BY <1>2, <1>3 DEF SameCommand
<1>5. top' = g /\ stack' # <<>>
  BY <1>2, <1>3 DEF top
<1>6. Nested'
  <2> SUFFICES ASSUME NEW i \in 1..n, NEW j \in 1..n, i < j
               PROVE  /\ Owes(stack'[i], <<>>, <<>>, <<>>, NULL)
                      /\ stack'[i].client <= stack'[j].client
                      /\ Head(stack'[i].todo).op = "poll" =>
                            /\ stack'[i].client < stack'[j].client
                            /\ FinalLines(sent', stack'[i].client) = {}
                      /\ Head(stack'[i].todo).op # "poll" /\ j = i + 1 =>
                            stack'[j].client = stack'[i].client
    BY <1>3 DEF Nested
  <2>1. i # n /\ i < n /\ stack'[i] = stack[i]
    BY <1>2, <1>3
  <2>2. /\ Owes(stack[i], <<>>, <<>>, <<>>, NULL)
        /\ stack[i].client <= stack[j].client
        /\ Head(stack[i].todo).op = "poll" =>
              /\ stack[i].client < stack[j].client
              /\ FinalLines(sent, stack[i].client) = {}
        /\ Head(stack[i].todo).op # "poll" /\ j = i + 1 => stack[j].client = stack[i].client
    BY <1>2 DEF AnswerInv, Nested
  <2>3. Head(stack[i].todo).op = "poll" => stack[i].client < top.client
    BY <1>2, <2>1 DEF AnswerInv, Nested
  <2>4. stack[i].client \in Nat /\ top.client \in Nat
    BY <1>2 DEF AnswerInv, Placed
  <2>5. Head(stack[i].todo).op = "poll" => FinalLines(sent', stack[i].client) = {}
    BY <2>2, <2>3, <2>4 DEF SendsOnlyTo
  <2> QED BY <1>4, <2>1, <2>2, <2>5
<1>7. Over'
  BY <1>2, <1>3, <1>4 DEF AnswerInv, Over
<1>8. OneReply'
  <2> SUFFICES ASSUME NEW d \in done PROVE Replied(sent', d)
    BY DEF OneReply, Replied
  <2>1. d.id # top.client
    BY <1>2 DEF AnswerInv, Over
  <2> QED BY <2>1, StaysReplied DEF AnswerInv
<1>9. ASSUME NEW i \in 1..n
      PROVE  /\ Placed(stack[i])'
             /\ i # 1 => stack'[i].cmd \in InnerCommands /\ stack'[i].saved # NULL
  <2>1. Placed(stack[i]) /\ (i # 1 => stack[i].cmd \in InnerCommands /\ stack[i].saved # NULL)
    BY <1>2 DEF AnswerInv
  <2>2. CASE i = n
    BY <1>2, <1>3, <1>4, <2>1, <2>2 DEF Placed, TodoPlaced
  <2>3. CASE i # n
    BY <1>3, <1>4, <2>1, <2>3 DEF Placed
  <2> QED BY <1>4, <2>1, <2>2, <2>3
<1>10. Owes(top, resp_list, resp_err_list, sent, last_code)'
  BY <1>5
<1>11. \A r \in (Range(resp_list) \cup Range(resp_err_list))' : r.by = top'.client
  BY <1>5 DEF SameCommand
<1> QED BY <1>3, <1>5, <1>6, <1>7, <1>8, <1>9, <1>10, <1>11 DEF AnswerInv, SendsOnlyTo

LEMMA TopAnswer ==
    ASSUME IInv, AnswerInv, stack # <<>>
    PROVE  /\ GoodFrame(top) /\ Owes(top, resp_list, resp_err_list, sent, last_code)
           /\ Placed(top) /\ TodoPlaced(top.todo, authenticated) /\ top.client \in 1..nread
           /\ resp_pool # NULL /\ LinesSent /\ authenticated \in BOOLEAN /\ nread \in Nat
           /\ \A r \in Range(resp_list) \cup Range(resp_err_list) : r.by = top.client
           /\ Responses(resp_list) /\ Responses(resp_err_list)
<1>1. Len(stack) \in DOMAIN stack /\ top = stack[Len(stack)] /\ GoodFrame(top)
  BY TopOfStack DEF IInv, top
<1>2. Placed(top)
  BY <1>1 DEF AnswerInv
<1> QED BY <1>1, <1>2 DEF AnswerInv, Placed, TodoPlaced, IInv

LEMMA PlacedNothing == ASSUME NEW a PROVE TodoPlaced(<<>>, a)
  BY NoCalls DEF TodoPlaced
-----------------------------------------------------------------------------
(* Every step keeps the invariant. *)

(* No handler has decided yet, and none is being called: nothing has been  *)
(* said.                                                                   *)
LEMMA NothingSaid ==
    ASSUME NEW f, GoodFrame(f), f.phase \in {"PRE_CMD", "CMD"}, f.returns # "HANDLED",
           f.returns # "ERROR", NEW ok, NEW err, NEW ls, NEW last, Owes(f, ok, err, ls, last)
    PROVE  /\ Decided(f) = "no" /\ FinalLines(ls, f.client) = {} /\ err = <<>>
           /\ f.cmd \in InnerCommands => ok = <<>>
<1>1. f.failed = "NO" /\ Decided(f) = "no"
  BY DEF GoodFrame, PhaseOfOutcome, Decided, Decides
<1>2. Undecided(f.cmd, ok, ls, f.client, last) /\ err = <<>>
  BY <1>1 DEF Owes
<1> QED BY <1>1, <1>2, HeadsAre DEF Undecided

(* A handler for all commands, or for this one.                            *)
LEMMA RowMatches ==
    ASSUME NEW f, NextRow(f) # 0
    PROVE  /\ NextRow(f) \in DOMAIN Table /\ Table[NextRow(f)].phase = f.phase
           /\ Table[NextRow(f)].cmd = ANY \/ Table[NextRow(f)].cmd = f.cmd
           /\ f.scope = "ANY" => Table[NextRow(f)].cmd = ANY
  BY NextRowIs DEF Matches, Match

LEMMA AuthCheckFailsAnswer ==
    ASSUME IInv, AnswerInv, AuthCheckFails PROVE AnswerInv'
<1>1. stack # <<>> /\ top.phase # "END" /\ top.returns = "NONE" /\ NextRow(top) # 0
  BY DEF AuthCheckFails, Running
<1>2. /\ GoodFrame(top) /\ Owes(top, resp_list, resp_err_list, sent, last_code)
      /\ Placed(top) /\ top.client \in 1..nread
      /\ resp_pool # NULL /\ LinesSent /\ authenticated \in BOOLEAN /\ nread \in Nat
      /\ \A r \in Range(resp_list) \cup Range(resp_err_list) : r.by = top.client
  BY <1>1, TopAnswer
<1>3. PICK n : n = NextRow(top)
  OBVIOUS
<1>4. /\ n \in DOMAIN Table /\ Table[n].phase = top.phase
      /\ Table[n].cmd = ANY \/ Table[n].cmd = top.cmd
      /\ top.scope = "ANY" => Table[n].cmd = ANY
      /\ Table[n].requires_auth
  BY <1>1, <1>3, RowMatches DEF AuthCheckFails
<1>5. top.cmd \in EarlyReach
  BY <1>2 DEF AuthCheckFails, Placed
<1>6. top.phase \in {"PRE_CMD", "CMD"}
  BY <1>4, <1>5, AnswerAssumption
<1>7. /\ Decided(top) = "no" /\ FinalLines(sent, top.client) = {} /\ resp_err_list = <<>>
      /\ top.cmd \in InnerCommands => resp_list = <<>>
  BY <1>1, <1>2, <1>6, NothingSaid
<1>8. PICK g : g = Advance(top, -1)
  OBVIOUS
<1>9. /\ Decided(g) = "err" /\ g.returns = "NONE" /\ g.todo = <<>> /\ g.num = R_DUP
      /\ SameCommand(top, g) /\ GoodFrame(g)
  <2>1. ~IsLog(top.phase)
    BY <1>6 DEF IsLog
  <2> QED BY <1>1, <1>2, <1>6, <1>8, <2>1, AdvanceDecided
<1>10. PICK e : e = OwnLine(530, top.client)
  OBVIOUS
<1>11. e.as = 530 /\ e.ends = TRUE /\ e.to = top.client
  BY <1>10 DEF OwnLine, Line
<1>12. /\ stack' = SetTop(g) /\ nread' = nread /\ done' = done /\ authenticated' = authenticated
       /\ sent' = Append(sent, e) /\ last_code' = 530
       /\ resp_list' = resp_list /\ resp_err_list' = <<>> /\ resp_pool' = resp_pool
  BY <1>2, <1>7, <1>8, <1>10 DEF AuthCheckFails, flags, pr_response_send, OwnLine
<1>13. Owes(g, resp_list', resp_err_list', sent', last_code')
  <2>1. g.client = top.client /\ g.cmd = top.cmd /\ IsList(sent) /\ e.as \in Codes("err")
    BY <1>2, <1>9, <1>11, CodesAre DEF SameCommand, LinesSent
  <2>2. FinalLines(sent, g.client) = {} /\ (g.cmd \in InnerCommands => resp_list = <<>>)
    BY <1>7, <2>1
  <2>3. e.as \in Codes("err") /\ e.ends = TRUE /\ e.to = g.client
    BY <1>11, <2>1
  <2>4. Owes(g, resp_list, <<>>, Append(sent, e), e.as)
    BY <1>9, <2>1, <2>2, <2>3, OwesRefused
  <2> QED BY <1>11, <1>12, <2>4
<1>14. SendsOnlyTo(top.client)
  <2>1. top.client \in 1..nread' /\ nread' \in Nat /\ nread <= nread' /\ 530 \in Nat
    BY <1>2, <1>12
  <2> QED BY <1>2, <1>10, <1>12, <2>1, OneLine
<1>15. TodoPlaced(g.todo, authenticated') /\ authenticated' \in BOOLEAN /\ (authenticated => authenticated')
  BY <1>2, <1>9, <1>12, PlacedNothing
<1>16. \A r \in Range(resp_list') \cup Range(resp_err_list') : r.by = top.client
  BY <1>2, <1>7, <1>12
<1>17. resp_pool' # NULL
  BY <1>2, <1>12
<1> QED BY <1>1, <1>9, <1>12, <1>13, <1>14, <1>15, <1>16, <1>17, SetTopAnswer

LEMMA CallHandlerAnswer ==
    ASSUME IInv, AnswerInv, CallHandler PROVE AnswerInv'
<1>1. stack # <<>> /\ top.phase # "END" /\ ~Running(top) /\ NextRow(top) # 0
  BY DEF CallHandler
<1>2. /\ GoodFrame(top) /\ Owes(top, resp_list, resp_err_list, sent, last_code)
      /\ Placed(top) /\ top.client \in 1..nread
      /\ resp_pool # NULL /\ LinesSent /\ authenticated \in BOOLEAN /\ nread \in Nat
      /\ \A r \in Range(resp_list) \cup Range(resp_err_list) : r.by = top.client
  BY <1>1, TopAnswer
<1>3. PICK n : n = NextRow(top)
  OBVIOUS
<1>4. /\ n \in DOMAIN Table /\ Table[n].phase = top.phase
      /\ Table[n].cmd = ANY \/ Table[n].cmd = top.cmd
      /\ Table[n].requires_auth => authenticated
  BY <1>1, <1>3, RowMatches DEF CallHandler
<1>5. PICK b \in Table[n].does : Applies(b) /\ stack' = SetTop(Called(top, b))
  BY <1>3 DEF CallHandler, Called
<1>6. PICK g : g = Called(top, b)
  OBVIOUS
<1>7. /\ GoodFrame(g) /\ SameCommand(top, g)
      /\ g.todo = b.calls /\ g.returns = b.returns /\ g.phase = top.phase
      /\ g.failed = top.failed /\ g.num = b.num
  BY <1>1, <1>2, <1>3, <1>5, <1>6, CalledGood
<1>8. /\ stack' = SetTop(g) /\ nread' = nread /\ done' = done /\ authenticated' = authenticated
      /\ sent' = sent /\ last_code' = last_code
      /\ resp_list' = resp_list /\ resp_err_list' = resp_err_list /\ resp_pool' = resp_pool
  BY <1>5, <1>6 DEF CallHandler, flags, lists
<1>9. AnswersOnce(top.cmd, top.phase, b)
  <2>1. AnswersOnce(Table[n].cmd, Table[n].phase, b)
    <3>1. ~(b.when = "not authd" /\ Table[n].cmd \notin EarlyReach \cup {ANY})
      <4>1. b.when = "not authd" => ~authenticated
        BY <1>5 DEF Applies
      <4> QED BY <1>2, <1>4, <4>1 DEF Placed
    <3> QED BY <1>4, <1>5, <3>1, AnswerAssumption
  <2> QED BY <1>4, <1>5, <2>1, AnswersOnceFor
<1>10. Owes(g, resp_list', resp_err_list', sent', last_code')
  <2>1. Owes(g, resp_list, resp_err_list, sent, last_code)
    BY <1>1, <1>2, <1>7, <1>9, OwesCalled DEF SameCommand
  <2> QED BY <1>8, <2>1
<1>11. TodoPlaced(g.todo, authenticated')
  <2> SUFFICES ASSUME NEW c \in Range(b.calls)
               PROVE  /\ c.op = "poll" => authenticated
                      /\ Dispatches(c) => c.arg \in InnerCommands /\ c.arg \in EarlyReach
    BY <1>7, <1>8 DEF TodoPlaced
  <2>1. c.op = "poll" => authenticated
    BY <1>4, <1>5, AnswerAssumption
  <2>2. c \in UNION {Range(q.calls) : q \in UNION {Table[i].does : i \in DOMAIN Table}}
    BY <1>4, <1>5
  <2>3. Dispatches(c) => c.arg \in InnerCommands /\ c.arg \in EarlyReach
    BY <2>2 DEF Dispatches, InnerCommands, EarlyReach
  <2> QED BY <2>1, <2>3
<1>12. SendsOnlyTo(top.client)
  BY <1>2, <1>8, NoLine
<1>13. authenticated' \in BOOLEAN /\ (authenticated => authenticated') /\ resp_pool' # NULL
  BY <1>2, <1>8
<1>14. \A r \in Range(resp_list') \cup Range(resp_err_list') : r.by = top.client
  BY <1>2, <1>8
<1> QED BY <1>1, <1>7, <1>8, <1>10, <1>11, <1>12, <1>13, <1>14, SetTopAnswer

(* A message of the dispatcher, in the list of the errors. *)
LEMMA Message ==
    ASSUME stack # <<>>, resp_pool # NULL, NEW num \in Codes("err"), pr_response_add_err(num),
           resp_err_list = <<>>
    PROVE  /\ DOMAIN Response(num) = {"num", "by", "pool"} /\ Response(num).num = num
           /\ resp_err_list' = Insert(<<>>, Response(num)) /\ last_code' = num
           /\ resp_list' = resp_list /\ resp_pool' = resp_pool /\ sent' = sent
           /\ \A r \in Range(resp_err_list') : r.by = top.client
<1>1. PICK r : r = Response(num)
  OBVIOUS
<1>2. DOMAIN r = {"num", "by", "pool"} /\ r.num = num /\ r.by = top.client
  BY <1>1 DEF Response
<1>3. num # R_DUP
  BY CodesAre
<1>4. /\ resp_err_list' = Insert(<<>>, r) /\ last_code' = num
      /\ resp_list' = resp_list /\ resp_pool' = resp_pool /\ sent' = sent
  BY <1>1, <1>3 DEF pr_response_add_err
<1>5. \A i \in DOMAIN Insert(<<>>, r) : Insert(<<>>, r)[i].by = r.by
  BY <1>2, InsertResponses, NoResponses
<1>6. \A q \in Range(resp_err_list') : q.by = top.client
  BY <1>2, <1>4, <1>5 DEF Range
<1> QED BY <1>1, <1>2, <1>4, <1>6

(* The command goes on in the state g, and the lists are as they were or   *)
(* hold the message of the dispatcher.                                     *)
LEMMA GoesOnAnswer ==
    ASSUME IInv, AnswerInv, stack # <<>>, NEW g, GoodFrame(g), SameCommand(top, g), g.todo = <<>>,
           stack' = SetTop(g), UNCHANGED <<flags, nread, done>>,
           Owes(g, resp_list', resp_err_list', sent', last_code'),
           sent' = sent, resp_pool' = resp_pool, resp_list' = resp_list,
           resp_err_list' = resp_err_list \/ \A r \in Range(resp_err_list') : r.by = top.client
    PROVE  AnswerInv'
<1>1. /\ LinesSent /\ authenticated \in BOOLEAN /\ nread \in Nat /\ resp_pool # NULL
      /\ \A r \in Range(resp_list) \cup Range(resp_err_list) : r.by = top.client
  BY TopAnswer
<1>2. /\ authenticated' = authenticated /\ nread' = nread /\ done' = done
  BY DEF flags
<1>3. SendsOnlyTo(top.client)
  BY <1>1, <1>2, NoLine
<1>4. TodoPlaced(g.todo, authenticated')
  BY PlacedNothing
<1>5. \A r \in Range(resp_list') \cup Range(resp_err_list') : r.by = top.client
  BY <1>1
<1>6. authenticated' \in BOOLEAN /\ (authenticated => authenticated') /\ resp_pool' # NULL
  BY <1>1, <1>2
<1> QED BY <1>2, <1>3, <1>4, <1>5, <1>6, SetTopAnswer

LEMMA NoHandlerLeftAnswer ==
    ASSUME IInv, AnswerInv, NoHandlerLeft PROVE AnswerInv'
<1>1. stack # <<>> /\ top.phase # "END" /\ top.returns = "NONE" /\ NextRow(top) = 0
  BY DEF NoHandlerLeft, Running
<1>2. /\ GoodFrame(top) /\ Owes(top, resp_list, resp_err_list, sent, last_code)
      /\ resp_pool # NULL
  BY <1>1, TopAnswer
<1>3. top.todo = <<>> /\ top.num = R_DUP
  <2>1. Decides(top.phase, top.returns) = "no"
    BY <1>1 DEF Decides
  <2> QED BY <1>1, <1>2, <2>1 DEF Owes, MaySay, GoodFrame, EndsIdle, Running
<1>4. ASSUME NEW res \in {-1, 0, 1}
      PROVE  /\ Decided(Advance(top, res)) =
                   IF top.phase \in {"PRE_CMD", "CMD"}
                   THEN IF res = -1 THEN "err"
                        ELSE IF top.phase = "CMD" /\ res = 1 THEN "add" ELSE "no"
                   ELSE Decided(top)
             /\ Advance(top, res).returns = "NONE" /\ Advance(top, res).todo = <<>>
             /\ Advance(top, res).num = R_DUP /\ SameCommand(top, Advance(top, res))
             /\ GoodFrame(Advance(top, res))
  <2>1. IsLog(top.phase) /\ top.scope = "ANY" =>
              \A i \in DOMAIN Table :
                 Table[i].cmd = ANY /\ Table[i].phase = top.phase => i \in top.logged
    BY <1>1, <1>2, AllLogged
  <2> QED BY <1>1, <1>2, <2>1, AdvanceDecided
<1>5. UNCHANGED <<flags, nread, done>>
  BY DEF NoHandlerLeft
<1>6. CASE top.phase = "CMD" /\ top.scope = "OWN"
  <2>1. PICK g : g = Advance(top, -1)
    OBVIOUS
  <2>2. /\ Decided(g) = "err" /\ g.returns = "NONE" /\ g.todo = <<>> /\ g.num = R_DUP
        /\ SameCommand(top, g) /\ GoodFrame(g)
    BY <1>4, <1>6, <2>1
  <2>3. stack' = SetTop(g) /\ pr_response_add_err(500) /\ 500 \in Codes("err")
    BY <1>6, <2>1, CodesAre DEF NoHandlerLeft
  <2>4. /\ FinalLines(sent, top.client) = {} /\ resp_err_list = <<>>
        /\ top.cmd \in InnerCommands => resp_list = <<>>
    BY <1>1, <1>2, <1>6, NothingSaid
  <2>5. PICK r : r = Response(500)
    OBVIOUS
  <2>6. /\ DOMAIN r = {"num", "by", "pool"} /\ r.num = 500
        /\ resp_err_list' = Insert(<<>>, r) /\ last_code' = 500
        /\ resp_list' = resp_list /\ resp_pool' = resp_pool /\ sent' = sent
        /\ \A q \in Range(resp_err_list') : q.by = top.client
    BY <1>1, <1>2, <2>3, <2>4, <2>5, Message
  <2>7. FinalLines(sent, g.client) = {} /\ (g.cmd \in InnerCommands => resp_list = <<>>)
    BY <2>2, <2>4 DEF SameCommand
  <2>8. Owes(g, resp_list, Insert(<<>>, r), sent, r.num)
    <3>1. r.num \in Codes("err")
      BY <2>3, <2>6
    <3> QED BY <2>2, <2>6, <2>7, <3>1, OwesFailed
  <2>9. Owes(g, resp_list', resp_err_list', sent', last_code')
    BY <2>6, <2>8
  <2> QED BY <1>1, <1>5, <2>2, <2>3, <2>6, <2>9, GoesOnAnswer
<1>7. CASE ~(top.phase = "CMD" /\ top.scope = "OWN")
  <2>1. PICK g : g = Advance(top, 0)
    OBVIOUS
  <2>2. Decided(g) = Decided(top)
    <3>1. CASE top.phase \in {"PRE_CMD", "CMD"}
      <4>1. Decided(top) = "no"
        BY <1>1, <1>2, <3>1, NothingSaid
      <4> QED BY <1>4, <2>1, <3>1, <4>1
    <3>2. CASE top.phase \notin {"PRE_CMD", "CMD"}
      BY <1>4, <2>1, <3>2
    <3> QED BY <3>1, <3>2
  <2>3. /\ g.returns = "NONE" /\ g.todo = <<>> /\ g.num = R_DUP
        /\ SameCommand(top, g) /\ GoodFrame(g) /\ g.cmd = top.cmd /\ g.client = top.client
    BY <1>4, <2>1 DEF SameCommand
  <2>4. /\ stack' = SetTop(g) /\ sent' = sent /\ last_code' = last_code
        /\ resp_list' = resp_list /\ resp_err_list' = resp_err_list /\ resp_pool' = resp_pool
    BY <1>7, <2>1 DEF NoHandlerLeft, lists
  <2>5. Owes(g, resp_list, resp_err_list, sent, last_code)
    BY <1>2, <1>3, <2>2, <2>3, OwesIdle
  <2>6. Owes(g, resp_list', resp_err_list', sent', last_code')
    BY <2>4, <2>5
  <2> QED BY <1>1, <1>5, <2>3, <2>4, <2>6, GoesOnAnswer
<1> QED BY <1>6, <1>7

LEMMA HandlerReturnsAnswer ==
    ASSUME IInv, AnswerInv, HandlerReturns PROVE AnswerInv'
<1>1. stack # <<>> /\ Running(top) /\ top.todo = <<>>
  BY DEF HandlerReturns
<1>2. /\ GoodFrame(top) /\ Owes(top, resp_list, resp_err_list, sent, last_code)
      /\ resp_pool # NULL /\ top.phase # "END" /\ Range(top.todo) = {}
      /\ top.returns \in {"HANDLED", "DECLINED", "ERROR"}
  BY <1>1, TopAnswer, NoCalls DEF GoodFrame, EndsIdle, Framed, Running
<1>3. /\ Result(top) \in {-1, 0, 1}
      /\ IsLog(top.phase) /\ top.scope = "ANY" => Result(top) = 0
      /\ Result(top) = -1 => top.returns = "ERROR"
      /\ Result(top) = 1 => top.returns = "HANDLED"
      /\ top.returns = "ERROR" /\ ~IsLog(top.phase) => Result(top) = -1
      /\ IsLog(top.phase) => Result(top) # -1
  BY <1>1, <1>2, ResultIs
<1>4. PICK g : /\ stack' = SetTop(g)
               /\ g = IF Result(top) = 0 THEN [top EXCEPT !.returns = "NONE", !.num = R_DUP]
                      ELSE Advance(top, Result(top))
  BY DEF HandlerReturns
<1>5. /\ g.returns = "NONE" /\ g.todo = <<>> /\ g.num = R_DUP
      /\ SameCommand(top, g) /\ GoodFrame(g) /\ Decided(g) = Decided(top)
  <2>1. CASE Result(top) = 0
    <3>1. /\ GoodFrame(g) /\ SameCommand(top, g) /\ g.returns = "NONE"
          /\ g.todo = top.todo /\ g.phase = top.phase /\ g.failed = top.failed /\ g.num = R_DUP
      BY <1>1, <1>2, <1>4, <2>1, KeepLookingGood
    <3>2. top.phase \in {"PRE_CMD", "CMD"} => top.returns = "DECLINED"
      <4>1. top.returns = "HANDLED" => Result(top) = 1
        BY DEF Result
      <4> QED BY <1>2, <1>3, <2>1, <4>1 DEF IsLog
    <3> QED BY <1>1, <3>1, <3>2 DEF Decided, Decides
  <2>2. CASE Result(top) # 0
    <3>1. PICK res : res = Result(top)
      OBVIOUS
    <3>2. g = Advance(top, res) /\ res \in {-1, 1} /\ ~(IsLog(top.phase) /\ top.scope = "ANY")
      BY <1>3, <1>4, <2>2, <3>1
    <3>3. /\ g.returns = "NONE" /\ g.todo = <<>> /\ g.num = R_DUP
          /\ SameCommand(top, g) /\ GoodFrame(g)
          /\ Decided(g) = IF top.phase \in {"PRE_CMD", "CMD"}
                          THEN IF res = -1 THEN "err"
                               ELSE IF top.phase = "CMD" /\ res = 1 THEN "add" ELSE "no"
                          ELSE Decided(top)
      BY <1>2, <3>2, AdvanceDecided
    <3>4. CASE top.phase \in {"PRE_CMD", "CMD"}
      <4>1. top.failed = "NO"
        BY <1>2, <3>4 DEF GoodFrame, PhaseOfOutcome
      <4>2. (res = -1 => top.returns = "ERROR") /\ (res = 1 => top.returns = "HANDLED")
        BY <1>3, <3>1
      <4> QED BY <3>2, <3>3, <3>4, <4>1, <4>2 DEF Decided, Decides
    <3> QED BY <3>3, <3>4
  <2> QED BY <2>1, <2>2
<1>6. g.cmd = top.cmd /\ g.client = top.client /\ UNCHANGED <<flags, nread, done>>
  BY <1>5 DEF SameCommand, HandlerReturns
<1>7. CASE top.num = R_DUP
  <2>1. /\ stack' = SetTop(g) /\ sent' = sent /\ last_code' = last_code
        /\ resp_list' = resp_list /\ resp_err_list' = resp_err_list /\ resp_pool' = resp_pool
    BY <1>4, <1>7 DEF HandlerReturns, lists
  <2>2. Owes(g, resp_list, resp_err_list, sent, last_code)
    BY <1>1, <1>2, <1>5, <1>6, <1>7, OwesIdle
  <2>3. Owes(g, resp_list', resp_err_list', sent', last_code')
    BY <2>1, <2>2
  <2> QED BY <1>1, <1>5, <1>6, <2>1, <2>3, GoesOnAnswer
<1>8. CASE top.num # R_DUP
  <2>1. Decides(top.phase, top.returns) = "err"
    BY <1>2, <1>8 DEF Owes, MaySay, Decides
  <2>2. top.phase \in {"PRE_CMD", "CMD"} /\ top.returns = "ERROR" /\ Decided(top) = "err"
    BY <1>2, <2>1, DecidedIs DEF Decides
  <2>3. PICK c \in Codes("err") :
           Answering(top.cmd, resp_err_list, Range(top.todo), "err", top.num, sent, top.client,
                     last_code, c)
    BY <1>2, <1>8, <2>2 DEF Owes, Silent
  <2>4. resp_err_list = <<>> /\ top.num = c /\ FinalLines(sent, top.client) = {}
    BY <1>8, <2>3 DEF Answering, OneAnswer, GathersNone
  <2>5. top.cmd \in InnerCommands => resp_list = <<>>
    BY <1>2, <2>2 DEF Owes
  <2>6. pr_response_add_err(c)
    BY <1>8, <2>2, <2>4 DEF HandlerReturns, SendsError
  <2>7. PICK r : r = Response(c)
    OBVIOUS
  <2>8. /\ DOMAIN r = {"num", "by", "pool"} /\ r.num = c
        /\ resp_err_list' = Insert(<<>>, r) /\ last_code' = c
        /\ resp_list' = resp_list /\ resp_pool' = resp_pool /\ sent' = sent
        /\ \A q \in Range(resp_err_list') : q.by = top.client
    BY <1>1, <1>2, <2>4, <2>6, <2>7, Message
  <2>9. Owes(g, resp_list, Insert(<<>>, r), sent, r.num)
    BY <1>5, <1>6, <2>2, <2>3, <2>4, <2>5, <2>8, OwesFailed
  <2>10. Owes(g, resp_list', resp_err_list', sent', last_code')
    BY <2>8, <2>9
  <2> QED BY <1>1, <1>4, <1>5, <1>6, <2>8, <2>10, GoesOnAnswer
<1> QED BY <1>7, <1>8

(* The responses after one has been added are of the same command.         *)
LEMMA InsertBy ==
    ASSUME NEW list, Responses(list), NEW r, DOMAIN r = {"num", "by", "pool"}, NEW id, r.by = id,
           \A q \in Range(list) : q.by = id
    PROVE  \A q \in Range(Insert(list, r)) : q.by = id
<1>1. \A i \in DOMAIN Insert(list, r) : Insert(list, r)[i].by = id
  BY InsertResponses DEF Range
<1> QED BY <1>1 DEF Range

(* The calls of a handler. *)
LEMMA CallAnswer ==
    ASSUME IInv, AnswerInv,
           \/ HandlerAdds \/ HandlerAddsErr \/ HandlerSends \/ pr_data_abort
           \/ SetsFlag \/ TransferEnds
    PROVE  AnswerInv'
<1>1. PICK op : Calls(op)
  BY DEF HandlerAdds, HandlerAddsErr, HandlerSends, pr_data_abort, SetsFlag, TransferEnds
<1>2. PICK g, h : g = CallMade /\ h = Head(top.todo)
  OBVIOUS
<1>3. /\ stack # <<>> /\ GoodFrame(top) /\ top.todo # <<>> /\ GoodFrame(g)
      /\ SameCommand(top, g) /\ SameState(top, g) /\ g.todo = Tail(top.todo)
  BY <1>1, <1>2, CallMadeIs DEF SameCommand, SameState
<1>4. /\ Owes(top, resp_list, resp_err_list, sent, last_code)
      /\ TodoPlaced(top.todo, authenticated) /\ top.client \in 1..nread
      /\ resp_pool # NULL /\ LinesSent /\ authenticated \in BOOLEAN /\ nread \in Nat
      /\ \A r \in Range(resp_list) \cup Range(resp_err_list) : r.by = top.client
      /\ Responses(resp_list) /\ Responses(resp_err_list)
  BY <1>3, TopAnswer
<1>5. /\ stack' = SetTop(g) /\ nread' = nread /\ done' = done
  BY <1>2 DEF HandlerAdds, HandlerAddsErr, HandlerSends, pr_data_abort, SetsFlag, TransferEnds
<1>6. authenticated' \in BOOLEAN /\ (authenticated => authenticated')
  <2>1. CASE SetsFlag
    <3>1. (authenticated' = TRUE) \/ (authenticated' = authenticated)
      BY <2>1, Zenon DEF SetsFlag
    <3> QED BY <1>4, <3>1
  <2>2. CASE HandlerAdds \/ HandlerAddsErr \/ HandlerSends \/ pr_data_abort \/ TransferEnds
    <3>1. authenticated' = authenticated
      BY <2>2 DEF HandlerAdds, HandlerAddsErr, HandlerSends, pr_data_abort, TransferEnds, flags
    <3> QED BY <1>4, <3>1
  <2> QED BY <2>1, <2>2
<1>7. /\ TodoPlaced(g.todo, authenticated') /\ IsList(top.todo)
      /\ Orderly(top.todo)
  <2>1. IsList(top.todo) /\ Orderly(top.todo)
    BY <1>3, <1>4 DEF GoodFrame, Framed, Owes, MaySay
  <2>2. \A c \in Range(g.todo) : c \in Range(top.todo)
    BY <1>3, <2>1, RestOfCalls
  <2> QED BY <1>4, <1>6, <2>1, <2>2 DEF TodoPlaced
<1>8. h.op \in {"add", "err", "send"} => h.arg \in Nat
  BY <1>2, <1>3, <1>7, RestOfCalls
<1>9. CASE HandlerAdds
  <2>1. PICK r : r = Response(h.arg)
    OBVIOUS
  <2>2. h.op = "add" /\ DOMAIN r = {"num", "by", "pool"} /\ r.num = h.arg /\ r.by = top.client
    BY <1>2, <1>9, <2>1 DEF HandlerAdds, Calls, Response
  <2>3. /\ resp_list' = Insert(resp_list, r) /\ resp_err_list' = resp_err_list
        /\ last_code' = IF r.num = R_DUP THEN last_code ELSE r.num
        /\ resp_pool' = resp_pool /\ sent' = sent
    BY <1>2, <1>4, <1>9, <2>1, <2>2 DEF HandlerAdds, Arg, pr_response_add
  <2>4. Owes(g, resp_list', resp_err_list', sent', last_code')
    <3>1. Owes(g, Insert(resp_list, r), resp_err_list, sent, IF r.num = R_DUP THEN last_code ELSE r.num)
      BY <1>2, <1>3, <1>4, <2>2, OwesAdded
    <3> QED BY <2>3, <3>1
  <2>5. \A q \in Range(resp_list') \cup Range(resp_err_list') : q.by = top.client
    BY <1>4, <2>2, <2>3, InsertBy
  <2>6. SendsOnlyTo(top.client) /\ resp_pool' # NULL
    BY <1>4, <1>5, <2>3, NoLine
  <2> QED BY <1>3, <1>5, <1>6, <1>7, <2>4, <2>5, <2>6, SetTopAnswer
<1>10. CASE HandlerAddsErr
  <2>1. PICK r : r = Response(h.arg)
    OBVIOUS
  <2>2. h.op = "err" /\ DOMAIN r = {"num", "by", "pool"} /\ r.num = h.arg /\ r.by = top.client
    BY <1>2, <1>10, <2>1 DEF HandlerAddsErr, Calls, Response
  <2>3. /\ resp_err_list' = Insert(resp_err_list, r) /\ resp_list' = resp_list
        /\ last_code' = IF r.num = R_DUP THEN last_code ELSE r.num
        /\ resp_pool' = resp_pool /\ sent' = sent
    BY <1>2, <1>4, <1>10, <2>1, <2>2 DEF HandlerAddsErr, Arg, pr_response_add_err
  <2>4. Owes(g, resp_list', resp_err_list', sent', last_code')
    <3>1. Owes(g, resp_list, Insert(resp_err_list, r), sent, IF r.num = R_DUP THEN last_code ELSE r.num)
      BY <1>2, <1>3, <1>4, <2>2, OwesAddedErr
    <3> QED BY <2>3, <3>1
  <2>5. \A q \in Range(resp_list') \cup Range(resp_err_list') : q.by = top.client
    BY <1>4, <2>2, <2>3, InsertBy
  <2>6. SendsOnlyTo(top.client) /\ resp_pool' # NULL
    BY <1>4, <1>5, <2>3, NoLine
  <2> QED BY <1>3, <1>5, <1>6, <1>7, <2>4, <2>5, <2>6, SetTopAnswer
<1>11. CASE HandlerSends
  <2>1. PICK e : e = OwnLine(h.arg, top.client)
    OBVIOUS
  <2>2. e.as = h.arg /\ e.ends = TRUE /\ e.to = top.client /\ h.op = "send" /\ h.arg \in Nat
    BY <1>2, <1>8, <1>11, <2>1 DEF OwnLine, Line, HandlerSends, Calls
  <2>3. /\ resp_err_list' = resp_err_list /\ resp_list' = resp_list /\ last_code' = h.arg
        /\ resp_pool' = resp_pool /\ sent' = Append(sent, e)
    BY <1>2, <1>4, <1>11, <2>1 DEF HandlerSends, Arg, pr_response_send, OwnLine
  <2>4. Owes(g, resp_list', resp_err_list', sent', last_code')
    <3>1. IsList(sent)
      BY <1>4 DEF LinesSent
    <3>2. Owes(g, resp_list, resp_err_list, Append(sent, e), e.as)
      BY <1>2, <1>3, <1>4, <2>2, <3>1, OwesSent
    <3> QED BY <2>2, <2>3, <3>2
  <2>5. SendsOnlyTo(top.client)
    <3>1. top.client \in 1..nread' /\ nread' \in Nat /\ nread <= nread'
      BY <1>4, <1>5
    <3> QED BY <1>4, <2>1, <2>2, <2>3, <3>1, OneLine
  <2>6. resp_pool' # NULL /\ \A q \in Range(resp_list') \cup Range(resp_err_list') : q.by = top.client
    BY <1>4, <2>3
  <2> QED BY <1>3, <1>5, <1>6, <1>7, <2>4, <2>5, <2>6, SetTopAnswer
<1>12. CASE pr_data_abort \/ SetsFlag \/ TransferEnds
  <2>1. h.op \in {"pool", "authd", "login", "rnfr", "poll"}
    BY <1>2, <1>12 DEF pr_data_abort, SetsFlag, TransferEnds, Calls
  <2>2. h.op \notin {"add", "err"} /\ ~Concludes(h)
    BY <2>1 DEF Concludes, Dispatches
  <2>3. /\ resp_err_list' = resp_err_list /\ resp_list' = resp_list /\ last_code' = last_code
        /\ sent' = sent /\ (resp_pool' = resp_pool \/ resp_pool' = SESSION)
    BY <1>12 DEF pr_data_abort, SetsFlag, TransferEnds, lists
  <2>4. Owes(g, resp_list', resp_err_list', sent', last_code')
    <3>1. Owes(g, resp_list, resp_err_list, sent, last_code)
      BY <1>2, <1>3, <1>4, <2>2, OwesRest
    <3> QED BY <2>3, <3>1
  <2>5. resp_pool' # NULL
    <3>1. NULL \notin Nat
      BY AnswerAssumption
    <3>2. SESSION \in Nat
      BY DEF SESSION
    <3> QED BY <1>4, <2>3, <3>1, <3>2
  <2>6. SendsOnlyTo(top.client) /\ \A q \in Range(resp_list') \cup Range(resp_err_list') : q.by = top.client
    BY <1>4, <1>5, <2>3, NoLine
  <2> QED BY <1>3, <1>5, <1>6, <1>7, <2>4, <2>5, <2>6, SetTopAnswer
<1> QED BY <1>9, <1>10, <1>11, <1>12

(* A command that waits has said nothing. *)
LEMMA WaitsFresh ==
    ASSUME IInv, AnswerInv, stack # <<>>, Waits(top)
    PROVE  /\ resp_list = <<>> /\ resp_err_list = <<>> /\ FinalLines(sent, top.client) = {}
           /\ Owes(top, <<>>, <<>>, <<>>, NULL) /\ Settled(top, <<>>, <<>>, NULL)
           /\ Head(top.todo) \in Range(top.todo)
<1>1. GoodFrame(top) /\ Owes(top, resp_list, resp_err_list, sent, last_code)
  BY TopAnswer
<1>2. top.todo # <<>> /\ Interrupts(Head(top.todo)) /\ IsList(top.todo)
  BY <1>1 DEF Waits, Interrupts, Dispatches, GoodFrame, Framed
<1>3. Head(top.todo) \in Range(top.todo)
  BY <1>2, RestOfCalls
<1>4. resp_list = <<>> /\ resp_err_list = <<>> /\ FinalLines(sent, top.client) = {}
  BY <1>1, <1>2, <1>3 DEF Owes
<1>5. Owes(top, <<>>, <<>>, <<>>, NULL) /\ Settled(top, <<>>, <<>>, NULL)
  <2>1. Settled(top, resp_err_list, sent, last_code)
    BY <1>1, <1>2, <1>3, InterruptsSettled
  <2> QED BY <1>1, <1>4, <2>1, OwesFresh, NoFinalLines
<1> QED BY <1>3, <1>4, <1>5

(* A command dispatched within another. *)
LEMMA BeginAnswer ==
    ASSUME IInv, AnswerInv, stack # <<>>, Waits(top), NEW c, NEW client, Begin(c, client, stack),
           UNCHANGED <<flags, sent, done>>, c \in InnerCommands, c \in EarlyReach \/ authenticated,
           \/ client = top.client /\ nread' = nread /\ Head(top.todo).op # "poll"
           \/ client = nread + 1 /\ nread' = nread + 1 /\ Head(top.todo).op = "poll"
    PROVE  AnswerInv'
<1>1. PICK n, g : n = Len(stack) /\ g = NewFrame(c, client, resp_pool)
  OBVIOUS
<1>2. n \in Nat /\ n > 0 /\ DOMAIN stack = 1..n /\ GoodStack(stack) /\ top = stack[n] /\ n \in 1..n
  BY <1>1, TopOfStack DEF IInv, top
<1>3. /\ GoodFrame(g) /\ g.cmd = c /\ g.client = client /\ g.saved = resp_pool
      /\ g.todo = <<>> /\ g.phase = "PRE_CMD" /\ g.returns = "NONE"
      /\ g.num = R_DUP /\ g.failed = "NO"
  BY <1>1, NewFrameGood
<1>4. /\ stack' # <<>> /\ DOMAIN stack' = 1..(n + 1) /\ Len(stack') = n + 1
      /\ stack'[n + 1] = g /\ \A i \in 1..n : stack'[i] = stack[i]
  BY <1>1, <1>2, <1>3, StackPushed DEF Begin, top
<1>5. /\ authenticated' = authenticated /\ sent' = sent /\ done' = done
      /\ resp_list' = <<>> /\ resp_err_list' = <<>> /\ last_code' = NULL /\ resp_pool' = client
  BY DEF flags, Begin
<1>6. /\ nread \in Nat /\ nread' \in Nat /\ nread <= nread' /\ top.client \in 1..nread
      /\ client \in 1..nread' /\ top.client <= client
      /\ resp_pool # NULL /\ LinesSent /\ authenticated \in BOOLEAN
  <2>1. nread \in Nat /\ top.client \in 1..nread /\ LinesSent /\ authenticated \in BOOLEAN /\ resp_pool # NULL
    BY TopAnswer
  <2> QED BY <2>1
<1>7. /\ FinalLines(sent, top.client) = {} /\ Owes(top, <<>>, <<>>, <<>>, NULL)
  BY WaitsFresh
<1>8. FinalLines(sent, client) = {}
  <2>1. CASE client = top.client
    BY <1>7, <2>1
  <2>2. CASE client = nread + 1
    <3>1. \A i \in DOMAIN sent : sent[i].to # client
      BY <1>6, <2>2 DEF LinesSent
    <3> QED BY <3>1 DEF FinalLines
  <2> QED BY <2>1, <2>2
<1>9. SendsOnlyTo(client)
  BY <1>5, <1>6, NoLine
<1>10. Nested'
  <2> SUFFICES ASSUME NEW i \in 1..(n + 1), NEW j \in 1..(n + 1), i < j
               PROVE  /\ Owes(stack'[i], <<>>, <<>>, <<>>, NULL)
                      /\ stack'[i].client <= stack'[j].client
                      /\ Head(stack'[i].todo).op = "poll" =>
                            /\ stack'[i].client < stack'[j].client
                            /\ FinalLines(sent, stack'[i].client) = {}
                      /\ Head(stack'[i].todo).op # "poll" /\ j = i + 1 =>
                            stack'[j].client = stack'[i].client
    BY <1>4, <1>5 DEF Nested
  <2>1. i \in 1..n /\ stack'[i] = stack[i] /\ (j = n + 1 \/ j \in 1..n)
    BY <1>2, <1>4
  <2>2. \A k \in 1..n : i < k =>
           /\ Owes(stack[i], <<>>, <<>>, <<>>, NULL)
           /\ stack[i].client <= stack[k].client
           /\ Head(stack[i].todo).op = "poll" =>
                 /\ stack[i].client < stack[k].client
                 /\ FinalLines(sent, stack[i].client) = {}
           /\ Head(stack[i].todo).op # "poll" /\ k = i + 1 => stack[k].client = stack[i].client
    BY <1>2, <2>1 DEF AnswerInv, Nested
  <2>3. CASE j \in 1..n
    BY <1>4, <2>1, <2>2, <2>3
  <2>4. CASE j = n + 1 /\ i = n
    <3>1. stack'[i] = top /\ stack'[j] = g
      BY <1>2, <1>4, <2>1, <2>4
    <3>2. (Head(top.todo).op = "poll" => top.client < client)
          /\ (Head(top.todo).op # "poll" => client = top.client)
      BY <1>6
    <3> QED BY <1>3, <1>6, <1>7, <3>1, <3>2
  <2>5. CASE j = n + 1 /\ i # n
    <3>1. stack'[j] = g /\ i < n /\ j # i + 1 /\ top = stack[n] /\ n \in 1..n
      BY <1>2, <1>4, <2>1, <2>5
    <3>2. /\ Owes(stack[i], <<>>, <<>>, <<>>, NULL)
          /\ stack[i].client <= top.client
          /\ Head(stack[i].todo).op = "poll" =>
                /\ stack[i].client < top.client
                /\ FinalLines(sent, stack[i].client) = {}
      BY <2>2, <3>1
    <3>3. stack[i].client \in Nat /\ top.client \in Nat /\ client \in Nat
      BY <1>2, <1>6, <2>1 DEF AnswerInv, Placed
    <3> QED BY <1>3, <1>6, <2>1, <3>1, <3>2, <3>3
  <2> QED BY <2>1, <2>3, <2>4, <2>5
<1>11. Over'
  <2> SUFFICES ASSUME NEW d \in done
               PROVE  d.id \in 1..nread' /\ \A i \in 1..(n + 1) : stack'[i].client # d.id
    BY <1>4, <1>5 DEF Over
  <2>1. d.id \in 1..nread /\ \A i \in 1..n : stack[i].client # d.id
    BY <1>2 DEF AnswerInv, Over
  <2>2. client # d.id /\ d.id \in 1..nread'
    BY <1>2, <1>6, <2>1
  <2>3. \A i \in 1..(n + 1) : i \in 1..n \/ i = n + 1
    BY <1>2
  <2> QED BY <1>3, <1>4, <2>1, <2>2, <2>3
<1>12. OneReply'
  BY <1>5 DEF AnswerInv, OneReply
<1>13. ASSUME NEW i \in 1..(n + 1)
       PROVE  Placed(stack[i])' /\ (i # 1 => stack'[i].cmd \in InnerCommands /\ stack'[i].saved # NULL)
  <2>1. CASE i = n + 1
    <3>1. TodoPlaced(g.todo, authenticated)
      BY <1>3, PlacedNothing
    <3> QED BY <1>3, <1>4, <1>5, <1>6, <2>1, <3>1 DEF Placed, TodoPlaced
  <2>2. CASE i \in 1..n
    <3>1. Placed(stack[i]) /\ (i # 1 => stack[i].cmd \in InnerCommands /\ stack[i].saved # NULL)
      BY <1>2, <2>2 DEF AnswerInv
    <3>2. stack[i].client \in 1..nread'
      BY <1>6, <3>1 DEF Placed
    <3> QED BY <1>4, <1>5, <2>2, <3>1, <3>2 DEF Placed
  <2> QED BY <1>2, <2>1, <2>2
<1>14. top' = g
  BY <1>4 DEF top
<1>15. Owes(g, <<>>, <<>>, sent, NULL)
  BY <1>3, <1>8, OwesBegun, UnansweredAre DEF Unspoken
<1>16. Owes(top, resp_list, resp_err_list, sent, last_code)'
  BY <1>5, <1>14, <1>15
<1>17. resp_pool' # NULL
  <2>1. NULL \notin Nat
    BY AnswerAssumption
  <2>2. client \in Nat
    BY <1>6
  <2> QED BY <1>5, <2>1, <2>2
<1>18. \A r \in (Range(resp_list) \cup Range(resp_err_list))' : r.by = top'.client
  BY <1>5, NoCalls
<1>19. LinesSent' /\ (authenticated \in BOOLEAN)'
  BY <1>5, <1>6, <1>9 DEF SendsOnlyTo
<1> QED BY <1>4, <1>10, <1>11, <1>12, <1>13, <1>16, <1>17, <1>18, <1>19 DEF AnswerInv

LEMMA DispatchSubAnswer ==
    ASSUME IInv, AnswerInv, DispatchSub PROVE AnswerInv'
<1>1. PICK op \in {"sub", "subres"} : Calls(op)
  BY DEF DispatchSub
<1>2. stack # <<>> /\ Waits(top) /\ Dispatches(Head(top.todo)) /\ Head(top.todo).op # "poll"
  BY <1>1 DEF Calls, Waits, Dispatches
<1>3. /\ Begin(Arg, top.client, stack) /\ UNCHANGED <<flags, sent, done>> /\ nread' = nread
  BY DEF DispatchSub
<1>4. Arg \in InnerCommands /\ Arg \in EarlyReach
  <2>1. Head(top.todo) \in Range(top.todo) /\ TodoPlaced(top.todo, authenticated)
    BY <1>2, WaitsFresh, TopAnswer
  <2> QED BY <1>2, <2>1 DEF TodoPlaced, Arg
<1> QED BY <1>2, <1>3, <1>4, BeginAnswer

(* A command that poll_ctrl answers itself, with one line. *)
LEMMA PolledAnswer ==
    ASSUME IInv, AnswerInv, CanPoll, NEW num \in Nat, num >= 200, NEW c,
           sent' = Append(sent, OwnLine(num, nread + 1)), nread' = nread + 1,
           done' = done \cup {[id |-> nread + 1, cmd |-> c, log |-> "NO"]},
           UNCHANGED <<flags, stack, resp_pool>>,
           resp_list' \in {<<>>, resp_list}, resp_err_list' \in {<<>>, resp_err_list}
    PROVE  AnswerInv'
<1>1. stack # <<>> /\ Waits(top)
  BY DEF CanPoll, Calls, Waits
<1>2. /\ resp_list = <<>> /\ resp_err_list = <<>> /\ FinalLines(sent, top.client) = {}
      /\ Owes(top, <<>>, <<>>, <<>>, NULL) /\ Settled(top, <<>>, <<>>, NULL)
  BY <1>1, WaitsFresh
<1>3. /\ top.client \in 1..nread /\ resp_pool # NULL /\ LinesSent
      /\ authenticated \in BOOLEAN /\ nread \in Nat
  BY <1>1, TopAnswer
<1>4. /\ authenticated' = authenticated /\ stack' = stack /\ top' = top
      /\ resp_list' = <<>> /\ resp_err_list' = <<>>
  BY <1>2 DEF flags, top
<1>5. nread' \in Nat /\ nread <= nread' /\ nread + 1 \in 1..nread' /\ \A k \in 1..nread : k # nread + 1 /\ k \in 1..nread'
  BY <1>3
<1>6. SendsOnlyTo(nread + 1)
  BY <1>3, <1>5, OneLine
<1>7. \A k \in 1..nread : FinalLines(sent', k) = FinalLines(sent, k)
  BY <1>5, <1>6 DEF SendsOnlyTo
<1>8. Nested'
  <2> SUFFICES ASSUME NEW i \in DOMAIN stack, NEW j \in DOMAIN stack, i < j
               PROVE  /\ Owes(stack[i], <<>>, <<>>, <<>>, NULL)
                      /\ stack[i].client <= stack[j].client
                      /\ Head(stack[i].todo).op = "poll" =>
                            /\ stack[i].client < stack[j].client
                            /\ FinalLines(sent', stack[i].client) = {}
                      /\ Head(stack[i].todo).op # "poll" /\ j = i + 1 =>
                            stack[j].client = stack[i].client
    BY <1>4 DEF Nested
  <2>1. stack[i].client \in 1..nread
    BY DEF AnswerInv, Placed
  <2>2. FinalLines(sent', stack[i].client) = FinalLines(sent, stack[i].client)
    BY <1>7, <2>1
  <2> QED BY <2>2 DEF AnswerInv, Nested
<1>9. \A i \in DOMAIN stack : stack[i].client \in 1..nread
  BY DEF AnswerInv, Placed
<1>10. Over'
  <2> SUFFICES ASSUME NEW d \in done'
               PROVE  d.id \in 1..nread' /\ \A i \in DOMAIN stack : stack[i].client # d.id
    BY <1>4 DEF Over
  <2>1. CASE d \in done
    BY <1>5, <2>1 DEF AnswerInv, Over
  <2>2. CASE d.id = nread + 1
    BY <1>5, <1>9, <2>2
  <2> QED BY <2>1, <2>2
<1>11. OneReply'
  <2> SUFFICES ASSUME NEW d \in done' PROVE Replied(sent', d)
    BY DEF OneReply, Replied
  <2>1. CASE d \in done
    <3>1. d.id # nread + 1
      BY <1>5, <2>1 DEF AnswerInv, Over
    <3> QED BY <1>6, <2>1, <3>1, StaysReplied DEF AnswerInv
  <2>2. CASE d.id = nread + 1
    <3>1. PICK e : e = OwnLine(num, nread + 1)
      OBVIOUS
    <3>2. e.to = nread + 1 /\ e.ends = TRUE /\ e.as = num
      BY <3>1 DEF OwnLine, Line
    <3>3. \A i \in DOMAIN sent : sent[i].to # nread + 1
      BY <1>5 DEF AnswerInv, LinesSent
    <3>4. FinalLines(sent, nread + 1) = {}
      BY <3>3 DEF FinalLines
    <3>5. /\ FinalLines(Append(sent, e), nread + 1)
                = FinalLines(sent, nread + 1) \cup
                     (IF e.to = nread + 1 /\ e.ends /\ e.as >= 200 THEN {Len(sent) + 1} ELSE {})
          /\ Len(sent) + 1 \in DOMAIN Append(sent, e)
      BY <1>3, SentLine DEF LinesSent
    <3>6. FinalLines(sent', nread + 1) = {Len(sent) + 1} /\ Len(sent) + 1 \in DOMAIN sent'
      BY <3>1, <3>2, <3>4, <3>5
    <3> QED BY <2>2, <3>6 DEF Replied
  <2> QED BY <2>1, <2>2
<1>12. ASSUME NEW i \in DOMAIN stack
       PROVE  Placed(stack[i])' /\ (i # 1 => stack[i].cmd \in InnerCommands /\ stack[i].saved # NULL)
  <2>1. Placed(stack[i]) /\ (i # 1 => stack[i].cmd \in InnerCommands /\ stack[i].saved # NULL)
    BY DEF AnswerInv
  <2>2. stack[i].client \in 1..nread'
    BY <1>5, <1>9
  <2> QED BY <1>4, <2>1, <2>2 DEF Placed
<1>13. Owes(top, resp_list, resp_err_list, sent, last_code)'
  <2>1. FinalLines(sent', top.client) = {} /\ FinalLines(<<>>, top.client) = {}
    BY <1>2, <1>3, <1>7, NoFinalLines
  <2>2. Owes(top, <<>>, <<>>, sent', last_code')
    BY <1>2, <2>1, OwesFresh
  <2> QED BY <1>4, <2>2
<1>14. \A r \in (Range(resp_list) \cup Range(resp_err_list))' : r.by = top'.client
  BY <1>4, NoCalls
<1>15. LinesSent' /\ (authenticated \in BOOLEAN)' /\ resp_pool' # NULL
  BY <1>3, <1>4, <1>6 DEF SendsOnlyTo
<1> QED BY <1>4, <1>8, <1>10, <1>11, <1>12, <1>13, <1>14, <1>15 DEF AnswerInv

LEMMA PollAnswer ==
    ASSUME IInv, AnswerInv,
           \/ \E c \in XferCommands : PollBusy(c) \/ PollNoop(c) \/ PollDispatch(c)
           \/ PollInvalid
    PROVE  AnswerInv'
<1>1. ASSUME NEW c, PollBusy(c) \/ PollNoop(c) PROVE AnswerInv'
  <2>1. PICK num \in {450, 200} : CanPoll /\ PollAnswers(c, num)
    BY <1>1 DEF PollBusy, PollNoop
  <2>2. /\ sent' = Append(sent, OwnLine(num, nread + 1)) /\ nread' = nread + 1
        /\ done' = done \cup {[id |-> nread + 1, cmd |-> c, log |-> "NO"]}
        /\ UNCHANGED <<flags, stack, resp_pool>>
        /\ resp_list' \in {<<>>, resp_list} /\ resp_err_list' \in {<<>>, resp_err_list}
    BY <2>1 DEF PollAnswers, OwnLine
  <2>3. num \in Nat /\ num >= 200
    BY <2>1
  <2> QED BY <2>1, <2>2, <2>3, PolledAnswer
<1>2. ASSUME NEW c \in XferCommands, PollDispatch(c) PROVE AnswerInv'
  <2>1. stack # <<>> /\ Waits(top) /\ Head(top.todo).op = "poll"
    BY <1>2 DEF Calls, Waits, PollDispatch, CanPoll
  <2>2. /\ Begin(c, nread + 1, stack) /\ UNCHANGED <<flags, sent, done>> /\ nread' = nread + 1
        /\ c \notin Busy \cup {"NOOP"}
    BY <1>2 DEF PollDispatch
  <2>3. c \in InnerCommands
    BY <1>2, <2>2 DEF InnerCommands
  <2>4. authenticated
    <3>1. Head(top.todo) \in Range(top.todo) /\ TodoPlaced(top.todo, authenticated)
      BY <2>1, WaitsFresh, TopAnswer
    <3> QED BY <2>1, <3>1 DEF TodoPlaced
  <2> QED BY <2>1, <2>2, <2>3, <2>4, BeginAnswer
<1>3. CASE PollInvalid
  <2>1. /\ CanPoll /\ sent' = Append(sent, OwnLine(500, nread + 1)) /\ nread' = nread + 1
        /\ done' = done \cup {[id |-> nread + 1, cmd |-> "INVALID", log |-> "NO"]}
        /\ UNCHANGED <<flags, stack, resp_pool>>
        /\ resp_list' \in {<<>>, resp_list} /\ resp_err_list' \in {<<>>, resp_err_list}
    BY <1>3 DEF PollInvalid, pr_response_send, OwnLine
  <2>2. 500 \in Nat /\ 500 >= 200
    OBVIOUS
  <2> QED BY <2>1, <2>2, PolledAnswer
<1> QED BY <1>1, <1>2, <1>3

(* A command that cmd_loop has read. *)
LEMMA ReadAnswer ==
    ASSUME IInv, AnswerInv, (\E c \in Commands \cup EarlyCommands : ReadCommand(c)) \/ InvalidCommand
    PROVE  AnswerInv'
<1>1. /\ nread \in Nat /\ authenticated \in BOOLEAN /\ nread' = nread + 1
      /\ authenticated' = authenticated /\ nread' \in Nat /\ nread + 1 \in 1..nread'
  <2>1. nread \in Nat /\ authenticated \in BOOLEAN
    BY DEF IInv, AnswerInv
  <2>2. nread' = nread + 1 /\ authenticated' = authenticated
    BY DEF ReadCommand, InvalidCommand, flags
  <2> QED BY <2>1, <2>2
<1>2. ASSUME NEW c, ReadCommand(c) PROVE AnswerInv'
  <2>1. /\ sent' = <<>> /\ done' = {} /\ Begin(c, nread + 1, <<>>)
        /\ c \in EarlyCommands \/ authenticated
    BY <1>2, <1>1 DEF ReadCommand
  <2>2. PICK g : g = NewFrame(c, nread + 1, resp_pool)
    OBVIOUS
  <2>3. /\ GoodFrame(g) /\ g.cmd = c /\ g.client = nread + 1 /\ g.saved = resp_pool
        /\ g.todo = <<>> /\ g.phase = "PRE_CMD" /\ g.returns = "NONE"
        /\ g.num = R_DUP /\ g.failed = "NO"
    BY <2>2, NewFrameGood
  <2>4. /\ DOMAIN stack' = 1..1 /\ stack'[1] = g /\ Len(stack') = 1
        /\ resp_list' = <<>> /\ resp_err_list' = <<>> /\ last_code' = NULL
        /\ resp_pool' = nread + 1
    BY <2>1, <2>2 DEF Begin
  <2>5. \A i \in 1..1 : i = 1
    OBVIOUS
  <2>6. top' = g
    BY <2>4 DEF top
  <2>7. LinesSent' /\ OneReply' /\ Over' /\ (authenticated \in BOOLEAN)'
    BY <1>1, <2>1, EmptyList DEF LinesSent, OwnLines, OneReply, Over
  <2>8. Nested'
    BY <2>4, <2>5 DEF Nested
  <2>9. Placed(g)'
    <3>1. TodoPlaced(g.todo, authenticated)
      BY <2>3, PlacedNothing
    <3>2. c \in EarlyReach \/ authenticated
      BY <2>1 DEF EarlyReach
    <3> QED BY <1>1, <2>3, <3>1, <3>2 DEF Placed, TodoPlaced
  <2>10. Owes(g, <<>>, <<>>, <<>>, NULL)
    <3>1. Unspoken(g.cmd, <<>>, g.client, NULL)
      BY DEF Unspoken, NoLines
    <3> QED BY <2>3, <3>1, NoFinalLines, OwesBegun
  <2>11. Owes(top, resp_list, resp_err_list, sent, last_code)'
    BY <2>1, <2>4, <2>6, <2>10
  <2>12. resp_pool' # NULL
    <3>1. NULL \notin Nat
      BY AnswerAssumption
    <3>2. nread + 1 \in Nat
      BY <1>1
    <3> QED BY <2>4, <3>1, <3>2
  <2>13. \A r \in (Range(resp_list) \cup Range(resp_err_list))' : r.by = top'.client
    BY <2>4, NoCalls
  <2>14. (\A i \in DOMAIN stack :
          Placed(stack[i]) /\ (i # 1 => stack[i].cmd \in InnerCommands /\ stack[i].saved # NULL))'
    BY <2>4, <2>5, <2>9
  <2> QED BY <2>7, <2>8, <2>11, <2>12, <2>13, <2>14 DEF AnswerInv
<1>3. CASE InvalidCommand
  <2>1. PICK e : e = OwnLine(500, nread + 1)
    OBVIOUS
  <2>2. e.to = nread + 1 /\ e.ends = TRUE /\ e.as = 500 /\ e.by = nread + 1 /\ e.num = 500
    BY <2>1 DEF OwnLine, Line
  <2>3. /\ stack' = <<>> /\ DOMAIN stack' = {} /\ sent' = <<e>>
        /\ done' = {[id |-> nread + 1, cmd |-> "INVALID", log |-> "NO"]}
    BY <1>3, <2>1 DEF InvalidCommand, OwnLine
  <2>4. IsList(sent') /\ DOMAIN sent' = {1} /\ sent'[1] = e
    <3>1. DOMAIN <<e>> = {1} /\ <<e>>[1] = e /\ <<e>> \in Seq({e})
      OBVIOUS
    <3> QED BY <2>3, <3>1, ListOf
  <2>5. LinesSent'
    BY <1>1, <2>2, <2>4 DEF LinesSent, OwnLines
  <2>6. FinalLines(sent', nread + 1) = {1}
    BY <2>2, <2>4 DEF FinalLines
  <2>7. OneReply'
    BY <2>3, <2>4, <2>6 DEF OneReply
  <2>8. Over' /\ Nested'
    BY <1>1, <2>3 DEF Over, Nested
  <2> QED BY <1>1, <2>3, <2>5, <2>7, <2>8 DEF AnswerInv
<1> QED BY <1>2, <1>3

(* Once the command's handlers are through, the answer is in the list of   *)
(* the outcome or has been sent.                                           *)
Flushed(f, ok, err) == IF f.failed = "NO" THEN ok ELSE err
Unheard(f, list, ls, last) ==
    /\ f.cmd \in Unanswered /\ f.failed # "NO" /\ list = <<>>
    /\ NoLines(ls, f.client) /\ last = NULL
CodesOf(f) == IF f.failed = "NO" THEN Codes("add") ELSE Codes("err")

LEMMA Answered ==
    ASSUME NEW f, GoodFrame(f), f.phase \in {"LOG_CMD", "LOG_CMD_ERR", "END"},
           NEW ok, NEW err, NEW ls, NEW last, Owes(f, ok, err, ls, last)
    PROVE  LET list == Flushed(f, ok, err)
           IN  \/ \E c \in CodesOf(f) :
                     /\ OneCode(list, c) /\ Told(f.cmd, list, ls, f.client, last, c)
                     /\ \/ StartsWith(list, c) /\ FinalLines(ls, f.client) = {}
                        \/ list = <<>> /\ \E i \in DOMAIN ls : FinalLines(ls, f.client) = {i}
               \/ Unheard(f, list, ls, last)
<1>1. PICK S, list, o : /\ S = Range(f.todo) /\ list = Flushed(f, ok, err)
                        /\ o = IF f.failed = "NO" THEN "add" ELSE "err"
  OBVIOUS
<1>2. Decides(f.phase, f.returns) = "no" /\ Decided(f) = o
  BY <1>1 DEF Decides, Decided
<1>3. f.num = R_DUP /\ \A q \in S : q.op # "add" /\ q.op # "err" /\ ~Interrupts(q)
  BY <1>1, <1>2 DEF Owes, MaySay, Quiet
<1>silent. CASE f.failed # "NO" /\ Silent(f.cmd, list, S, f.num, ls, f.client, last)
  BY <1>1, <1>silent DEF Silent, Unheard
<1> SUFFICES ASSUME ~(f.failed # "NO" /\ Silent(f.cmd, list, S, f.num, ls, f.client, last))
             PROVE  \E c \in CodesOf(f) :
                       /\ OneCode(list, c) /\ Told(f.cmd, list, ls, f.client, last, c)
                       /\ \/ StartsWith(list, c) /\ FinalLines(ls, f.client) = {}
                          \/ list = <<>> /\ \E i \in DOMAIN ls : FinalLines(ls, f.client) = {i}
  BY <1>1, <1>silent
<1>4. PICK c \in Codes(o) : Answering(f.cmd, list, S, o, f.num, ls, f.client, last, c)
  BY <1>1, <1>2 DEF Owes, Flushed
<1>5. c \in CodesOf(f) /\ c # R_DUP
  BY <1>1, <1>4, CodesAre DEF CodesOf
<1>6. \A q \in S : q.op # o /\ ~Concludes(q)
  BY <1>1, <1>3 DEF Interrupts, Concludes
<1>7. OneCode(list, c) /\ Told(f.cmd, list, ls, f.client, last, c) /\ OneAnswer(list, S, o, f.num, ls, f.client, c)
  BY <1>4 DEF Answering
<1>8. \/ StartsWith(list, c) /\ FinalLines(ls, f.client) = {}
      \/ list = <<>> /\ \E i \in DOMAIN ls : FinalLines(ls, f.client) = {i}
  BY <1>3, <1>5, <1>6, <1>7 DEF OneAnswer, Gathers, GathersNone
<1> QED BY <1>1, <1>5, <1>7, <1>8

(* When that list is flushed, the client has one final reply.              *)
RepliesOnce(r, f, ls, list, last) ==
    \E c \in CodesOf(f) :
        /\ NewLines(r, ls, list, f.client, c)
        /\ \E i \in DOMAIN r :
              FinalLines(r, f.client) = {i} /\ (f.cmd \notin Misreported => r[i].as = c /\ last = c)

HeardOrNot(r, f, ls, list, last) ==
    RepliesOnce(r, f, ls, list, last) \/ (r = ls /\ Unheard(f, list, ls, last))

LEMMA FlushedAnswer ==
    ASSUME NEW f, GoodFrame(f), f.phase \in {"LOG_CMD", "LOG_CMD_ERR", "END"},
           NEW ok, IsList(ok), NEW err, IsList(err), NEW ls, IsList(ls), NEW last,
           Owes(f, ok, err, ls, last),
           NEW list, list = Flushed(f, ok, err), NEW r, r = ls \o Flush(list, f.client)
    PROVE  HeardOrNot(r, f, ls, list, last)
<1>1. PICK id : id = f.client
  OBVIOUS
<1>2. r = ls \o Flush(list, id)
  BY <1>1
<1>silent. CASE Unheard(f, list, ls, last)
  BY <1>2, <1>silent, SentNothing DEF Unheard, HeardOrNot
<1> SUFFICES ASSUME ~Unheard(f, list, ls, last)
             PROVE  RepliesOnce(r, f, ls, list, last)
  BY <1>silent DEF HeardOrNot
<1>3. PICK c \in CodesOf(f) :
         /\ OneCode(list, c) /\ Told(f.cmd, list, ls, id, last, c)
         /\ \/ StartsWith(list, c) /\ FinalLines(ls, id) = {}
            \/ list = <<>> /\ \E i \in DOMAIN ls : FinalLines(ls, id) = {i}
  BY <1>1, Answered
<1>4. c \in Nat /\ c >= 200 /\ IsList(list)
  BY <1>1, <1>3, CodesAre DEF CodesOf, Flushed
<1>5. CASE StartsWith(list, c) /\ FinalLines(ls, id) = {}
  <2>1. list # <<>> /\ list[1].num = c
    BY <1>5 DEF StartsWith
  <2>2. NewLines(r, ls, list, id, c) /\ \E m \in DOMAIN r : FinalLines(r, id) = {m} /\ r[m].as = c
    <3>1. AddsReply(ls \o Flush(list, id), ls, list, id, c)
      BY <1>3, <1>4, <2>1, SentReply
    <3> QED BY <1>2, <1>5, <3>1 DEF AddsReply, NewLines
  <2>3. f.cmd \notin Misreported => last = c
    BY <1>3, <1>5 DEF Told
  <2> QED BY <1>1, <1>3, <2>2, <2>3 DEF RepliesOnce
<1>6. CASE list = <<>> /\ \E i \in DOMAIN ls : FinalLines(ls, id) = {i}
  <2>1. r = ls
    BY <1>2, <1>6, SentNothing
  <2>2. PICK i \in DOMAIN ls : FinalLines(ls, id) = {i}
    BY <1>6
  <2>3. f.cmd \notin Misreported => ls[i].as = c /\ last = c
    BY <1>3, <2>2 DEF Told
  <2>4. NewLines(r, ls, list, id, c)
    BY <2>1 DEF NewLines
  <2> QED BY <1>1, <1>3, <2>1, <2>2, <2>3, <2>4 DEF RepliesOnce
<1> QED BY <1>3, <1>5, <1>6

(* The end of pr_cmd_dispatch: what it sends. *)
LEMMA EndSends ==
    ASSUME IInv, AnswerInv, EndDispatch
    PROVE  /\ SendsOnlyTo(top.client)
           /\ \/ \E i \in DOMAIN sent' : FinalLines(sent', top.client) = {i}
              \/ top.cmd \in Unanswered /\ top.failed # "NO" /\ NoLines(sent', top.client)
           /\ top.cmd \in InnerCommands => resp_list' = <<>> /\ resp_err_list' = <<>>
<1>1. stack # <<>> /\ top.phase = "END"
  BY DEF EndDispatch
<1>2. PICK f, list : f = top /\ list = Flushed(top, resp_list, resp_err_list)
  OBVIOUS
<1>3. /\ GoodFrame(f) /\ Owes(f, resp_list, resp_err_list, sent, last_code)
      /\ f.client \in 1..nread /\ LinesSent /\ nread \in Nat
      /\ \A r \in Range(resp_list) \cup Range(resp_err_list) : r.by = f.client
      /\ IsList(resp_list) /\ IsList(resp_err_list) /\ IsList(sent)
  BY <1>1, <1>2, TopAnswer DEF Responses, LinesSent
<1>4. sent' = sent \o Flush(list, f.client) /\ nread' = nread
  BY <1>2 DEF EndDispatch, Outcome, Flushed
<1>silent. CASE sent' = sent /\ Unheard(f, list, sent, last_code)
  <2>1. SendsOnlyTo(f.client)
    BY <1>3, <1>4, <1>silent, NoLine
  <2>2. f.cmd \in Unanswered /\ f.failed # "NO" /\ NoLines(sent', f.client)
    BY <1>silent DEF Unheard
  <2> QED BY <1>2, <2>1, <2>2, UnansweredAre
<1> SUFFICES ASSUME ~(sent' = sent /\ Unheard(f, list, sent, last_code))
             PROVE  /\ SendsOnlyTo(f.client)
                    /\ \E i \in DOMAIN sent' : FinalLines(sent', f.client) = {i}
                    /\ f.cmd \in InnerCommands => resp_list' = <<>> /\ resp_err_list' = <<>>
  BY <1>2, <1>silent
<1>5. PICK c \in CodesOf(f) :
         NewLines(sent', sent, list, f.client, c) /\ \E i \in DOMAIN sent' : FinalLines(sent', f.client) = {i}
  <2>1. f.phase \in {"LOG_CMD", "LOG_CMD_ERR", "END"} /\ list = Flushed(f, resp_list, resp_err_list)
    BY <1>1, <1>2
  <2>2. HeardOrNot(sent', f, sent, list, last_code)
    BY <1>3, <1>4, <2>1, FlushedAnswer
  <2> QED BY <2>2 DEF HeardOrNot, RepliesOnce
<1>6. /\ IsList(sent')
      /\ \A id : id # f.client => FinalLines(sent', id) = FinalLines(sent, id)
      /\ \A i \in DOMAIN sent : i \in DOMAIN sent' /\ sent'[i] = sent[i]
      /\ \A i \in DOMAIN sent' : i \notin DOMAIN sent =>
            /\ sent'[i].to = f.client /\ sent'[i].as = c /\ sent'[i].num \in {R_DUP, c}
            /\ \E j \in DOMAIN list : sent'[i].by = list[j].by
  BY <1>5 DEF NewLines
<1>7. c \in Nat
  BY <1>5, CodesAre DEF CodesOf
<1>8. \A j \in DOMAIN list : list[j].by = f.client
  <2>1. \A j \in DOMAIN list : list[j] \in Range(list)
    BY DEF Range
  <2>2. list = resp_list \/ list = resp_err_list
    BY <1>2 DEF Flushed
  <2> QED BY <1>3, <2>1, <2>2
<1>9. ASSUME NEW i \in DOMAIN sent'
      PROVE  /\ sent'[i].to \in 1..nread' /\ sent'[i].as \in Nat
             /\ sent'[i].by = sent'[i].to /\ sent'[i].num \in {R_DUP, sent'[i].as}
  <2>1. CASE i \in DOMAIN sent
    BY <1>3, <1>4, <1>6, <2>1 DEF LinesSent, OwnLines
  <2>2. CASE i \notin DOMAIN sent
    BY <1>3, <1>4, <1>6, <1>7, <1>8, <2>2
  <2> QED BY <2>1, <2>2
<1>10. LinesSent'
  BY <1>6, <1>9 DEF LinesSent, OwnLines
<1>11. SendsOnlyTo(f.client)
  <2>1. \A d : d # f.client => (NoLines(sent, d) => NoLines(sent', d))
    BY <1>6 DEF NoLines
  <2> QED BY <1>6, <1>10, <2>1 DEF SendsOnlyTo
<1>12. ASSUME f.cmd \in InnerCommands PROVE resp_list' = <<>> /\ resp_err_list' = <<>>
  <2>1. CASE f.failed = "NO"
    <3>1. Decided(f) # "err"
      BY <1>1, <1>2, <2>1 DEF Decided
    <3>2. resp_err_list = <<>>
      BY <1>3, <3>1 DEF Owes
    <3> QED BY <1>2, <2>1, <3>2 DEF EndDispatch
  <2>2. CASE f.failed # "NO"
    <3>1. Decided(f) = "err"
      BY <2>2 DEF Decided
    <3>2. resp_list = <<>>
      BY <1>3, <1>12, <3>1 DEF Owes
    <3> QED BY <1>2, <2>2, <3>2 DEF EndDispatch
  <2> QED BY <2>1, <2>2
<1> QED BY <1>2, <1>5, <1>11, <1>12

(* Who is done when a command has ended: its caller has not yet been        *)
(* answered if it dispatched the command in its own place.                 *)
LEMMA EndDone ==
    ASSUME IInv, EndDispatch
    PROVE  done' = IF Len(stack) # 1 /\ stack[Len(stack) - 1].client = top.client THEN done
                   ELSE done \cup {[id |-> top.client, cmd |-> top.cmd, log |-> LogPhase(top)]}
<1>1. PICK below, n : below = SubSeq(stack, 1, Len(stack) - 1) /\ n = Len(below)
  OBVIOUS
<1>2. stack # <<>> /\ GoodStack(stack) /\ Len(stack) \in Nat /\ Len(stack) > 0
  BY TopOfStack DEF IInv, EndDispatch
<1>3. /\ n = Len(stack) - 1 /\ \A i \in 1..(Len(stack) - 1) : below[i] = stack[i]
  BY <1>1, <1>2, StackPopped
<1>4. done' = IF n > 0 /\ below[n].client = top.client THEN done
              ELSE done \cup {[id |-> top.client, cmd |-> top.cmd, log |-> LogPhase(top)]}
  BY <1>1 DEF EndDispatch
<1>5. (n > 0) <=> (Len(stack) # 1)
  BY <1>2, <1>3
<1>6. n > 0 => below[n] = stack[Len(stack) - 1]
  BY <1>2, <1>3
<1> QED BY <1>4, <1>5, <1>6

LEMMA EndDispatchAnswer ==
    ASSUME IInv, AnswerInv, EndDispatch PROVE AnswerInv'
<1>1. PICK m, f : m = Len(stack) /\ f = top
  OBVIOUS
<1>2. /\ stack # <<>> /\ m \in Nat /\ m > 0 /\ DOMAIN stack = 1..m /\ m \in 1..m
      /\ f = stack[m] /\ GoodFrame(f)
  BY <1>1, TopOfStack, TopGood DEF IInv, EndDispatch, top
<1>3. /\ SendsOnlyTo(f.client)
      /\ \/ \E i \in DOMAIN sent' : FinalLines(sent', f.client) = {i}
         \/ f.cmd \in Unanswered /\ f.failed # "NO" /\ NoLines(sent', f.client)
      /\ f.cmd \in InnerCommands => resp_list' = <<>> /\ resp_err_list' = <<>>
  BY <1>1, EndSends
<1>4. /\ LinesSent' /\ DOMAIN sent \subseteq DOMAIN sent'
      /\ \A d : d # f.client => FinalLines(sent', d) = FinalLines(sent, d)
  BY <1>3 DEF SendsOnlyTo
<1>5. /\ authenticated' = authenticated /\ nread' = nread /\ resp_pool' = f.saved
  BY <1>1 DEF EndDispatch, flags
<1>6. (authenticated \in BOOLEAN)' /\ f.client \in 1..nread
  BY <1>1, <1>2, <1>5, TopAnswer DEF AnswerInv
<1>7. done' = IF m # 1 /\ stack[m - 1].client = f.client THEN done
              ELSE done \cup {[id |-> f.client, cmd |-> f.cmd, log |-> LogPhase(f)]}
  BY <1>1, EndDone
<1>8. \A d \in done' :
         \/ d \in done
         \/ /\ d.id = f.client /\ d.cmd = f.cmd /\ d.log = LogPhase(f)
            /\ ~(m # 1 /\ stack[m - 1].client = f.client)
  BY <1>7
<1>9. \A d \in done : d.id \in 1..nread /\ \A i \in 1..m : stack[i].client # d.id
  BY <1>2 DEF AnswerInv, Over
<1>10. OneReply'
  <2> SUFFICES ASSUME NEW d \in done' PROVE Replied(sent', d)
    BY DEF OneReply, Replied
  <2>1. CASE d \in done
    <3>1. d.id # f.client
      BY <1>2, <1>9, <2>1
    <3> QED BY <1>3, <2>1, <3>1, StaysReplied DEF AnswerInv
  <2>2. CASE d.id = f.client /\ d.cmd = f.cmd /\ d.log = LogPhase(f)
    BY <1>3, <2>2 DEF Replied, LogPhase
  <2> QED BY <1>8, <2>1, <2>2
<1>11. CASE m = 1
  <2>1. stack' = <<>> /\ DOMAIN stack' = {}
    BY <1>1, <1>11, Ended
  <2>2. Over' /\ Nested'
    BY <1>5, <1>6, <1>8, <1>9, <2>1 DEF Over, Nested
  <2> QED BY <1>4, <1>6, <1>10, <2>1, <2>2 DEF AnswerInv
<1>12. CASE m # 1
  <2>1. PICK n, g, h : n = m - 1 /\ g = stack[n] /\ h = stack'[n]
    OBVIOUS
  <2>2. /\ n \in 1..m /\ n < m /\ stack' # <<>> /\ DOMAIN stack' = 1..n /\ Len(stack') = n
        /\ GoodFrame(g) /\ Waits(g) /\ g.todo # <<>>
        /\ h = CallerResumes(f, g)
        /\ \A i \in 1..n : i # n => stack'[i] = stack[i]
    BY <1>1, <1>2, <1>12, <2>1, Ended DEF Waits
  <2>3. /\ GoodFrame(h) /\ SameCommand(g, h)
        /\ h.phase = g.phase /\ h.failed = g.failed /\ h.num = g.num
        /\ g.client # f.client => h = g
        /\ g.client = f.client =>
              h.todo = Tail(g.todo) /\ (h.returns = g.returns \/ h.returns = "ERROR")
    BY <2>2, Resumed
  <2>4. n \in Nat /\ m = n + 1 /\ n \in 1..n /\ \A i \in 1..n : i \in 1..m /\ i < m
    BY <1>2, <1>12, <2>1, <2>2
  <2>5. \A i \in 1..n : /\ stack'[i].client = stack[i].client /\ stack'[i].cmd = stack[i].cmd
                        /\ stack'[i].saved = stack[i].saved
    BY <2>1, <2>2, <2>3 DEF SameCommand
  <2>6. \A i, j \in 1..m : i < j =>
          /\ Owes(stack[i], <<>>, <<>>, <<>>, NULL)
          /\ stack[i].client <= stack[j].client
          /\ Head(stack[i].todo).op = "poll" =>
                stack[i].client < stack[j].client /\ FinalLines(sent, stack[i].client) = {}
          /\ Head(stack[i].todo).op # "poll" /\ j = i + 1 => stack[j].client = stack[i].client
    BY <1>2 DEF AnswerInv, Nested
  <2>7. \A i \in 1..m : stack[i].client \in Nat
    BY <1>2 DEF AnswerInv, Placed
  <2>8. /\ Owes(g, <<>>, <<>>, <<>>, NULL)
        /\ Head(g.todo).op = "poll" => g.client < f.client /\ FinalLines(sent, g.client) = {}
        /\ Head(g.todo).op # "poll" => f.client = g.client
    BY <1>2, <2>1, <2>2, <2>4, <2>6
  <2>9. f.cmd \in InnerCommands /\ f.saved # NULL
    BY <1>2, <1>12 DEF AnswerInv
  <2>10. resp_list' = <<>> /\ resp_err_list' = <<>> /\ resp_pool' # NULL
    BY <1>3, <1>5, <2>9
  <2>11. top' = h
    BY <2>1, <2>2 DEF top
  <2>12. g.client \in Nat /\ f.client \in Nat
    BY <1>2, <2>1, <2>2, <2>7
  <2>13. Owes(h, <<>>, <<>>, sent', last_code')
    <3>1. CASE Head(g.todo).op = "poll"
      <4>1. g.client # f.client /\ h = g
        BY <2>3, <2>8, <2>12, <3>1
      <4>2. FinalLines(sent', g.client) = {} /\ FinalLines(<<>>, g.client) = {}
        BY <1>4, <2>8, <3>1, <4>1, NoFinalLines
      <4>3. Owes(g, <<>>, <<>>, sent', last_code')
        <5>1. Head(g.todo) \in Range(g.todo) /\ Interrupts(Head(g.todo))
          BY <2>2, <3>1, RestOfCalls DEF GoodFrame, Framed, Interrupts
        <5>2. Settled(g, <<>>, <<>>, NULL)
          BY <2>2, <2>8, <5>1, InterruptsSettled
        <5> QED BY <2>8, <4>2, <5>2, OwesFresh
      <4> QED BY <4>1, <4>3
    <3>2. CASE Head(g.todo).op # "poll"
      <4>1. /\ f.client = g.client /\ Dispatches(Head(g.todo))
            /\ h.cmd = g.cmd /\ h.client = g.client
        BY <2>2, <2>3, <2>8, <3>2 DEF Waits, Dispatches, SameCommand
      <4>2. h.todo = Tail(g.todo) /\ (h.returns = g.returns \/ h.returns = "ERROR")
        BY <2>3, <4>1
      <4>3. PICK i \in DOMAIN sent' : FinalLines(sent', g.client) = {i}
        BY <1>3, <2>9, <4>1, UnansweredAre
      <4> QED BY <2>2, <2>3, <2>8, <4>1, <4>2, <4>3, OwesResumed
    <3> QED BY <3>1, <3>2
  <2>14. Owes(top, resp_list, resp_err_list, sent, last_code)'
    BY <2>10, <2>11, <2>13
  <2>15. \A r \in (Range(resp_list) \cup Range(resp_err_list))' : r.by = top'.client
    BY <2>10, NoCalls
  <2>16. Nested'
    <3> SUFFICES ASSUME NEW i \in 1..n, NEW j \in 1..n, i < j
                 PROVE  /\ Owes(stack'[i], <<>>, <<>>, <<>>, NULL)
                        /\ stack'[i].client <= stack'[j].client
                        /\ Head(stack'[i].todo).op = "poll" =>
                              /\ stack'[i].client < stack'[j].client
                              /\ FinalLines(sent', stack'[i].client) = {}
                        /\ Head(stack'[i].todo).op # "poll" /\ j = i + 1 =>
                              stack'[j].client = stack'[i].client
      BY <2>2 DEF Nested
    <3>1. stack'[i] = stack[i] /\ stack'[j].client = stack[j].client
      BY <2>2, <2>4, <2>5
    <3>2. Head(stack[i].todo).op = "poll" => stack[i].client < f.client
      BY <1>2, <2>4, <2>6
    <3>3. Head(stack[i].todo).op = "poll" => FinalLines(sent', stack[i].client) = {}
      <4>1. Head(stack[i].todo).op = "poll" => FinalLines(sent, stack[i].client) = {}
        BY <2>4, <2>6
      <4>2. stack[i].client \in Nat
        BY <2>4, <2>7
      <4>3. Head(stack[i].todo).op = "poll" => stack[i].client # f.client
        BY <2>12, <3>2, <4>2
      <4> QED BY <1>4, <4>1, <4>3
    <3> QED BY <2>4, <2>6, <3>1, <3>3
  <2>17. Over'
    <3> SUFFICES ASSUME NEW d \in done', NEW i \in 1..n
                 PROVE  d.id \in 1..nread /\ stack[i].client # d.id
      BY <1>5, <2>2, <2>4, <2>5 DEF Over
    <3>1. CASE d \in done
      BY <1>9, <2>4, <3>1
    <3>2. CASE d.id = f.client /\ g.client # f.client
      <4>1. Head(g.todo).op = "poll" /\ g.client < f.client
        BY <2>8, <3>2
      <4>2. stack[i].client <= g.client
        <5>1. CASE i = n
          BY <2>1, <2>12, <5>1
        <5>2. CASE i # n
          BY <2>1, <2>4, <2>6, <5>2
        <5> QED BY <5>1, <5>2
      <4>3. stack[i].client \in Nat
        BY <2>4, <2>7
      <4> QED BY <1>6, <2>12, <3>2, <4>1, <4>2, <4>3
    <3> QED BY <1>8, <1>12, <2>1, <3>1, <3>2
  <2>18. ASSUME NEW i \in 1..n
         PROVE  /\ Placed(stack[i])'
                /\ i # 1 => stack'[i].cmd \in InnerCommands /\ stack'[i].saved # NULL
    <3>1. Placed(stack[i]) /\ (i # 1 => stack[i].cmd \in InnerCommands /\ stack[i].saved # NULL)
      BY <1>2, <2>4 DEF AnswerInv
    <3>2. CASE i # n
      BY <1>5, <2>2, <3>1, <3>2 DEF Placed
    <3>3. CASE i = n
      <4>1. \A c \in Range(h.todo) : c \in Range(g.todo)
        <5>1. IsList(g.todo) /\ (h = g \/ h.todo = Tail(g.todo))
          BY <2>2, <2>3 DEF GoodFrame, Framed
        <5> QED BY <2>2, <5>1, RestOfCalls
      <4>2. Placed(g)
        BY <2>1, <3>1, <3>3
      <4>3. Placed(h)'
        BY <1>5, <2>3, <4>1, <4>2 DEF Placed, SameCommand
      <4> QED BY <2>1, <2>5, <3>1, <3>3, <4>3
    <3> QED BY <2>5, <3>1, <3>2, <3>3
  <2> QED BY <1>4, <1>6, <1>10, <2>2, <2>10, <2>14, <2>15, <2>16, <2>17, <2>18 DEF AnswerInv
<1> QED BY <1>11, <1>12

LEMMA NextAnswer ==
    ASSUME IInv, AnswerInv, [Next]_vars PROVE AnswerInv'
<1>1. CASE UNCHANGED vars
  BY <1>1 DEF vars, flags, lists, AnswerInv, Nested, LinesSent, OwnLines, Over, OneReply, Placed, top
<1>2. CASE Next
  BY <1>2, ReadAnswer, AuthCheckFailsAnswer, CallHandlerAnswer, NoHandlerLeftAnswer,
     HandlerReturnsAnswer, CallAnswer, DispatchSubAnswer, PollAnswer, EndDispatchAnswer DEF Next
<1> QED BY <1>1, <1>2

LEMMA InitAnswer == Init => AnswerInv
<1> SUFFICES ASSUME Init PROVE AnswerInv
  OBVIOUS
<1>1. /\ authenticated = FALSE /\ stack = <<>> /\ done = {} /\ sent = <<>>
      /\ DOMAIN stack = {} /\ DOMAIN sent = {}
  BY DEF Init
<1> QED BY <1>1, EmptyList DEF AnswerInv, Nested, LinesSent, OwnLines, Over, OneReply

LEMMA AnswerInvHolds == Spec => [](IInv /\ AnswerInv)
<1>1. Init => IInv /\ AnswerInv
  BY InitIInv, InitAnswer
<1>2. IInv /\ AnswerInv /\ [Next]_vars => (IInv /\ AnswerInv)'
  BY NextIInv, NextAnswer
<1> QED BY <1>1, <1>2, PTL DEF Spec

(* Every command is answered by exactly one final reply: that of a command  *)
(* read by poll_ctrl during a transfer, that of the transfer around it, and *)
(* that of a command whose handler has dispatched another (pr_cmd_dispatch  *)
(* clears both lists on entry, and flushes one of them at its end).  Only a *)
(* RETR that fails where xfer_retr adds no response is left without a line. *)
THEOREM AnsweredOnce == Spec => []OneReply
<1>1. IInv /\ AnswerInv => OneReply
  BY DEF AnswerInv
<1> QED BY <1>1, AnswerInvHolds, PTL

(* What a client gets as the answer to a command was said by its handlers,  *)
(* under the code they gave it: pr_response_flush finds no response of an   *)
(* outer command, and none of another code in a multiline reply.            *)
THEOREM AnsweredByOwn == Spec => []OwnLines
<1>1. IInv /\ AnswerInv => OwnLines
  BY DEF AnswerInv, LinesSent
<1> QED BY <1>1, AnswerInvHolds, PTL

(* What the log handlers are told of a command is what its client is told:  *)
(* pr_response_get_last is the code of the final reply, whether that has    *)
(* been sent or is still to be flushed, and LOG_CMD is the phase of a       *)
(* success.  For a RETR that has failed without a response there is none.   *)
THEOREM LoggedRight == Spec => []LoggedAsAnswered
<1>1. ASSUME IInv, AnswerInv PROVE LoggedAsAnswered
  <2> SUFFICES ASSUME stack # <<>>, IsLog(top.phase), top.cmd \notin Misreported
               PROVE  LET lines == sent \o Flush(Outcome(top), top.client)
                          finals == FinalLines(lines, top.client)
                      IN  \/ \E i \in finals :
                                /\ \A j \in finals : j <= i
                                /\ last_code = lines[i].as
                                /\ (top.phase = "LOG_CMD") <=> (last_code < 400)
                          \/ /\ top.cmd \in Unanswered /\ top.phase = "LOG_CMD_ERR"
                             /\ NoLines(lines, top.client) /\ last_code = NULL
    BY DEF LoggedAsAnswered
  <2>1. PICK f, list, lines : /\ f = top /\ list = Flushed(top, resp_list, resp_err_list)
                              /\ lines = sent \o Flush(list, f.client)
    OBVIOUS
  <2>2. /\ GoodFrame(f) /\ Owes(f, resp_list, resp_err_list, sent, last_code)
        /\ IsList(resp_list) /\ IsList(resp_err_list) /\ IsList(sent)
    BY <1>1, <2>1, TopAnswer DEF Responses, LinesSent
  <2>3. /\ f.phase \in {"LOG_CMD", "LOG_CMD_ERR", "END"} /\ list = Flushed(f, resp_list, resp_err_list)
        /\ (f.phase = "LOG_CMD") <=> (f.failed = "NO")
    BY <2>1, <2>2 DEF IsLog, GoodFrame, PhaseOfOutcome, LogPhase
  <2>4. Outcome(top) = list
    BY <2>1 DEF Outcome, Flushed
  <2>5. HeardOrNot(lines, f, sent, list, last_code)
    BY <2>1, <2>2, <2>3, FlushedAnswer
  <2>6. CASE lines = sent /\ Unheard(f, list, sent, last_code)
    <3>1. /\ top.cmd \in Unanswered /\ top.failed # "NO"
          /\ NoLines(lines, top.client) /\ last_code = NULL
      BY <2>1, <2>6 DEF Unheard
    <3>2. top.phase = "LOG_CMD_ERR"
      BY <2>1, <2>3, <3>1 DEF IsLog
    <3> QED BY <2>1, <2>4, <3>1, <3>2
  <2>7. CASE RepliesOnce(lines, f, sent, list, last_code)
    <3>1. PICK c \in CodesOf(f), i \in DOMAIN lines :
             FinalLines(lines, f.client) = {i} /\ lines[i].as = c /\ last_code = c
      BY <2>1, <2>7 DEF RepliesOnce
    <3>2. (f.phase = "LOG_CMD") <=> (c < 400)
      BY <2>3, <3>1, CodesAre DEF CodesOf
    <3>3. i \in Nat /\ i <= i
      BY <2>1, <2>7, <3>1, ListFacts DEF RepliesOnce, NewLines
    <3> QED BY <2>1, <2>4, <3>1, <3>2, <3>3
  <2> QED BY <2>5, <2>6, <2>7 DEF HeardOrNot
<1>2. IInv /\ AnswerInv => LoggedAsAnswered
  BY <1>1
<1> QED BY <1>2, AnswerInvHolds, PTL
-----------------------------------------------------------------------------
(* Types. *)

LEMMA NoCallsCoded == Coded(<<>>)
  BY NoCalls DEF Coded

LEMMA RestCoded ==
    ASSUME NEW calls, IsList(calls), calls # <<>>, Coded(calls)
    PROVE  /\ Coded(Tail(calls))
           /\ Head(calls).op \in {"add", "err"} => Head(calls).arg \in {R_DUP} \cup ReplyCode
           /\ Head(calls).op = "send" => Head(calls).arg \in ReplyCode
<1>1. Range(calls) = Range(Tail(calls)) \cup {Head(calls)}
  BY RestOfCalls
<1> QED BY <1>1 DEF Coded

LEMMA TableRows ==
    ASSUME NEW n \in DOMAIN Table PROVE n \in 0..Len(Table) /\ 0 \in 0..Len(Table)
<1>1. Len(Table) \in Nat /\ DOMAIN Table = 1..Len(Table)
  BY TableAssumption, ListFacts
<1> QED BY <1>1

(* What the dispatcher leaves alone when it goes on to the next phase.     *)
LEMMA AdvanceKeeps ==
    ASSUME NEW f, GoodFrame(f), f.phase # "END", NEW res \in {-1, 0, 1}
    PROVE  Advance(f, res).logged = f.logged /\ Advance(f, res).result \in {f.result, res}
<1>1. PICK g : g = IF IsLog(f.phase) \/ f.failed = "PRE_CMD" THEN f
                   ELSE [f EXCEPT !.result = res]
  OBVIOUS
<1>2. /\ DOMAIN g = FrameFields /\ g.logged = f.logged /\ g.result \in {f.result, res}
      /\ g.phase = f.phase /\ g.scope = f.scope /\ g.failed = f.failed
  BY <1>1 DEF GoodFrame, Framed, FrameFields
<1>3. PICK h : h = [g EXCEPT !.failed = f.phase]
  OBVIOUS
<1>4. DOMAIN h = FrameFields /\ h.logged = f.logged /\ h.result \in {f.result, res}
  BY <1>2, <1>3 DEF FrameFields
<1>5. ASSUME NEW x, NEW phase, NEW scope, DOMAIN x = FrameFields
      PROVE  At(x, phase, scope).logged = x.logged /\ At(x, phase, scope).result = x.result
  BY <1>5 DEF At, FrameFields
<1>6. \E phase, scope : Advance(f, res) \in {At(g, phase, scope), At(h, phase, scope)}
  <2>1. f.phase \in Phases
    BY DEF GoodFrame, Framed
  <2>2. CASE f.phase = "PRE_CMD"
    <3>1. CASE res < 0
      <4>1. Advance(f, res) = At(h, "POST_CMD_ERR", "ANY")
        BY <1>1, <1>2, <1>3, <2>2, <3>1 DEF Advance, IsLog
      <4> QED BY <4>1
    <3>2. CASE ~(res < 0)
      <4>1. Advance(f, res) \in {At(g, "PRE_CMD", "OWN"), At(g, "CMD", "ANY")}
        BY <1>1, <1>2, <2>2, <3>2 DEF Advance, IsLog
      <4> QED BY <4>1
    <3> QED BY <3>1, <3>2
  <2>3. CASE f.phase = "CMD"
    <3>1. CASE res < 0
      <4>1. Advance(f, res) = At(h, "POST_CMD_ERR", "ANY")
        BY <1>1, <1>2, <1>3, <2>3, <3>1 DEF Advance, IsLog
      <4> QED BY <4>1
    <3>2. CASE ~(res < 0)
      <4>1. Advance(f, res) \in {At(g, "CMD", "OWN"), At(g, "POST_CMD", "ANY")}
        BY <1>1, <1>2, <2>3, <3>2 DEF Advance, IsLog
      <4> QED BY <4>1
    <3> QED BY <3>1, <3>2
  <2>4. CASE f.phase = "POST_CMD"
    <3>1. Advance(f, res) \in {At(g, "POST_CMD", "OWN"), At(g, "LOG_CMD", "ANY")}
      BY <1>1, <1>2, <2>4 DEF Advance, IsLog
    <3> QED BY <3>1
  <2>5. CASE f.phase = "POST_CMD_ERR"
    <3>1. Advance(f, res) \in {At(g, "POST_CMD_ERR", "OWN"), At(g, "LOG_CMD_ERR", "ANY")}
      BY <1>1, <1>2, <2>5 DEF Advance, IsLog
    <3> QED BY <3>1
  <2>6. CASE IsLog(f.phase)
    <3>1. Advance(f, res) = At(g, IF f.scope = "ANY" THEN f.phase ELSE "END", "OWN")
      BY <1>1, <1>2, <2>6 DEF Advance, IsLog
    <3> QED BY <3>1
  <2> QED BY <2>1, <2>2, <2>3, <2>4, <2>5, <2>6 DEF Phases, IsLog
<1> QED BY <1>2, <1>4, <1>5, <1>6

LEMMA AdvanceTyped ==
    ASSUME NEW f, GoodFrame(f), Typed(f), f.phase # "END", NEW res \in {-1, 0, 1},
           IsLog(f.phase) /\ f.scope = "ANY" =>
              \A i \in DOMAIN Table :
                 Table[i].cmd = ANY /\ Table[i].phase = f.phase => i \in f.logged
    PROVE  GoodFrame(Advance(f, res)) /\ Typed(Advance(f, res))
<1>1. PICK g : g = Advance(f, res)
  OBVIOUS
<1>2. /\ GoodFrame(g) /\ SameCommand(f, g) /\ g.returns = "NONE" /\ g.todo = <<>>
      /\ g.row = 0 /\ g.num = R_DUP
  BY <1>1, AdvanceGood
<1>3. g.logged = f.logged /\ g.result \in {f.result, res}
  BY <1>1, AdvanceKeeps
<1>4. 0 \in 0..Len(Table) /\ g.failed \in {"NO", "PRE_CMD", "CMD"}
  BY <1>2, TableAssumption, ListFacts DEF GoodFrame, Framed
<1>5. FrameType(g)
  BY <1>2, <1>3, <1>4 DEF Typed, FrameType, SameCommand
<1> QED BY <1>1, <1>2, <1>5, NoCallsCoded DEF Typed

LEMMA CalledTyped ==
    ASSUME NEW f, GoodFrame(f), Typed(f), f.phase # "END", NextRow(f) # 0,
           NEW b \in Table[NextRow(f)].does
    PROVE  Typed(Called(f, b))
<1>1. PICK g, n : g = Called(f, b) /\ n = NextRow(f)
  OBVIOUS
<1>2. n \in DOMAIN Table /\ n \in 0..Len(Table)
  BY <1>1, NextRowIs, TableRows
<1>3. /\ GoodFrame(g) /\ SameCommand(f, g) /\ g.todo = b.calls /\ g.row = n /\ g.num = b.num
  BY <1>1, CalledGood
<1>4. g.result = f.result /\ (g.logged = f.logged \/ g.logged = f.logged \cup {n})
  BY <1>1 DEF Called, GoodFrame, Framed, FrameFields
<1>5. b.num \in {R_DUP} \cup ReplyCode /\ Coded(b.calls)
  BY <1>1, <1>2, CodeAssumption
<1>6. FrameType(g)
  BY <1>2, <1>3, <1>4 DEF Typed, FrameType, SameCommand, GoodFrame, Framed
<1> QED BY <1>1, <1>3, <1>5, <1>6 DEF Typed

LEMMA KeepLookingTyped ==
    ASSUME NEW f, GoodFrame(f), Typed(f), f.todo = <<>>
    PROVE  Typed([f EXCEPT !.returns = "NONE", !.num = R_DUP])
<1>1. PICK g : g = [f EXCEPT !.returns = "NONE", !.num = R_DUP]
  OBVIOUS
<1>2. /\ GoodFrame(g) /\ SameCommand(f, g) /\ g.todo = <<>> /\ g.row = f.row /\ g.num = R_DUP
  BY <1>1, KeepLookingGood
<1>3. g.result = f.result /\ g.logged = f.logged
  BY <1>1 DEF GoodFrame, Framed, FrameFields
<1>4. FrameType(g)
  BY <1>2, <1>3 DEF Typed, FrameType, SameCommand, GoodFrame, Framed
<1> QED BY <1>1, <1>2, <1>4, NoCallsCoded DEF Typed

LEMMA GoesOnTyped ==
    ASSUME NEW f, GoodFrame(f), Typed(f), f.todo # <<>>, NEW r, r = f.returns \/ r = "ERROR"
    PROVE  Typed(GoesOn(f, r))
<1>1. PICK g : g = GoesOn(f, r)
  OBVIOUS
<1>2. /\ GoodFrame(g) /\ SameCommand(f, g) /\ g.todo = Tail(f.todo) /\ g.row = f.row
      /\ g.num = f.num
  BY <1>1, CallMadeGood
<1>3. g.result = f.result /\ g.logged = f.logged
  BY <1>1 DEF GoesOn, GoodFrame, Framed, FrameFields
<1>4. FrameType(g)
  BY <1>2, <1>3 DEF Typed, FrameType, SameCommand, GoodFrame, Framed
<1>5. Coded(g.todo)
  BY <1>2, RestCoded DEF Typed, GoodFrame, Framed
<1> QED BY <1>1, <1>2, <1>4, <1>5 DEF Typed

LEMMA NewFrameTyped ==
    ASSUME NEW c, NEW client \in 1..MaxCommands, NEW saved \in {NULL, SESSION} \cup 1..MaxCommands
    PROVE  Typed(NewFrame(c, client, saved))
<1>1. PICK g : g = NewFrame(c, client, saved)
  OBVIOUS
<1>2. /\ g.client = client /\ g.saved = saved /\ g.row = 0 /\ g.result = 0 /\ g.failed = "NO"
      /\ g.logged = {} /\ g.returns = "NONE" /\ g.num = R_DUP /\ g.todo = <<>>
  BY <1>1 DEF NewFrame
<1>3. 0 \in 0..Len(Table)
  BY TableAssumption, ListFacts
<1>4. FrameType(g)
  BY <1>2, <1>3 DEF FrameType
<1> QED BY <1>1, <1>2, <1>4, NoCallsCoded DEF Typed
-----------------------------------------------------------------------------
LEMMA TopTyped ==
    ASSUME IInv, TypeInv, stack # <<>>
    PROVE  GoodFrame(top) /\ Typed(top) /\ top.client \in 1..MaxCommands
  BY TopOfStack DEF IInv, TypeInv, top, Typed, FrameType

(* The lists, with the last code, may change; the innermost command does.  *)
ListsTyped ==
    /\ Allocated(resp_list') /\ Allocated(resp_err_list')
    /\ resp_pool' \in {NULL, SESSION} \cup 1..MaxCommands
    /\ last_code' \in {NULL} \cup ReplyCode

LEMMA SetTopType ==
    ASSUME IInv, TypeInv, stack # <<>>, NEW g, GoodFrame(g), Typed(g), stack' = SetTop(g),
           nread' = nread, logged_in' \in BOOLEAN, ListsTyped
    PROVE  TypeInv'
<1>1. /\ DOMAIN stack' = DOMAIN stack /\ stack'[Len(stack)] = g
      /\ \A i \in DOMAIN stack : i # Len(stack) => stack'[i] = stack[i]
  BY StackSet DEF IInv, SetTop
<1>2. \A i \in DOMAIN stack' : Typed(stack'[i])
  BY <1>1 DEF TypeInv
<1> QED BY <1>2 DEF TypeInv, ListsTyped, Typed, FrameType, Allocated

LEMMA NoneAllocated == Allocated(<<>>)
  BY DEF Allocated

LEMMA InsertAllocated ==
    ASSUME IInv, TypeInv, stack # <<>>, resp_pool # NULL, NEW num,
           NEW list, Responses(list), Allocated(list)
    PROVE  Allocated(Insert(list, Response(num)))
<1>1. PICK r, new : r = Response(num) /\ new = Insert(list, r)
  OBVIOUS
<1>2. /\ DOMAIN r = {"num", "by", "pool"} /\ r.by \in 1..MaxCommands
      /\ r.pool \in {SESSION} \cup 1..MaxCommands
  BY <1>1, TopTyped DEF Response, TypeInv
<1>3. \A i \in DOMAIN new :
         /\ new[i].pool = r.pool \/ \E j \in DOMAIN list : new[i].pool = list[j].pool
         /\ new[i].by = r.by \/ \E j \in DOMAIN list : new[i].by = list[j].by
  BY <1>1, <1>2, InsertResponses
<1> QED BY <1>1, <1>2, <1>3 DEF Allocated

LEMMA AddedTyped ==
    ASSUME IInv, TypeInv, stack # <<>>, NEW num \in {R_DUP} \cup ReplyCode,
           pr_response_add(num) \/ pr_response_add_err(num)
    PROVE  ListsTyped
<1>1. /\ Responses(resp_list) /\ Responses(resp_err_list)
      /\ Allocated(resp_list) /\ Allocated(resp_err_list)
  BY DEF IInv, TypeInv
<1>2. /\ resp_pool' = resp_pool
      /\ last_code' = last_code \/ (last_code' = num /\ num # R_DUP)
  BY DEF pr_response_add, pr_response_add_err
<1>3. /\ resp_list' = resp_list \/ (resp_pool # NULL /\ resp_list' = Insert(resp_list, Response(num)))
      /\ \/ resp_err_list' = resp_err_list
         \/ resp_pool # NULL /\ resp_err_list' = Insert(resp_err_list, Response(num))
  BY DEF pr_response_add, pr_response_add_err
<1>4. Allocated(resp_list') /\ Allocated(resp_err_list')
  BY <1>1, <1>3, InsertAllocated
<1> QED BY <1>2, <1>4 DEF ListsTyped, TypeInv

LEMMA SentTyped ==
    ASSUME TypeInv, NEW num \in ReplyCode, NEW to, pr_response_send(num, to)
    PROVE  ListsTyped
  BY DEF TypeInv, pr_response_send, ListsTyped

LEMMA ListsKept ==
    ASSUME TypeInv, UNCHANGED lists PROVE ListsTyped
  BY DEF TypeInv, lists, ListsTyped
-----------------------------------------------------------------------------
LEMMA AuthCheckFailsType ==
    ASSUME IInv, TypeInv, AuthCheckFails PROVE TypeInv'
<1>1. /\ stack # <<>> /\ GoodFrame(top) /\ Typed(top) /\ top.phase # "END"
      /\ nread' = nread /\ logged_in' = logged_in
  BY TopTyped DEF AuthCheckFails, flags
<1>2. ~(IsLog(top.phase) /\ top.scope = "ANY")
  <2>1. NextRow(top) \in DOMAIN Table /\ Matches(top, NextRow(top)) /\ Table[NextRow(top)].requires_auth
    BY NextRowIs DEF AuthCheckFails
  <2> QED BY <2>1, LogAssumption DEF Matches, Match
<1>3. GoodFrame(Advance(top, -1)) /\ Typed(Advance(top, -1))
  BY <1>1, <1>2, AdvanceTyped
<1>4. ListsTyped
  <2>1. 530 \in ReplyCode
    BY DEF ReplyCode
  <2> QED BY <2>1, SentTyped DEF AuthCheckFails
<1> QED BY <1>1, <1>3, <1>4, SetTopType DEF AuthCheckFails, TypeInv

LEMMA CallHandlerType ==
    ASSUME IInv, TypeInv, CallHandler PROVE TypeInv'
<1>1. /\ stack # <<>> /\ GoodFrame(top) /\ Typed(top) /\ top.phase # "END" /\ NextRow(top) # 0
      /\ nread' = nread /\ logged_in' = logged_in /\ UNCHANGED lists
  BY TopTyped DEF CallHandler, flags
<1>2. PICK b \in Table[NextRow(top)].does : stack' = SetTop(Called(top, b))
  BY DEF CallHandler, Called
<1>3. GoodFrame(Called(top, b)) /\ Typed(Called(top, b))
  BY <1>1, CalledGood, CalledTyped
<1> QED BY <1>1, <1>2, <1>3, ListsKept, SetTopType DEF TypeInv

LEMMA NoHandlerLeftType ==
    ASSUME IInv, TypeInv, NoHandlerLeft PROVE TypeInv'
<1>1. /\ stack # <<>> /\ GoodFrame(top) /\ Typed(top) /\ top.phase # "END" /\ NextRow(top) = 0
      /\ nread' = nread /\ logged_in' = logged_in
  BY TopTyped DEF NoHandlerLeft, flags
<1>2. PICK res \in {-1, 0, 1} : stack' = SetTop(Advance(top, res))
  BY DEF NoHandlerLeft
<1>3. GoodFrame(Advance(top, res)) /\ Typed(Advance(top, res))
  BY <1>1, AllLogged, AdvanceTyped
<1>4. ListsTyped
  <2>1. 500 \in {R_DUP} \cup ReplyCode
    BY DEF ReplyCode
  <2>2. pr_response_add_err(500) \/ UNCHANGED lists
    BY DEF NoHandlerLeft
  <2> QED BY <1>1, <2>1, <2>2, AddedTyped, ListsKept
<1> QED BY <1>1, <1>2, <1>3, <1>4, SetTopType DEF TypeInv

LEMMA HandlerReturnsType ==
    ASSUME IInv, TypeInv, HandlerReturns PROVE TypeInv'
<1>1. /\ stack # <<>> /\ GoodFrame(top) /\ Typed(top) /\ Running(top) /\ top.todo = <<>>
      /\ nread' = nread /\ logged_in' = logged_in
  BY TopTyped DEF HandlerReturns, flags
<1>2. PICK g : /\ stack' = SetTop(g)
               /\ g = IF Result(top) = 0 THEN [top EXCEPT !.returns = "NONE", !.num = R_DUP]
                      ELSE Advance(top, Result(top))
  BY DEF HandlerReturns
<1>3. GoodFrame(g) /\ Typed(g)
  <2>1. CASE Result(top) = 0
    BY <1>1, <1>2, <2>1, KeepLookingGood, KeepLookingTyped
  <2>2. CASE Result(top) # 0
    <3>1. top.phase # "END"
      BY <1>1 DEF GoodFrame, EndsIdle, Running
    <3>2. Result(top) \in {-1, 0, 1} /\ ~(IsLog(top.phase) /\ top.scope = "ANY")
      BY <1>1, <2>2, ResultIs
    <3> QED BY <1>1, <1>2, <2>2, <3>1, <3>2, AdvanceTyped
  <2> QED BY <2>1, <2>2
<1>4. ListsTyped
  <2>1. top.num \in {R_DUP} \cup ReplyCode
    BY <1>1 DEF Typed
  <2>2. pr_response_add_err(top.num) \/ UNCHANGED lists
    BY DEF HandlerReturns
  <2> QED BY <1>1, <2>1, <2>2, AddedTyped, ListsKept
<1> QED BY <1>1, <1>2, <1>3, <1>4, SetTopType DEF TypeInv

LEMMA CallType ==
    ASSUME IInv, TypeInv,
           \/ HandlerAdds \/ HandlerAddsErr \/ HandlerSends \/ pr_data_abort
           \/ SetsFlag \/ TransferEnds
    PROVE  TypeInv'
<1>1. PICK op : Calls(op)
  BY DEF HandlerAdds, HandlerAddsErr, HandlerSends, pr_data_abort, SetsFlag, TransferEnds
<1>2. stack # <<>> /\ GoodFrame(top) /\ Typed(top) /\ top.todo # <<>> /\ GoodFrame(CallMade)
  BY <1>1, CallMadeIs, TopTyped
<1>3. Typed(CallMade)
  <2>1. CallMade = GoesOn(top, top.returns)
    BY <1>2 DEF CallMade, GoesOn, GoodFrame, Framed, FrameFields
  <2> QED BY <1>2, <2>1, GoesOnTyped
<1>4. /\ Head(top.todo).op \in {"add", "err"} => Arg \in {R_DUP} \cup ReplyCode
      /\ Head(top.todo).op = "send" => Arg \in ReplyCode
  BY <1>2, RestCoded DEF Typed, GoodFrame, Framed, Arg
<1>5. stack' = SetTop(CallMade) /\ nread' = nread
  BY DEF HandlerAdds, HandlerAddsErr, HandlerSends, pr_data_abort, SetsFlag, TransferEnds
<1>6. logged_in' = logged_in \/ logged_in' = TRUE
  BY DEF HandlerAdds, HandlerAddsErr, HandlerSends, pr_data_abort, SetsFlag, TransferEnds, flags
<1>7. logged_in' \in BOOLEAN
  BY <1>6 DEF TypeInv
<1>8. ListsTyped
  <2>1. CASE HandlerAdds
    <3>1. Arg \in {R_DUP} \cup ReplyCode /\ pr_response_add(Arg)
      BY <1>4, <2>1 DEF HandlerAdds, Calls
    <3> QED BY <1>2, <3>1, AddedTyped
  <2>2. CASE HandlerAddsErr
    <3>1. Arg \in {R_DUP} \cup ReplyCode /\ pr_response_add_err(Arg)
      BY <1>4, <2>2 DEF HandlerAddsErr, Calls
    <3> QED BY <1>2, <3>1, AddedTyped
  <2>3. CASE HandlerSends
    <3>1. Arg \in ReplyCode /\ pr_response_send(Arg, top.client)
      BY <1>4, <2>3 DEF HandlerSends, Calls
    <3> QED BY <3>1, SentTyped
  <2>4. CASE pr_data_abort
    BY <2>4 DEF pr_data_abort, ListsTyped, TypeInv
  <2>5. CASE SetsFlag \/ TransferEnds
    BY <2>5, ListsKept DEF SetsFlag, TransferEnds
  <2> QED BY <2>1, <2>2, <2>3, <2>4, <2>5
<1> QED BY <1>2, <1>3, <1>5, <1>7, <1>8, SetTopType

(* Entry of pr_cmd_dispatch. *)
LEMMA BeginType ==
    ASSUME IInv, TypeInv, NEW below, GoodStack(below), below # <<>> => Waits(below[Len(below)]),
           \A i \in DOMAIN below : Typed(below[i]),
           NEW c, NEW client \in 1..MaxCommands, Begin(c, client, below),
           nread' \in 0..MaxCommands, logged_in' = logged_in
    PROVE  TypeInv'
<1>1. PICK g : g = NewFrame(c, client, resp_pool)
  OBVIOUS
<1>2. GoodFrame(g) /\ Typed(g)
  BY <1>1, NewFrameGood, NewFrameTyped DEF TypeInv
<1>3. /\ Len(below) \in Nat /\ DOMAIN below = 1..Len(below)
      /\ DOMAIN stack' = 1..(Len(below) + 1) /\ stack'[Len(below) + 1] = g
      /\ \A i \in DOMAIN below : stack'[i] = below[i]
  BY <1>1, <1>2, StackPushed DEF Begin
<1>4. \A i \in 1..(Len(below) + 1) : i = Len(below) + 1 \/ i \in 1..Len(below)
  BY <1>3
<1>5. \A i \in DOMAIN stack' : Typed(stack'[i])
  BY <1>2, <1>3, <1>4
<1>6. ListsTyped
  BY DEF Begin, ListsTyped, Allocated
<1>7. logged_in' \in BOOLEAN
  BY DEF TypeInv
<1> QED BY <1>5, <1>6, <1>7 DEF TypeInv, ListsTyped, Typed, FrameType, Allocated

LEMMA NumberOfNext ==
    ASSUME TypeInv, nread < MaxCommands
    PROVE  nread + 1 \in 1..MaxCommands /\ nread + 1 \in 0..MaxCommands
  BY BoundAssumption DEF TypeInv

LEMMA DispatchSubType ==
    ASSUME IInv, TypeInv, DispatchSub PROVE TypeInv'
<1>1. PICK op \in {"sub", "subres"} : Calls(op)
  BY DEF DispatchSub
<1>2. GoodStack(stack) /\ Waits(stack[Len(stack)]) /\ stack # <<>>
  BY <1>1 DEF IInv, Calls, Waits, top
<1>3. /\ Begin(Arg, top.client, stack) /\ top.client \in 1..MaxCommands
      /\ nread' = nread /\ logged_in' = logged_in
  BY <1>2, TopTyped DEF DispatchSub, flags
<1> QED BY <1>2, <1>3, BeginType DEF TypeInv

LEMMA PollType ==
    ASSUME IInv, TypeInv,
           \/ \E c \in XferCommands : PollBusy(c) \/ PollNoop(c) \/ PollDispatch(c)
           \/ PollInvalid
    PROVE  TypeInv'
<1>1. nread + 1 \in 1..MaxCommands /\ nread + 1 \in 0..MaxCommands /\ stack # <<>>
  BY NumberOfNext DEF PollBusy, PollNoop, PollDispatch, PollInvalid, CanPoll, Calls
<1>2. ASSUME UNCHANGED <<flags, stack>>, nread' = nread + 1, ListsTyped PROVE TypeInv'
  BY <1>1, <1>2 DEF TypeInv, flags, ListsTyped, Typed, FrameType, Allocated
<1>3. ASSUME NEW c, PollBusy(c) \/ PollNoop(c) PROVE TypeInv'
  <2>1. ListsTyped
    <3>1. /\ resp_list' = <<>> /\ resp_err_list' = <<>> /\ last_code' = NULL
          /\ resp_pool' = resp_pool
      BY <1>3 DEF PollBusy, PollNoop, PollAnswers
    <3> QED BY <3>1, NoneAllocated DEF ListsTyped, TypeInv
  <2> QED BY <1>2, <1>3, <2>1 DEF PollBusy, PollNoop, PollAnswers
<1>4. ASSUME NEW c, PollDispatch(c) PROVE TypeInv'
  <2>1. GoodStack(stack) /\ Waits(stack[Len(stack)])
    BY <1>4 DEF IInv, Calls, Waits, top, PollDispatch, CanPoll
  <2>2. Begin(c, nread + 1, stack) /\ nread' \in 0..MaxCommands /\ logged_in' = logged_in
    BY <1>1, <1>4 DEF PollDispatch, flags
  <2> QED BY <1>1, <2>1, <2>2, BeginType DEF TypeInv
<1>5. CASE PollInvalid
  <2>1. ListsTyped
    <3>1. 500 \in ReplyCode
      BY DEF ReplyCode
    <3> QED BY <1>5, <3>1, SentTyped DEF PollInvalid
  <2> QED BY <1>2, <1>5, <2>1 DEF PollInvalid
<1> QED BY <1>3, <1>4, <1>5

LEMMA ReadType ==
    ASSUME IInv, TypeInv,
           (\E c \in Commands \cup EarlyCommands : ReadCommand(c)) \/ InvalidCommand
    PROVE  TypeInv'
<1>1. nread + 1 \in 1..MaxCommands /\ nread + 1 \in 0..MaxCommands
  BY NumberOfNext DEF ReadCommand, InvalidCommand
<1>2. ASSUME NEW c, ReadCommand(c) PROVE TypeInv'
  <2>1. /\ Begin(c, nread + 1, <<>>) /\ nread' \in 0..MaxCommands /\ logged_in' = logged_in
        /\ GoodStack(<<>>) /\ DOMAIN <<>> = {}
    BY <1>1, <1>2 DEF ReadCommand, flags, IInv
  <2> QED BY <1>1, <2>1, BeginType
<1>3. CASE InvalidCommand
  <2>1. /\ nread' = nread + 1 /\ logged_in' = logged_in /\ stack' = stack
        /\ resp_list' = resp_list /\ resp_err_list' = resp_err_list /\ resp_pool' = resp_pool
        /\ last_code' = NULL
    BY <1>3 DEF InvalidCommand, flags
  <2> QED BY <1>1, <2>1 DEF TypeInv, Typed, FrameType, Allocated
<1> QED BY <1>2, <1>3

LEMMA EndDispatchType ==
    ASSUME IInv, TypeInv, EndDispatch PROVE TypeInv'
<1>1. PICK m, n : m = Len(stack) /\ n = m - 1
  OBVIOUS
<1>2. /\ stack # <<>> /\ m \in Nat /\ m > 0 /\ DOMAIN stack = 1..m
      /\ top = stack[m] /\ Typed(top)
  BY <1>1, TopOfStack, TopTyped DEF IInv, EndDispatch, top
<1>3. ListsTyped
  <2>1. resp_pool' = top.saved /\ last_code' \in {NULL, last_code}
    BY DEF EndDispatch, FlushedLast
  <2>2. resp_list' \in {<<>>, resp_list} /\ resp_err_list' \in {<<>>, resp_err_list}
    BY DEF EndDispatch
  <2>3. Allocated(<<>>)
    BY NoneAllocated
  <2>4. Allocated(resp_list') /\ Allocated(resp_err_list')
    BY <2>2, <2>3 DEF TypeInv
  <2> QED BY <1>2, <2>1, <2>4 DEF ListsTyped, TypeInv, Typed, FrameType
<1>4. nread' = nread /\ logged_in' = logged_in
  BY DEF EndDispatch, flags
<1>5. \A i \in DOMAIN stack' : Typed(stack'[i])
  <2>1. CASE m = 1
    <3>1. stack' = <<>> /\ DOMAIN stack' = {}
      BY <1>1, <2>1, Ended
    <3> QED BY <3>1
  <2>2. CASE m # 1
    <3>1. PICK g : g = stack[n]
      OBVIOUS
    <3>2. /\ n \in 1..m /\ DOMAIN stack' = 1..n /\ GoodFrame(g) /\ Waits(g)
          /\ stack'[n] = CallerResumes(stack[m], g)
          /\ \A i \in 1..n : i # n => stack'[i] = stack[i]
      BY <1>1, <2>2, <3>1, Ended
    <3>3. \A i \in 1..n : i \in DOMAIN stack
      BY <1>1, <1>2, <3>2
    <3>4. Typed(g)
      BY <1>2, <3>1, <3>2 DEF TypeInv
    <3>5. Typed(CallerResumes(stack[m], g))
      <4>1. CASE g.client # stack[m].client
        BY <3>4, <4>1 DEF CallerResumes
      <4>2. CASE g.client = stack[m].client
        <5>1. PICK r : r = IF Head(g.todo).op = "subres" /\ stack[m].result < 0 THEN "ERROR" ELSE g.returns
          OBVIOUS
        <5>2. DOMAIN g = FrameFields
          BY <3>2 DEF GoodFrame, Framed
        <5>3. CallerResumes(stack[m], g) = GoesOn(g, r)
          BY <4>2, <5>1, <5>2 DEF CallerResumes, GoesOn, FrameFields
        <5>4. r = g.returns \/ r = "ERROR"
          BY <5>1
        <5>5. Typed(GoesOn(g, r))
          BY <3>2, <3>4, <5>4, GoesOnTyped DEF Waits
        <5> QED BY <5>3, <5>5
      <4> QED BY <4>1, <4>2
    <3> QED BY <3>2, <3>3, <3>5 DEF TypeInv
  <2> QED BY <2>1, <2>2
<1> QED BY <1>3, <1>4, <1>5 DEF TypeInv, ListsTyped, Typed, FrameType, Allocated

LEMMA NextType ==
    ASSUME IInv, TypeInv, [Next]_vars PROVE TypeInv'
<1>1. CASE UNCHANGED vars
  BY <1>1 DEF vars, flags, lists, TypeInv, Typed, FrameType, Allocated
<1>2. CASE Next
  BY <1>2, ReadType, AuthCheckFailsType, CallHandlerType, NoHandlerLeftType,
     HandlerReturnsType, CallType, DispatchSubType, PollType, EndDispatchType DEF Next
<1> QED BY <1>1, <1>2

LEMMA InitType == Init => TypeInv
<1> SUFFICES ASSUME Init PROVE TypeInv
  OBVIOUS
<1>1. /\ nread = 0 /\ logged_in = FALSE /\ DOMAIN stack = {} /\ resp_list = <<>>
      /\ resp_err_list = <<>> /\ resp_pool = NULL /\ last_code = NULL
  BY DEF Init
<1>2. 0 \in 0..MaxCommands
  BY BoundAssumption
<1>3. nread \in 0..MaxCommands /\ logged_in \in BOOLEAN
  BY <1>1, <1>2
<1>4. Allocated(resp_list) /\ Allocated(resp_err_list)
  BY <1>1, NoneAllocated
<1> QED BY <1>1, <1>3, <1>4 DEF TypeInv

(* Type correctness: rows are rows of the table, commands and pools are     *)
(* numbered within the bound, codes are codes; in particular no response    *)
(* is ever allocated without a pool, and pr_response_get_last finds a code  *)
(* or nothing, never R_DUP.                                                 *)
THEOREM TypeCorrect == Spec => []TypeOK
<1>1. Init => TypeInv /\ IInv /\ RenameInv /\ AnswerInv
  BY InitIInv, InitRename, InitAnswer, InitType
<1>2. TypeInv /\ IInv /\ RenameInv /\ AnswerInv /\ [Next]_vars
         => (TypeInv /\ IInv /\ RenameInv /\ AnswerInv)'
  BY NextIInv, NextRename, NextAnswer, NextType
<1>3. ASSUME TypeInv, IInv, RenameInv, AnswerInv PROVE TypeOK
  <2>1. {authenticated, logged_in, rnfr} \subseteq BOOLEAN
    BY <1>3 DEF TypeInv, RenameInv
  <2>2. \A r \in Range(resp_list) \cup Range(resp_err_list) :
          r.by \in 1..MaxCommands /\ r.pool \in {SESSION} \cup 1..MaxCommands
    BY <1>3 DEF TypeInv, Allocated, Range
  <2>3. \A d \in done : d.id \in 1..nread
    BY <1>3 DEF AnswerInv, Over
  <2>4. \A i \in DOMAIN stack : FrameType(stack[i])
    BY <1>3 DEF TypeInv, Typed
  <2> QED BY <1>3, <2>1, <2>2, <2>3, <2>4 DEF TypeOK, TypeInv, ReplyCode
<1>4. TypeInv /\ IInv /\ RenameInv /\ AnswerInv => TypeOK
  BY <1>3
<1> QED BY <1>1, <1>2, <1>4, PTL DEF Spec
=============================================================================
