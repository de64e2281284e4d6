---------------------------- MODULE QuotaProofs -----------------------------
(***************************************************************************)
(* Proofs about Quota, for any number of sessions, users, files and        *)
(* records, any limits, and every way of logging in.                       *)
(***************************************************************************)
EXTENDS Quota, WellFoundedInduction, FiniteSetTheorems, TLAPS

(* What the invariants look at in another session stays.                   *)
Undisturbed(s) ==
    \A t \in Sessions \ {s} :
        /\ ss'[t].pc = ss[t].pc /\ ss'[t].pos = ss[t].pos
        /\ ss'[t].rc = ss[t].rc /\ ss'[t].wc = ss[t].wc
        /\ ss'[t].tally = ss[t].tally /\ ss'[t].dele = ss[t].dele
        /\ ss'[t].inc = ss[t].inc /\ ss'[t].then = ss[t].then
        /\ (ss'[t].upd <=> ss[t].upd) /\ (ss'[t].st <=> ss[t].st)

KeepsPlace(s) ==
    ss'[s].pos = ss[s].pos /\ ss'[s].rc = ss[s].rc /\ ss'[s].wc = ss[s].wc
KeepsTally(s) == ss'[s].tally = ss[s].tally /\ ss'[s].dele = ss[s].dele
KeepsWrite(s) == ss'[s].inc = ss[s].inc /\ ss'[s].then = ss[s].then
KeepsFlag(s) == (ss'[s].upd <=> ss[s].upd) /\ (ss'[s].st <=> ss[s].st)

(* A session that waits for a command again, or has been ended.            *)
Rests(s) ==
    /\ ss'[s].pc \in {"idle", "ending"} /\ KeepsPlace(s) /\ ss'[s].tally = ss[s].tally
    /\ ~ss'[s].dele /\ ss'[s].inc.b = 0 /\ ss'[s].then = "idle"
    /\ ~ss'[s].st

(* A session that is going to write its tally.                             *)
Intends(s, b, place) ==
    /\ ss'[s].pc = "wlock" /\ ss'[s].inc.b = b /\ ss'[s].then = place
    /\ ss'[s].rc = ss[s].rc /\ ss'[s].wc = ss[s].wc
    /\ ss'[s].tally = ss[s].tally

(* A session that has written, or given up, goes on where its caller said. *)
Follows(y, place) == y.pc = place \/ (place = "idle" /\ y.pc = "ending")

(* Removing a file, or not, disturbs nobody.                               *)
LEMMA SessionGoes ==
  ASSUME TypeOK, NEW s \in Sessions, NEW y \in Session,
         \/ ss' = [ss EXCEPT ![s] = y]
         \/ \E f \in Files : ss' = Unlinked(f, [ss EXCEPT ![s] = y])
  PROVE  /\ Undisturbed(s) /\ ss' \in [Sessions -> Session]
         /\ ss'[s].pc = y.pc /\ ss'[s].pos = y.pos
         /\ ss'[s].rc = y.rc /\ ss'[s].wc = y.wc
         /\ ss'[s].tally = y.tally /\ ss'[s].dele = y.dele
         /\ ss'[s].inc = y.inc /\ ss'[s].then = y.then
         /\ (ss'[s].upd <=> y.upd) /\ (ss'[s].st <=> y.st)
<1>1. CASE ss' = [ss EXCEPT ![s] = y]
  BY <1>1 DEF TypeOK, Undisturbed
<1>2. ASSUME NEW f \in Files, ss' = Unlinked(f, [ss EXCEPT ![s] = y])
      PROVE  /\ Undisturbed(s) /\ ss' \in [Sessions -> Session]
             /\ ss'[s].pc = y.pc /\ ss'[s].pos = y.pos
             /\ ss'[s].rc = y.rc /\ ss'[s].wc = y.wc
             /\ ss'[s].tally = y.tally /\ ss'[s].dele = y.dele
             /\ ss'[s].inc = y.inc /\ ss'[s].then = y.then
             /\ (ss'[s].upd <=> y.upd) /\ (ss'[s].st <=> y.st)
  <2> PICK x : x = [ss EXCEPT ![s] = y]
    OBVIOUS
  <2>1. x \in [Sessions -> Session] /\ x[s] = y
        /\ \A t \in Sessions \ {s} : x[t] = ss[t]
    BY DEF TypeOK
  <2>2. \A t \in Sessions :
           ss'[t] = [x[t] EXCEPT !.fd = @ /\ x[t].file # f]
    BY <1>2 DEF Unlinked
  <2>3. ss' = [t \in Sessions |-> ss'[t]]
    BY <1>2 DEF Unlinked
  <2>4. ASSUME NEW t \in Sessions
        PROVE  /\ ss'[t].pc = x[t].pc /\ ss'[t].pos = x[t].pos
               /\ ss'[t].rc = x[t].rc /\ ss'[t].wc = x[t].wc
               /\ ss'[t].tally = x[t].tally /\ ss'[t].dele = x[t].dele
               /\ ss'[t].inc = x[t].inc /\ ss'[t].then = x[t].then
               /\ (ss'[t].upd <=> x[t].upd) /\ (ss'[t].st <=> x[t].st)
               /\ ss'[t] \in Session
    <3>1. PICK v \in BOOLEAN : v = (x[t].fd /\ x[t].file # f)
      OBVIOUS
    <3>2. ss'[t] = [x[t] EXCEPT !.fd = v]
      BY <2>2, <3>1
    <3>3. x[t] \in Session
      BY <2>1
    <3> HIDE DEF Undisturbed
    <3> QED BY ONLY <3>2, <3>3, v \in BOOLEAN DEF Session
  <2> QED BY <2>1, <2>3, <2>4 DEF Undisturbed
<1> QED BY <1>1, <1>2

(* What stor_abort leaves.                                                 *)
LEMMA StorAbortGoes ==
  ASSUME TypeOK, NEW s \in Sessions, NEW x \in Session,
         NEW d \in [Files -> [size : Nat \cup {Absent}, owner : Users]],
         stor_abort(s, x, d)
  PROVE  /\ disk' \in [Files -> [size : Nat \cup {Absent}, owner : Users]]
         /\ \/ ss' = [ss EXCEPT ![s] = x]
            \/ \E f \in Files : ss' = Unlinked(f, [ss EXCEPT ![s] = x])
<1> PICK f : f = ss[s].file
  OBVIOUS
<1>1. f \in Files
  BY DEF TypeOK, Session
<1>2. /\ disk' = d \/ disk' = [d EXCEPT ![f].size = Absent]
      /\ \/ ss' = [ss EXCEPT ![s] = x]
         \/ ss' = Unlinked(f, [ss EXCEPT ![s] = x])
  BY DEF stor_abort
<1> PICK a, A : a = Absent /\ A = Nat \cup {Absent}
  OBVIOUS
<1>3. /\ a \in A /\ d \in [Files -> [size : A, owner : Users]]
      /\ disk' = d \/ disk' = [d EXCEPT ![f].size = a]
  BY <1>2
<1>4. disk' \in [Files -> [size : A, owner : Users]]
  BY ONLY <1>1, <1>3
<1> QED BY <1>1, <1>2, <1>4

(* A session as it begins.                                                 *)
LEMMA FreshSession ==
  ASSUME TypeOK, NEW s \in Sessions
  PROVE  /\ Fresh(s) \in Session
         /\ Fresh(s).pc = "new" /\ Fresh(s).pos = 1
         /\ Fresh(s).rc = 0 /\ Fresh(s).wc = 0 /\ ~Fresh(s).upd
         /\ ~Fresh(s).dele /\ Fresh(s).inc.b = 0 /\ Fresh(s).then = "idle"
         /\ ~Fresh(s).st
<1>1. \E f \in Files : TRUE
  BY QuotaAssumption
<1>2. (CHOOSE f \in Files : TRUE) \in Files
  BY <1>1
<1> PICK c : c = CHOOSE f \in Files : TRUE
  OBVIOUS
<1>3. conf.user[s] \in Users
  BY DEF TypeOK
<1> PICK z : z = Zero(UserOf[s])
  OBVIOUS
<1>4. z \in Record
  BY <1>3 DEF Zero, UserOf, Record
<1>5. Fresh(s) =
        [pc |-> "new", pos |-> 1, tally |-> z, rc |-> 0, wc |-> 0,
         upd |-> FALSE, quits |-> FALSE, file |-> c, nb |-> 0,
         total |-> 0, fd |-> FALSE, owner |-> conf.user[s], st |-> FALSE,
         inc |-> [b |-> 0, f |-> 0], dele |-> FALSE,
         dtally |-> z, then |-> "idle"]
  BY DEF Fresh, UserOf
<1> QED BY <1>2, <1>3, <1>4, <1>5 DEF Session, Places, Increment

(* A session between two commands.                                         *)
LEMMA IdleSession ==
  ASSUME TypeOK, NEW s \in Sessions, NEW x \in Session
  PROVE  /\ Idle(s, x) \in Session
         /\ Idle(s, x).pc \in {"idle", "ending"} /\ Idle(s, x).pos = x.pos
         /\ Idle(s, x).rc = x.rc /\ Idle(s, x).wc = x.wc
         /\ Idle(s, x).tally = x.tally /\ ~Idle(s, x).dele
         /\ Idle(s, x).inc.b = 0 /\ Idle(s, x).then = "idle"
         /\ (Idle(s, x).upd <=> x.upd) /\ ~Idle(s, x).st
<1> PICK z : z = Fresh(s)
  OBVIOUS
<1>1. z \in Session /\ ~z.dele /\ z.inc.b = 0 /\ z.then = "idle" /\ ~z.st
  BY FreshSession
<1> PICK p \in {"idle", "ending"} : p = IF x.quits THEN "ending" ELSE "idle"
  OBVIOUS
<1> PICK y : y = Idle(s, x)
  OBVIOUS
<1>2. y = [z EXCEPT !.pc = p, !.pos = x.pos, !.tally = x.tally,
                    !.rc = x.rc, !.wc = x.wc, !.upd = x.upd]
  BY DEF Idle
<1>3. p \in Places
  BY DEF Places
<1>4. y \in Session /\ y.pc = p /\ y.pos = x.pos /\ y.rc = x.rc
      /\ y.wc = x.wc /\ y.tally = x.tally /\ (y.upd <=> x.upd)
      /\ y.dele = z.dele /\ y.inc = z.inc /\ y.then = z.then /\ y.st = z.st
  BY ONLY <1>1, <1>2, <1>3, x \in Session DEF Session
<1> QED BY <1>1, <1>4

(* A session that is about to write.                                       *)
LEMMA WritesSession ==
  ASSUME TypeOK, NEW s \in Sessions, NEW b \in Int, NEW f \in {-1, 0, 1},
         NEW place \in Places
  PROVE  /\ Writes(s, b, f, place) \in Session
         /\ Writes(s, b, f, place).pc = "wlock"
         /\ Writes(s, b, f, place).inc.b = b
         /\ Writes(s, b, f, place).then = place
         /\ Writes(s, b, f, place).pos = ss[s].pos
         /\ Writes(s, b, f, place).rc = ss[s].rc
         /\ Writes(s, b, f, place).wc = ss[s].wc
         /\ Writes(s, b, f, place).tally = ss[s].tally
         /\ Writes(s, b, f, place).dele = ss[s].dele
         /\ Writes(s, b, f, place).upd <=> ss[s].upd
         /\ Writes(s, b, f, place).st <=> ss[s].st
<1> PICK i : i = [b |-> b, f |-> f]
  OBVIOUS
<1>1. i \in Increment /\ i.b = b
  BY DEF Increment
<1>2. Writes(s, b, f, place) =
        [ss[s] EXCEPT !.pc = "wlock", !.inc = i, !.then = place]
  BY DEF Writes
<1>3. ss[s] \in Session
  BY DEF TypeOK
<1>4. "wlock" \in Places
  BY DEF Places
<1>5. Writes(s, b, f, place) \in Session
  BY ONLY <1>1, <1>2, <1>3, <1>4, place \in Places DEF Session
<1> QED BY ONLY <1>1, <1>2, <1>3, <1>5 DEF Session

(* A session that goes on somewhere else.                                  *)
LEMMA ToSession ==
  ASSUME TypeOK, NEW s \in Sessions, NEW place \in Places
  PROVE  /\ To(s, place) \in Session
         /\ To(s, place) = [ss[s] EXCEPT !.pc = place]
BY DEF To, TypeOK, Session

(* A session without an update.                                            *)
LEMMA SettledSession ==
  ASSUME TypeOK, NEW s \in Sessions
  PROVE  /\ Settled(s) \in Session
         /\ Settled(s) = [ss[s] EXCEPT !.upd = FALSE]
BY DEF Settled, TypeOK, Session

(* Sizes of files, and their differences.                                  *)
LEMMA GrowthInt ==
  ASSUME TypeOK, NEW s \in Sessions
  PROVE  Growth(s) \in Int /\ Size(ss[s].file) \in Nat
BY DEF Growth, Size, Exists, Absent, TypeOK, Session

(* What quotatab_write makes of a record.                                  *)
LEMMA BumpedRecord ==
  ASSUME NEW r \in Record, NEW inc \in Increment
  PROVE  /\ Bumped(r, inc) \in Record
         /\ Bumped(r, inc).b = (IF r.b + inc.b < 0 THEN 0 ELSE r.b + inc.b)
         /\ Bumped(r, inc).user = r.user
<1>1. Bumped(r, inc) = [r EXCEPT !.b = IF r.b + inc.b < 0 THEN 0 ELSE r.b + inc.b,
                                 !.f = IF r.f = 0 /\ inc.f < 0 THEN r.f ELSE r.f + inc.f]
  BY DEF Bumped
<1>2. /\ r.b \in Nat /\ r.f \in Nat /\ inc.b \in Int
      /\ inc.f = -1 \/ inc.f = 0 \/ inc.f = 1
  BY DEF Record, Increment
<1> PICK nb, nf : /\ nb = IF r.b + inc.b < 0 THEN 0 ELSE r.b + inc.b
                  /\ nf = IF r.f = 0 /\ inc.f < 0 THEN r.f ELSE r.f + inc.f
  OBVIOUS
<1>3. nb \in Nat /\ nf \in Nat
  BY <1>2
<1>4. Bumped(r, inc) = [r EXCEPT !.b = nb, !.f = nf]
  BY <1>1
<1> QED BY <1>3, <1>4 DEF Record

(* A session that settles its update and waits.                            *)
LEMMA SettlesIdle ==
  ASSUME TypeOK, NEW s \in Sessions
  PROVE  LET y == Idle(s, Settled(s)) IN
         /\ y \in Session /\ y.pc \in {"idle", "ending"} /\ y.pos = ss[s].pos
         /\ y.rc = ss[s].rc /\ y.wc = ss[s].wc /\ y.tally = ss[s].tally
         /\ ~y.dele /\ y.inc.b = 0 /\ y.then = "idle" /\ ~y.upd /\ ~y.st
<1> PICK x : x = Settled(s)
  OBVIOUS
<1>1. /\ x \in Session /\ x.pos = ss[s].pos /\ x.rc = ss[s].rc /\ x.wc = ss[s].wc
      /\ x.tally = ss[s].tally /\ ~x.upd
  BY DEF Settled, TypeOK, Session
<1> QED BY <1>1, IdleSession

(* A session after quotatab_write.                                         *)
LEMMA WrittenSession ==
  ASSUME TypeOK, NEW s \in Sessions, NEW x \in Session
  PROVE  LET y == Written(s, x) IN
         /\ y \in Session /\ y.pos = x.pos /\ y.rc = x.rc /\ y.wc = x.wc
         /\ y.tally = x.tally /\ Follows(y, ss[s].then) /\ ~y.upd
         /\ ss[s].then = "idle" =>
               y.then = "idle" /\ ~y.dele /\ y.inc.b = 0 /\ ~y.st
         /\ ss[s].then # "idle" =>
               y.then = x.then /\ y.dele = x.dele /\ y.inc = x.inc
<1> PICK z : z = [x EXCEPT !.pc = ss[s].then, !.upd = FALSE]
  OBVIOUS
<1>1. ss[s].then \in Places
  BY DEF TypeOK, Session
<1>2. /\ z \in Session /\ z.pos = x.pos /\ z.rc = x.rc /\ z.wc = x.wc
      /\ z.tally = x.tally /\ ~z.upd /\ z.pc = ss[s].then
      /\ z.then = x.then /\ z.dele = x.dele /\ z.inc = x.inc
  BY <1>1 DEF Session
<1>3. Written(s, x) = IF ss[s].then = "idle" THEN Idle(s, z) ELSE z
  BY DEF Written
<1>4. CASE ss[s].then = "idle"
  <2>1. Written(s, x) = Idle(s, z)
    BY <1>3, <1>4
  <2>2. /\ Idle(s, z) \in Session /\ Idle(s, z).pc \in {"idle", "ending"}
        /\ Idle(s, z).pos = z.pos /\ Idle(s, z).rc = z.rc
        /\ Idle(s, z).wc = z.wc /\ Idle(s, z).tally = z.tally
        /\ ~Idle(s, z).dele /\ Idle(s, z).inc.b = 0
        /\ Idle(s, z).then = "idle" /\ (Idle(s, z).upd <=> z.upd)
        /\ ~Idle(s, z).st
    <3>1. z \in Session
      BY <1>2
    <3> QED BY ONLY TypeOK, s \in Sessions, <3>1, IdleSession
  <2> QED BY <1>2, <1>4, <2>1, <2>2 DEF Follows
<1>5. CASE ss[s].then # "idle"
  <2>1. Written(s, x) = z
    BY <1>3, <1>5
  <2> QED BY <1>2, <1>5, <2>1 DEF Follows
<1> QED BY <1>4, <1>5

-----------------------------------------------------------------------------
(* What each action does to its session, and that it leaves others alone.  *)

(* What taking QuotaLock at login changes.                                 *)
LEMMA LoginLockEffect ==
  ASSUME TypeOK, NEW s \in Sessions, LoginLock(s)
  PROVE  /\ Undisturbed(s)
         /\ UNCHANGED <<left, table, locks, disk, due, conf>>
         /\ ss[s].pc = "new"
         /\ ss'[s].pc = "lookup"
         /\ KeepsPlace(s)
         /\ KeepsTally(s)
         /\ KeepsWrite(s)
         /\ KeepsFlag(s)
         /\ \/ mutex \subseteq {s} /\ mutex' = {s} /\ odd' = odd
            \/ mutex' = mutex /\ odd' = odd \cup {"unserialised"}
<1>1. \/ mutex \subseteq {s} /\ mutex' = {s} /\ odd' = odd
      \/ mutex' = mutex /\ odd' = odd \cup {"unserialised"}
  BY DEF LoginLock, quotatab_mutex_lock
<1>2. UNCHANGED <<left, table, locks, disk, due, conf>> /\ ss[s].pc = "new"
  BY DEF LoginLock, At
<1>3. ss' = [ss EXCEPT ![s] = [ss[s] EXCEPT !.pc = "lookup"]]
  BY DEF LoginLock, Goes, To
<1>4. /\ Undisturbed(s) /\ ss'[s].pc = "lookup"
      /\ KeepsPlace(s) /\ KeepsTally(s) /\ KeepsWrite(s) /\ KeepsFlag(s)
  BY <1>3
     DEF Undisturbed, KeepsPlace, KeepsTally, KeepsWrite, KeepsFlag,
         TypeOK,
              Session
<1> QED BY <1>1, <1>2, <1>4

(* What the lookup of the user's record changes.                           *)
LEMMA LoginLookupEffect ==
  ASSUME TypeOK, NEW s \in Sessions, LoginLookup(s)
  PROVE  /\ Undisturbed(s)
         /\ UNCHANGED <<left, table, locks, mutex, disk, due, odd, conf>>
         /\ ss[s].pc = "lookup"
         /\ ss'[s].pos = Lookup(UserOf[s])
         /\ ss'[s].rc = ss[s].rc /\ ss'[s].wc = ss[s].wc
         /\ ss'[s].dele = ss[s].dele
         /\ KeepsWrite(s)
         /\ KeepsFlag(s)
         /\ \/ /\ Found(UserOf[s]) /\ ss'[s].pc = "release"
               /\ ss'[s].tally = table[Lookup(UserOf[s])]
            \/ /\ ~Found(UserOf[s]) /\ ss'[s].pc = "create"
               /\ ss'[s].tally = Zero(UserOf[s])
BY DEF LoginLookup, Goes, To, At, Undisturbed, KeepsPlace, KeepsTally,
       KeepsWrite, KeepsFlag, TypeOK, Session, Increment

(* What the lock of quotatab_create changes.                               *)
LEMMA CreateLockEffect ==
  ASSUME TypeOK, NEW s \in Sessions, CreateLock(s)
  PROVE  /\ Undisturbed(s)
         /\ UNCHANGED <<left, table, mutex, disk, due, odd, conf>>
         /\ ss[s].pc = "create"
         /\ ss'[s].pc = "append"
         /\ ss'[s].pos = ss[s].pos /\ ss'[s].rc = ss[s].rc
         /\ ss'[s].wc = ss[s].wc + 1
         /\ KeepsTally(s)
         /\ KeepsWrite(s)
         /\ KeepsFlag(s)
         /\ ss[s].wc = 0 =>
               ~Conflict(s, "w") /\ locks' = SetLock(s, ss[s].pos, {"w"})
         /\ ss[s].wc # 0 => locks' = locks
BY DEF CreateLock, Goes, To, At, Undisturbed, KeepsPlace, KeepsTally,
       KeepsWrite, KeepsFlag, TypeOK, Session, Increment, quotatab_wlock,
       CannotWrite

(* What a record that cannot be locked changes.                            *)
LEMMA CreateFailsEffect ==
  ASSUME TypeOK, NEW s \in Sessions, CreateFails(s)
  PROVE  /\ Undisturbed(s)
         /\ UNCHANGED <<left, table, locks, disk, due, odd, conf>>
         /\ ss[s].pc = "create"
         /\ ss'[s].pc = "off"
         /\ KeepsPlace(s)
         /\ KeepsTally(s)
         /\ KeepsWrite(s)
         /\ KeepsFlag(s)
         /\ mutex' = mutex \ {s}
BY DEF CreateFails, Goes, To, At, Undisturbed, KeepsPlace, KeepsTally,
       KeepsWrite, KeepsFlag, TypeOK, Session, Increment

(* What appending a record changes.                                        *)
LEMMA filetab_createEffect ==
  ASSUME TypeOK, NEW s \in Sessions, filetab_create(s)
  PROVE  /\ Undisturbed(s)
         /\ UNCHANGED <<left, locks, mutex, disk, due, odd, conf>>
         /\ ss[s].pc = "append"
         /\ ss'[s].pc = "appended"
         /\ ss'[s].rc = ss[s].rc /\ ss'[s].wc = ss[s].wc
         /\ KeepsTally(s)
         /\ KeepsWrite(s)
         /\ KeepsFlag(s)
         /\ ss'[s].pos = Len(table) + 1
         /\ Len(table) < MaxRecords
         /\ table' = Append(table, ss[s].tally)
BY DEF filetab_create, Goes, To, At, Undisturbed, KeepsPlace, KeepsTally,
       KeepsWrite, KeepsFlag, TypeOK, Session, Increment

(* What giving back the lock of quotatab_create changes.                   *)
LEMMA CreateUnlockEffect ==
  ASSUME TypeOK, NEW s \in Sessions, CreateUnlock(s)
  PROVE  /\ Undisturbed(s)
         /\ UNCHANGED <<left, table, mutex, disk, due, odd, conf>>
         /\ ss[s].pc = "appended"
         /\ ss'[s].pc = "release"
         /\ ss'[s].pos = ss[s].pos /\ ss'[s].rc = ss[s].rc
         /\ KeepsTally(s)
         /\ KeepsWrite(s)
         /\ KeepsFlag(s)
         /\ ss'[s].wc = (IF ss[s].wc > 0 THEN ss[s].wc - 1 ELSE ss[s].wc)
         /\ ss[s].wc = 1 /\ ss[s].rc = 0 => locks' = SetLock(s, ss[s].pos, {})
BY DEF CreateUnlock, Goes, To, At, Undisturbed, KeepsPlace, KeepsTally,
       KeepsWrite, KeepsFlag, TypeOK, Session, Increment, quotatab_wunlock

(* What the end of the login changes.                                      *)
LEMMA LoginDoneEffect ==
  ASSUME TypeOK, NEW s \in Sessions, LoginDone(s)
  PROVE  /\ Undisturbed(s)
         /\ UNCHANGED <<left, table, locks, disk, due, odd, conf>>
         /\ ss[s].pc = "release"
         /\ Rests(s)
         /\ ss'[s].upd <=> ss[s].upd
         /\ mutex' = mutex \ {s}
BY DEF LoginDone, Goes, To, At, Undisturbed, KeepsPlace, KeepsTally,
       KeepsWrite, KeepsFlag, TypeOK, Session, Increment, Idle, Fresh,
       Rests, Zero

(* What the lock of quotatab_read changes.                                 *)
LEMMA ReadLockEffect ==
  ASSUME TypeOK, NEW s \in Sessions, ReadLock(s)
  PROVE  /\ Undisturbed(s)
         /\ UNCHANGED <<left, table, mutex, disk, due, odd, conf>>
         /\ ss[s].pc = "rlock"
         /\ ss'[s].pc = "read"
         /\ ss'[s].pos = ss[s].pos /\ ss'[s].wc = ss[s].wc
         /\ ss'[s].rc = ss[s].rc + 1
         /\ KeepsTally(s)
         /\ KeepsWrite(s)
         /\ KeepsFlag(s)
         /\ ss[s].rc = 0 /\ ss[s].wc = 0 =>
               ~Conflict(s, "r") /\ locks' = SetLock(s, ss[s].pos, {"r"})
         /\ ~(ss[s].rc = 0 /\ ss[s].wc = 0) => locks' = locks
BY DEF ReadLock, Goes, To, At, Undisturbed, KeepsPlace, KeepsTally,
       KeepsWrite, KeepsFlag, TypeOK, Session, Increment, quotatab_rlock,
       CannotRead

(* What a read without the lock changes.                                   *)
LEMMA ReadGivesUpEffect ==
  ASSUME TypeOK, NEW s \in Sessions, ReadGivesUp(s)
  PROVE  /\ Undisturbed(s)
         /\ UNCHANGED <<left, table, locks, mutex, disk, due, odd, conf>>
         /\ ss[s].pc = "rlock"
         /\ ss[s].wc = 0
         /\ ss'[s].pc = "check"
         /\ KeepsPlace(s)
         /\ KeepsTally(s)
         /\ KeepsWrite(s)
         /\ KeepsFlag(s)
BY DEF ReadGivesUp, Goes, To, At, Undisturbed, KeepsPlace, KeepsTally,
       KeepsWrite, KeepsFlag, TypeOK, Session, Increment, CannotRead, Back

(* What reading the record changes.                                        *)
LEMMA quotatab_readEffect ==
  ASSUME TypeOK, NEW s \in Sessions, quotatab_read(s)
  PROVE  /\ Undisturbed(s)
         /\ UNCHANGED <<left, table, mutex, disk, due, odd, conf>>
         /\ ss[s].pc = "read"
         /\ ss'[s].pc = Back(s)
         /\ ss'[s].pos = ss[s].pos /\ ss'[s].wc = ss[s].wc
         /\ ss'[s].dele = ss[s].dele
         /\ KeepsWrite(s)
         /\ KeepsFlag(s)
         /\ ss'[s].tally = filetab_read(s)
         /\ ss'[s].rc = (IF ss[s].rc > 0 THEN ss[s].rc - 1 ELSE ss[s].rc)
         /\ locks' = IF ss[s].rc = 1 /\ ss[s].wc = 0
                     THEN SetLock(s, ss[s].pos, {}) ELSE locks
BY DEF quotatab_read, Goes, To, At, Undisturbed, KeepsPlace, KeepsTally,
       KeepsWrite, KeepsFlag, TypeOK, Session, Increment, quotatab_runlock

(* What the lock of quotatab_write changes.                                *)
LEMMA WriteLockEffect ==
  ASSUME TypeOK, NEW s \in Sessions, WriteLock(s)
  PROVE  /\ Undisturbed(s)
         /\ UNCHANGED <<left, table, mutex, disk, due, odd, conf>>
         /\ ss[s].pc = "wlock"
         /\ ss'[s].pc = "rlock"
         /\ ss'[s].pos = ss[s].pos /\ ss'[s].rc = ss[s].rc
         /\ ss'[s].wc = ss[s].wc + 1
         /\ KeepsTally(s)
         /\ KeepsWrite(s)
         /\ KeepsFlag(s)
         /\ ss[s].wc = 0 =>
               ~Conflict(s, "w") /\ locks' = SetLock(s, ss[s].pos, {"w"})
         /\ ss[s].wc # 0 => locks' = locks
BY DEF WriteLock, Goes, To, At, Undisturbed, KeepsPlace, KeepsTally,
       KeepsWrite, KeepsFlag, TypeOK, Session, Increment, quotatab_wlock,
       CannotWrite

(* What a write that is given up changes.                                  *)
LEMMA WriteGivesUpEffect ==
  ASSUME TypeOK, NEW s \in Sessions, WriteGivesUp(s)
  PROVE  /\ Undisturbed(s)
         /\ UNCHANGED <<left, table, locks, mutex, disk, due, conf>>
         /\ ss[s].pc = "wlock"
         /\ KeepsPlace(s)
         /\ ss'[s].tally = ss[s].tally
         /\ odd' = odd \cup {"lost"}
         /\ Follows(ss'[s], ss[s].then)
         /\ ~ss'[s].upd
         /\ ss[s].then = "idle" =>
               ss'[s].then = "idle" /\ ~ss'[s].dele /\ ss'[s].inc.b = 0 /\ ~ss'[s].st
         /\ ss[s].then # "idle" =>
               /\ ss'[s].then = ss[s].then /\ ss'[s].dele = ss[s].dele
               /\ ss'[s].inc = ss[s].inc
<1> PICK y : y = Written(s, ss[s])
  OBVIOUS
<1>1. /\ y \in Session /\ y.pos = ss[s].pos /\ y.rc = ss[s].rc /\ y.wc = ss[s].wc
      /\ y.tally = ss[s].tally /\ Follows(y, ss[s].then) /\ ~y.upd
      /\ ss[s].then = "idle" => y.then = "idle" /\ ~y.dele /\ y.inc.b = 0 /\ ~y.st
      /\ ss[s].then # "idle" =>
            y.then = ss[s].then /\ y.dele = ss[s].dele /\ y.inc = ss[s].inc
  BY WrittenSession DEF TypeOK
<1>2. ss' = [ss EXCEPT ![s] = y] /\ ss[s].pc = "wlock" /\ odd' = odd \cup {"lost"}
  BY DEF WriteGivesUp, Goes, At
<1> QED BY <1>1, <1>2, SessionGoes DEF WriteGivesUp, KeepsPlace, Follows

(* What writing the record changes.                                        *)
LEMMA quotatab_writeEffect ==
  ASSUME TypeOK, NEW s \in Sessions, quotatab_write(s)
  PROVE  /\ Undisturbed(s)
         /\ UNCHANGED <<left, mutex, disk, odd, conf>>
         /\ ss[s].pc = "wwrite"
         /\ ss[s].pos <= MaxRecords
         /\ ss'[s].pos = ss[s].pos /\ ss'[s].rc = ss[s].rc
         /\ ss'[s].tally = Bumped(ss[s].tally, ss[s].inc)
         /\ table' = filetab_write(s, IF ss[s].dele THEN ss[s].dtally
                                   ELSE Bumped(ss[s].tally, ss[s].inc))
         /\ due' = [due EXCEPT ![IF ss[s].dele THEN ss[s].owner ELSE UserOf[s]] =
                       Bumped(@, ss[s].inc)]
         /\ ss'[s].wc = (IF ss[s].wc > 0 THEN ss[s].wc - 1 ELSE ss[s].wc)
         /\ ss[s].wc = 1 /\ ss[s].rc = 0 => locks' = SetLock(s, ss[s].pos, {})
         /\ Follows(ss'[s], ss[s].then)
         /\ ~ss'[s].upd
         /\ ss[s].then = "idle" =>
               ss'[s].then = "idle" /\ ~ss'[s].dele /\ ss'[s].inc.b = 0 /\ ~ss'[s].st
         /\ ss[s].then # "idle" =>
               /\ ss'[s].then = ss[s].then /\ ss'[s].dele = ss[s].dele
               /\ ss'[s].inc = ss[s].inc
<1> PICK t : t = Bumped(ss[s].tally, ss[s].inc)
  OBVIOUS
<1> PICK z : z = [ss[s] EXCEPT !.tally = t]
  OBVIOUS
<1> PICK y : y = Written(s, z)
  OBVIOUS
<1> PICK w : w = [y EXCEPT !.wc = IF @ > 0 THEN @ - 1 ELSE @]
  OBVIOUS
<1>1. ss[s] \in Session /\ t \in Record
  BY BumpedRecord DEF TypeOK, Session
<1>2. /\ z \in Session /\ z.pos = ss[s].pos /\ z.rc = ss[s].rc /\ z.wc = ss[s].wc
      /\ z.tally = t /\ z.dele = ss[s].dele /\ z.inc = ss[s].inc
      /\ z.then = ss[s].then
  BY <1>1 DEF Session
<1>3. /\ y \in Session /\ y.pos = ss[s].pos /\ y.rc = ss[s].rc /\ y.wc = ss[s].wc
      /\ y.tally = t /\ Follows(y, ss[s].then) /\ ~y.upd
      /\ ss[s].then = "idle" => y.then = "idle" /\ ~y.dele /\ y.inc.b = 0 /\ ~y.st
      /\ ss[s].then # "idle" =>
            y.then = ss[s].then /\ y.dele = ss[s].dele /\ y.inc = ss[s].inc
  BY <1>1, <1>2, WrittenSession
<1>4. /\ w \in Session /\ w.pos = y.pos /\ w.rc = y.rc
      /\ w.wc = (IF y.wc > 0 THEN y.wc - 1 ELSE y.wc)
      /\ w.tally = y.tally /\ w.pc = y.pc /\ (w.upd <=> y.upd) /\ w.then = y.then
      /\ w.dele = y.dele /\ w.inc = y.inc /\ (w.st <=> y.st)
  BY <1>3 DEF Session
<1>5. /\ ss' = [ss EXCEPT ![s] = w] /\ ss[s].pc = "wwrite"
      /\ ss[s].wc = 1 /\ ss[s].rc = 0 => locks' = SetLock(s, ss[s].pos, {})
      /\ table' = filetab_write(s, IF ss[s].dele THEN ss[s].dtally ELSE t)
      /\ due' = [due EXCEPT ![IF ss[s].dele THEN ss[s].owner ELSE UserOf[s]] =
                               Bumped(@, ss[s].inc)]
      /\ ss[s].pos <= MaxRecords
      /\ UNCHANGED <<left, mutex, disk, odd, conf>>
  BY DEF quotatab_write, quotatab_wunlock, At
<1>6. /\ Undisturbed(s) /\ ss'[s].pc = w.pc /\ ss'[s].pos = w.pos
      /\ ss'[s].rc = w.rc /\ ss'[s].wc = w.wc
      /\ ss'[s].tally = w.tally /\ ss'[s].dele = w.dele
      /\ ss'[s].inc = w.inc /\ ss'[s].then = w.then
      /\ (ss'[s].upd <=> w.upd) /\ (ss'[s].st <=> w.st)
  BY <1>4, <1>5, SessionGoes
<1> QED BY <1>3, <1>4, <1>5, <1>6 DEF Follows

(* What STOR changes.                                                      *)
LEMMA StorEffect ==
  ASSUME TypeOK, NEW s \in Sessions, Stor(s)
  PROVE  /\ Undisturbed(s)
         /\ UNCHANGED <<table, locks, mutex, disk, due, odd, conf>>
         /\ ss[s].pc = "idle"
         /\ ss'[s].pc = "rlock"
         /\ KeepsPlace(s)
         /\ KeepsTally(s)
         /\ KeepsWrite(s)
         /\ KeepsFlag(s)
         /\ left > 0
         /\ left' = left - 1
BY DEF Stor, Goes, To, At, Undisturbed, KeepsPlace, KeepsTally, KeepsWrite,
       KeepsFlag, TypeOK, Session, Increment

(* What the check before an upload changes.                                *)
LEMMA quotatab_pre_storEffect ==
  ASSUME TypeOK, NEW s \in Sessions, quotatab_pre_stor(s)
  PROVE  /\ Undisturbed(s)
         /\ UNCHANGED <<left, table, locks, mutex, disk, due, odd, conf>>
         /\ ss[s].pc = "check"
         /\ KeepsPlace(s)
         /\ KeepsTally(s)
         /\ KeepsWrite(s)
         /\ \/ ss'[s].pc = "err" /\ KeepsFlag(s)
            \/ ss'[s].pc = "open"
BY DEF quotatab_pre_stor, Goes, To, At, Undisturbed, KeepsPlace, KeepsTally,
       KeepsWrite, KeepsFlag, TypeOK, Session, Increment

(* What opening the file changes.                                          *)
LEMMA StorOpensEffect ==
  ASSUME TypeOK, NEW s \in Sessions, StorOpens(s)
  PROVE  /\ Undisturbed(s)
         /\ UNCHANGED <<left, table, locks, mutex, due, odd, conf>>
         /\ ss[s].pc = "open"
         /\ ss'[s].pc \in {"move", "err"}
         /\ KeepsPlace(s)
         /\ KeepsTally(s)
         /\ KeepsWrite(s)
         /\ KeepsFlag(s)
<1>1. CASE ss' = [ss EXCEPT ![s] = [To(s, "move") EXCEPT !.fd = TRUE]]
  BY <1>1
     DEF StorOpens, To, At, Undisturbed, KeepsPlace, KeepsTally,
         KeepsWrite,
              KeepsFlag, TypeOK, Session
<1>2. CASE ss' = [ss EXCEPT ![s] = To(s, "err")]
  BY <1>2
     DEF StorOpens, To, At, Undisturbed, KeepsPlace, KeepsTally,
         KeepsWrite,
              KeepsFlag, TypeOK, Session
<1>3. \/ ss' = [ss EXCEPT ![s] = [To(s, "move") EXCEPT !.fd = TRUE]]
      \/ ss' = [ss EXCEPT ![s] = To(s, "err")]
  BY DEF StorOpens, Goes
<1> QED BY <1>1, <1>2, <1>3

(* What a chunk of the upload changes.                                     *)
LEMMA quotatab_fsio_writeEffect ==
  ASSUME TypeOK, NEW s \in Sessions, quotatab_fsio_write(s)
  PROVE  /\ Undisturbed(s) /\ ss' \in [Sessions -> Session]
         /\ disk' \in [Files -> [size : Nat \cup {Absent}, owner : Users]]
         /\ UNCHANGED <<left, table, locks, mutex, due, odd, conf>>
         /\ ss[s].pc = "move"
         /\ ss'[s].pc \in {"move", "err"}
         /\ KeepsPlace(s)
         /\ KeepsTally(s)
         /\ KeepsWrite(s)
         /\ KeepsFlag(s)
<1> PICK n : n = ss[s].total + 1
  OBVIOUS
<1> PICK x : x = [ss[s] EXCEPT !.total = n]
  OBVIOUS
<1> PICK y : y = [x EXCEPT !.pc = "err"]
  OBVIOUS
<1>1. ss[s] \in Session /\ n \in Nat /\ ss[s].file \in Files
  BY DEF TypeOK, Session
<1>2. /\ x \in Session /\ x.pc = ss[s].pc /\ x.pos = ss[s].pos /\ x.rc = ss[s].rc
      /\ x.wc = ss[s].wc /\ x.tally = ss[s].tally /\ x.dele = ss[s].dele
      /\ x.inc = ss[s].inc /\ x.then = ss[s].then
      /\ (x.upd <=> ss[s].upd) /\ (x.st <=> ss[s].st)
  BY <1>1 DEF Session
<1>3. /\ y \in Session /\ y.pc = "err" /\ y.pos = x.pos /\ y.rc = x.rc
      /\ y.wc = x.wc /\ y.tally = x.tally /\ y.dele = x.dele
      /\ y.inc = x.inc /\ y.then = x.then
      /\ (y.upd <=> x.upd) /\ (y.st <=> x.st)
  <2>1. "err" \in Places
    BY DEF Places
  <2> QED BY ONLY <1>2, <2>1, y = [x EXCEPT !.pc = "err"] DEF Session
<1>4. PICK d : /\ d = disk \/ d = [disk EXCEPT ![ss[s].file].size = n]
               /\ \/ stor_abort(s, y, d)
                  \/ ss' = [ss EXCEPT ![s] = x] /\ disk' = d
               /\ ss[s].pc = "move"
               /\ UNCHANGED <<left, table, locks, mutex, due, odd, conf>>
  BY DEF quotatab_fsio_write, Goes, At
<1>5. d \in [Files -> [size : Nat \cup {Absent}, owner : Users]]
  BY <1>1, <1>4 DEF TypeOK
<1>6. CASE stor_abort(s, y, d)
  <2>1. /\ disk' \in [Files -> [size : Nat \cup {Absent}, owner : Users]]
        /\ \/ ss' = [ss EXCEPT ![s] = y]
           \/ \E f \in Files : ss' = Unlinked(f, [ss EXCEPT ![s] = y])
    BY <1>3, <1>5, <1>6, StorAbortGoes
  <2>2. /\ Undisturbed(s) /\ ss' \in [Sessions -> Session]
        /\ ss'[s].pc = y.pc /\ ss'[s].pos = y.pos /\ ss'[s].rc = y.rc
        /\ ss'[s].wc = y.wc /\ ss'[s].tally = y.tally /\ ss'[s].dele = y.dele
        /\ ss'[s].inc = y.inc /\ ss'[s].then = y.then
        /\ (ss'[s].upd <=> y.upd) /\ (ss'[s].st <=> y.st)
    BY ONLY TypeOK, s \in Sessions, <1>3, <2>1, SessionGoes
  <2> QED BY <1>2, <1>3, <1>4, <2>1, <2>2
     DEF KeepsPlace, KeepsTally, KeepsWrite, KeepsFlag
<1>7. CASE ss' = [ss EXCEPT ![s] = x] /\ disk' = d
  BY <1>2, <1>4, <1>5, <1>7, SessionGoes
     DEF KeepsPlace, KeepsTally, KeepsWrite, KeepsFlag
<1> QED BY <1>4, <1>6, <1>7

(* What the end of the data changes.                                       *)
LEMMA StorEndsEffect ==
  ASSUME TypeOK, NEW s \in Sessions, StorEnds(s)
  PROVE  /\ Undisturbed(s) /\ ss' \in [Sessions -> Session]
         /\ disk' \in [Files -> [size : Nat \cup {Absent}, owner : Users]]
         /\ UNCHANGED <<left, table, locks, mutex, due, odd, conf>>
         /\ ss[s].pc = "move"
         /\ ss'[s].pc \in {"post", "err"}
         /\ KeepsPlace(s)
         /\ KeepsTally(s)
         /\ KeepsWrite(s)
         /\ KeepsFlag(s)
<1>1. /\ disk \in [Files -> [size : Nat \cup {Absent}, owner : Users]]
      /\ "post" \in Places /\ "err" \in Places
  BY DEF TypeOK, Places
<1>2. PICK place \in {"post", "err"} :
        /\ \/ stor_abort(s, To(s, place), disk)
           \/ ss' = [ss EXCEPT ![s] = To(s, place)] /\ disk' = disk
        /\ ss[s].pc = "move"
        /\ UNCHANGED <<left, table, locks, mutex, due, odd, conf>>
  BY DEF StorEnds, Goes, At
<1> PICK y : y = To(s, place)
  OBVIOUS
<1>3. /\ y \in Session /\ y.pc = place /\ y.pos = ss[s].pos /\ y.rc = ss[s].rc
      /\ y.wc = ss[s].wc /\ y.tally = ss[s].tally /\ y.dele = ss[s].dele
      /\ y.inc = ss[s].inc /\ y.then = ss[s].then
      /\ (y.upd <=> ss[s].upd) /\ (y.st <=> ss[s].st)
  <2>1. y = [ss[s] EXCEPT !.pc = place] /\ place \in Places /\ ss[s] \in Session
    BY <1>1, ToSession DEF TypeOK
  <2> QED BY ONLY <2>1 DEF Session
<1>4. /\ disk' \in [Files -> [size : Nat \cup {Absent}, owner : Users]]
      /\ \/ ss' = [ss EXCEPT ![s] = y]
         \/ \E f \in Files : ss' = Unlinked(f, [ss EXCEPT ![s] = y])
  <2>1. CASE stor_abort(s, y, disk)
    BY <1>1, <1>3, <2>1, StorAbortGoes
  <2>2. CASE ss' = [ss EXCEPT ![s] = y] /\ disk' = disk
    BY <1>1, <2>2
  <2> QED BY <1>2, <2>1, <2>2
<1>5. /\ Undisturbed(s) /\ ss' \in [Sessions -> Session]
      /\ ss'[s].pc = y.pc /\ ss'[s].pos = y.pos /\ ss'[s].rc = y.rc
      /\ ss'[s].wc = y.wc /\ ss'[s].tally = y.tally /\ ss'[s].dele = y.dele
      /\ ss'[s].inc = y.inc /\ ss'[s].then = y.then
      /\ (ss'[s].upd <=> y.upd) /\ (ss'[s].st <=> y.st)
  BY <1>3, <1>4, SessionGoes
<1> QED BY <1>2, <1>3, <1>4, <1>5
   DEF KeepsPlace, KeepsTally, KeepsWrite, KeepsFlag

(* What an upload that is aborted and removed changes.                     *)
LEMMA StorAbortedEffect ==
  ASSUME TypeOK, NEW s \in Sessions, StorAborted(s)
  PROVE  /\ Undisturbed(s) /\ ss' \in [Sessions -> Session]
         /\ disk' \in [Files -> [size : Nat \cup {Absent}, owner : Users]]
         /\ UNCHANGED <<left, table, locks, mutex, due, odd, conf>>
         /\ ss[s].pc = "move"
         /\ Rests(s)
         /\ ~ss'[s].upd
<1> PICK y : y = Idle(s, Settled(s))
  OBVIOUS
<1>1. /\ y \in Session /\ y.pc \in {"idle", "ending"} /\ y.pos = ss[s].pos
      /\ y.rc = ss[s].rc /\ y.wc = ss[s].wc /\ y.tally = ss[s].tally /\ ~y.dele
      /\ y.inc.b = 0 /\ y.then = "idle" /\ ~y.upd /\ ~y.st
  BY SettlesIdle
<1>2. ss[s].pc = "move" /\ stor_abort(s, y, disk)
  BY DEF StorAborted, At
<1>3. disk \in [Files -> [size : Nat \cup {Absent}, owner : Users]]
  BY DEF TypeOK
<1>4. /\ disk' \in [Files -> [size : Nat \cup {Absent}, owner : Users]]
      /\ \/ ss' = [ss EXCEPT ![s] = y]
         \/ \E f \in Files : ss' = Unlinked(f, [ss EXCEPT ![s] = y])
  BY <1>1, <1>2, <1>3, StorAbortGoes
<1> QED BY <1>1, <1>2, <1>4, SessionGoes DEF StorAborted, Rests, KeepsPlace

(* What quotatab_post_stor changes.                                        *)
LEMMA quotatab_post_storEffect ==
  ASSUME TypeOK, NEW s \in Sessions, quotatab_post_stor(s)
  PROVE  /\ Undisturbed(s)
         /\ UNCHANGED <<left, table, locks, mutex, disk, due, odd, conf>>
         /\ ss[s].pc = "post"
         /\ Intends(s, Growth(s), "judge")
         /\ ss'[s].pos = ss[s].pos
         /\ KeepsFlag(s)
         /\ ss'[s].dele = ss[s].dele
BY DEF quotatab_post_stor, Goes, To, At, Undisturbed, KeepsPlace,
       KeepsTally, KeepsWrite, KeepsFlag, TypeOK, Session, Increment,
       Writes, Intends

(* What quotatab_post_stor_err changes.                                    *)
LEMMA quotatab_post_stor_errEffect ==
  ASSUME TypeOK, NEW s \in Sessions, quotatab_post_stor_err(s)
  PROVE  /\ Undisturbed(s)
         /\ UNCHANGED <<left, table, locks, mutex, disk, due, odd, conf>>
         /\ ss[s].pc = "err"
         /\ ss'[s].pos = ss[s].pos
         /\ KeepsFlag(s)
         /\ ss'[s].dele = ss[s].dele
         /\ \/ Intends(s, Growth(s), "judge_err")
            \/ ss'[s].pc = "judge_err" /\ KeepsPlace(s) /\ KeepsTally(s) /\ KeepsWrite(s)
<1>1. CASE ss' = [ss EXCEPT ![s] = Writes(s, Growth(s), 0, "judge_err")]
  <2>1. "judge_err" \in Places /\ 0 \in {-1, 0, 1}
    BY DEF Places
  <2> PICK y : y = Writes(s, Growth(s), 0, "judge_err")
    OBVIOUS
  <2>2. /\ y \in Session /\ y.pc = "wlock" /\ y.inc.b = Growth(s)
        /\ y.then = "judge_err" /\ y.pos = ss[s].pos /\ y.rc = ss[s].rc
        /\ y.wc = ss[s].wc /\ y.tally = ss[s].tally /\ y.dele = ss[s].dele
        /\ (y.upd <=> ss[s].upd) /\ (y.st <=> ss[s].st)
    BY <2>1, WritesSession, GrowthInt
  <2>3. /\ Undisturbed(s) /\ ss'[s].pc = y.pc /\ ss'[s].pos = y.pos
        /\ ss'[s].rc = y.rc /\ ss'[s].wc = y.wc
        /\ ss'[s].tally = y.tally /\ ss'[s].dele = y.dele
        /\ ss'[s].inc = y.inc /\ ss'[s].then = y.then
        /\ (ss'[s].upd <=> y.upd) /\ (ss'[s].st <=> y.st)
    BY <1>1, <2>2, SessionGoes
  <2>4. UNCHANGED <<left, table, locks, mutex, disk, due, odd, conf>> /\ ss[s].pc = "err"
    BY DEF quotatab_post_stor_err, At
  <2> QED BY <2>2, <2>3, <2>4 DEF Intends, KeepsFlag
<1>2. CASE ss' = [ss EXCEPT ![s] = To(s, "judge_err")]
  BY <1>2
     DEF quotatab_post_stor_err, To, At, Undisturbed, KeepsPlace,
         KeepsTally,
              KeepsWrite, KeepsFlag, TypeOK, Session
<1>3. \/ ss' = [ss EXCEPT ![s] = Writes(s, Growth(s), 0, "judge_err")]
      \/ ss' = [ss EXCEPT ![s] = To(s, "judge_err")]
  BY DEF quotatab_post_stor_err, Goes
<1> QED BY <1>1, <1>2, <1>3

(* What the comparison with the limit after an upload changes.             *)
LEMMA JudgeEffect ==
  ASSUME TypeOK, NEW s \in Sessions, Judge(s)
  PROVE  /\ Undisturbed(s)
         /\ UNCHANGED <<left, table, locks, mutex, due, conf>>
         /\ ss[s].pc \in {"judge", "judge_err"}
         /\ ss'[s].pos = ss[s].pos
         /\ \/ /\ Intends(s, -ss[s].inc.b, "idle")
               /\ KeepsFlag(s) /\ ss'[s].dele = ss[s].dele
               /\ Exceeded(ss[s].tally)
               /\ ss[s].inc.b < 0 => "refund" \in odd'
            \/ /\ Rests(s) /\ ~ss'[s].upd
               /\ Exceeded(ss[s].tally) /\ conf.hard => "kept" \in odd'
         /\ odd \subseteq odd'
         /\ odd' \subseteq odd \cup {"refund", "kept"}
<1>1. ss[s] \in Session /\ ss[s].file \in Files
  BY DEF TypeOK, Session
<1>2. PICK removes, undoes, y :
        /\ removes \in BOOLEAN /\ undoes \in BOOLEAN
        /\ removes <=> /\ Exceeded(ss[s].tally) /\ conf.hard
                       /\ Exists(ss[s].file)
        /\ undoes <=> (IF At(s, "judge") THEN removes ELSE Exceeded(ss[s].tally))
        /\ y = IF undoes
               THEN Writes(s, -ss[s].inc.b, IF At(s, "judge") THEN -1 ELSE 0,
                           "idle")
               ELSE Idle(s, Settled(s))
        /\ removes => ss' = Unlinked(ss[s].file, [ss EXCEPT ![s] = y])
        /\ ~removes => ss' = [ss EXCEPT ![s] = y]
        /\ odd' = odd \cup {e \in {"refund"} : undoes /\ ss[s].inc.b < 0} \cup
                     {e \in {"kept"} : Exceeded(ss[s].tally) /\ conf.hard /\ ~undoes}
        /\ ss[s].pc \in {"judge", "judge_err"}
        /\ UNCHANGED <<left, table, locks, mutex, due, conf>>
  BY Zenon DEF Judge
<1>3. /\ undoes /\ ss[s].inc.b < 0 => "refund" \in odd'
      /\ Exceeded(ss[s].tally) /\ conf.hard /\ ~undoes => "kept" \in odd'
      /\ odd \subseteq odd' /\ odd' \subseteq odd \cup {"refund", "kept"}
  BY <1>2
<1>4. undoes => Exceeded(ss[s].tally)
  BY <1>2
<1>5. CASE undoes
  <2>1. /\ -ss[s].inc.b \in Int /\ "idle" \in Places
        /\ (IF At(s, "judge") THEN -1 ELSE 0) \in {-1, 0, 1}
    BY <1>1 DEF Session, Increment, Places
  <2>2. /\ y \in Session /\ y.pc = "wlock" /\ y.inc.b = -ss[s].inc.b
        /\ y.then = "idle" /\ y.pos = ss[s].pos /\ y.rc = ss[s].rc
        /\ y.wc = ss[s].wc /\ y.tally = ss[s].tally /\ y.dele = ss[s].dele
        /\ (y.upd <=> ss[s].upd) /\ (y.st <=> ss[s].st)
    BY <1>2, <1>5, <2>1, WritesSession
  <2> QED BY <1>1, <1>2, <1>3, <1>4, <1>5, <2>2, SessionGoes
     DEF Intends, KeepsFlag
<1>6. CASE ~undoes
  <2>1. /\ y \in Session /\ y.pc \in {"idle", "ending"} /\ y.pos = ss[s].pos /\ y.rc = ss[s].rc
        /\ y.wc = ss[s].wc /\ y.tally = ss[s].tally /\ ~y.dele /\ y.inc.b = 0
        /\ y.then = "idle" /\ ~y.upd /\ ~y.st
    BY <1>2, <1>6, SettlesIdle
  <2> QED BY <1>1, <1>2, <1>3, <1>6, <2>1, SessionGoes DEF Rests, KeepsPlace
<1> QED BY <1>5, <1>6

(* What quotatab_pre_dele changes.                                         *)
LEMMA quotatab_pre_deleEffect ==
  ASSUME TypeOK, NEW s \in Sessions, quotatab_pre_dele(s)
  PROVE  /\ Undisturbed(s)
         /\ UNCHANGED <<table, locks, mutex, disk, due, odd, conf>>
         /\ ss[s].pc = "idle"
         /\ ss'[s].pc = "unlink"
         /\ KeepsPlace(s)
         /\ KeepsTally(s)
         /\ KeepsWrite(s)
         /\ left > 0
         /\ left' = left - 1
         /\ ss'[s].upd <=> (ss[s].upd \/ ss'[s].st)
<1> PICK f \in Files :
       ss' = [ss EXCEPT ![s] = [ss[s] EXCEPT !.pc = "unlink", !.file = f,
                                !.st = Exists(f), !.nb = Size(f),
                                !.owner = disk[f].owner,
                                !.upd = ss[s].upd \/ Exists(f)]]
  BY DEF quotatab_pre_dele, Goes
<1>1. PICK e \in BOOLEAN : e = Exists(f)
  BY DEF Exists
<1>2. PICK v \in BOOLEAN : v = (ss[s].upd \/ e)
  OBVIOUS
<1>3. ss' = [ss EXCEPT ![s] = [ss[s] EXCEPT !.pc = "unlink", !.file = f,
                                !.st = e, !.nb = Size(f),
                                !.owner = disk[f].owner, !.upd = v]]
  BY <1>1, <1>2
<1>4. ss[s] \in Session /\ ss \in [Sessions -> Session]
  BY DEF TypeOK
<1>5. (ss'[s].upd <=> v) /\ (ss'[s].st <=> e)
  BY <1>3, <1>4 DEF Session
<1>6. ss'[s].upd <=> (ss[s].upd \/ ss'[s].st)
  BY <1>2, <1>5
<1> QED BY <1>3, <1>4, <1>6 DEF quotatab_pre_dele, At, Undisturbed, KeepsPlace,
                    KeepsTally, KeepsWrite, Session

(* What removing the file changes.                                         *)
LEMMA DeleEffect ==
  ASSUME TypeOK, NEW s \in Sessions, Dele(s)
  PROVE  /\ Undisturbed(s)
         /\ UNCHANGED <<left, table, locks, mutex, due, odd, conf>>
         /\ ss[s].pc = "unlink"
         /\ \/ ss'[s].pc = "post_dele" /\ KeepsPlace(s) /\ KeepsTally(s) /\ KeepsWrite(s) /\ KeepsFlag(s)
            \/ Rests(s) /\ ~ss'[s].upd
<1>1. ss[s] \in Session /\ ss[s].file \in Files
  BY DEF TypeOK, Session
<1>2. CASE ss' = Unlinked(ss[s].file, [ss EXCEPT ![s].pc = "post_dele"])
  <2> PICK y : y = [ss[s] EXCEPT !.pc = "post_dele"]
    OBVIOUS
  <2>1. /\ y \in Session /\ y.pc = "post_dele" /\ y.pos = ss[s].pos
        /\ y.rc = ss[s].rc /\ y.wc = ss[s].wc /\ y.tally = ss[s].tally
        /\ y.dele = ss[s].dele /\ y.inc = ss[s].inc /\ y.then = ss[s].then
        /\ (y.upd <=> ss[s].upd) /\ (y.st <=> ss[s].st)
    BY <1>1 DEF Session, Places
  <2>2. ss' = Unlinked(ss[s].file, [ss EXCEPT ![s] = y])
    BY <1>2
  <2>3. /\ Undisturbed(s) /\ ss'[s].pc = y.pc /\ ss'[s].pos = y.pos
        /\ ss'[s].rc = y.rc /\ ss'[s].wc = y.wc
        /\ ss'[s].tally = y.tally /\ ss'[s].dele = y.dele
        /\ ss'[s].inc = y.inc /\ ss'[s].then = y.then
        /\ (ss'[s].upd <=> y.upd) /\ (ss'[s].st <=> y.st)
    BY <1>1, <2>1, <2>2, SessionGoes
  <2>4. UNCHANGED <<left, table, locks, mutex, due, odd, conf>> /\ ss[s].pc = "unlink"
    BY DEF Dele, At
  <2> QED BY <2>1, <2>3, <2>4 DEF KeepsPlace, KeepsTally, KeepsWrite, KeepsFlag
<1>3. CASE ss' = [ss EXCEPT ![s] = Idle(s, Settled(s))]
  <2> PICK y : y = Idle(s, Settled(s))
    OBVIOUS
  <2>1. /\ y \in Session /\ y.pc \in {"idle", "ending"} /\ y.pos = ss[s].pos /\ y.rc = ss[s].rc
        /\ y.wc = ss[s].wc /\ y.tally = ss[s].tally /\ ~y.dele /\ y.inc.b = 0
        /\ y.then = "idle" /\ ~y.upd /\ ~y.st
    BY SettlesIdle
  <2> QED BY <1>3, <2>1, SessionGoes DEF Dele, At, Rests, KeepsPlace
<1> QED BY <1>2, <1>3 DEF Dele, Goes

(* What quotatab_post_dele changes.                                        *)
LEMMA quotatab_post_deleEffect ==
  ASSUME TypeOK, NEW s \in Sessions, quotatab_post_dele(s)
  PROVE  /\ Undisturbed(s)
         /\ UNCHANGED <<left, table, locks, mutex, disk, due, odd, conf>>
         /\ ss[s].pc = "post_dele"
         /\ \/ Rests(s) /\ (ss'[s].upd <=> ss[s].upd) /\ ~ss[s].st
            \/ /\ Intends(s, -ss[s].nb, "idle") /\ ss'[s].pos = ss[s].pos
               /\ KeepsFlag(s) /\ ss'[s].dele = ss[s].dele
            \/ ss'[s].pc = "dele_mutex" /\ KeepsPlace(s) /\ KeepsTally(s) /\ KeepsWrite(s) /\ KeepsFlag(s)
<1>1. ss[s] \in Session
  BY DEF TypeOK
<1>2. CASE ss' = [ss EXCEPT ![s] = Idle(s, ss[s])] /\ ~ss[s].st
  <2> PICK y : y = Idle(s, ss[s])
    OBVIOUS
  <2>1. /\ y \in Session /\ y.pc \in {"idle", "ending"} /\ y.pos = ss[s].pos /\ y.rc = ss[s].rc
        /\ y.wc = ss[s].wc /\ y.tally = ss[s].tally /\ ~y.dele /\ y.inc.b = 0
        /\ y.then = "idle" /\ (y.upd <=> ss[s].upd) /\ ~y.st
    BY <1>1, IdleSession
  <2>3. /\ Undisturbed(s) /\ ss'[s].pc = y.pc /\ ss'[s].pos = y.pos
        /\ ss'[s].rc = y.rc /\ ss'[s].wc = y.wc
        /\ ss'[s].tally = y.tally /\ ss'[s].dele = y.dele
        /\ ss'[s].inc = y.inc /\ ss'[s].then = y.then
        /\ (ss'[s].upd <=> y.upd) /\ (ss'[s].st <=> y.st)
    BY <1>2, <2>1, SessionGoes
  <2>4. UNCHANGED <<left, table, locks, mutex, disk, due, odd, conf>> /\ ss[s].pc = "post_dele"
    BY DEF quotatab_post_dele, At
  <2> QED BY <1>2, <2>1, <2>3, <2>4 DEF Rests, KeepsPlace
<1>3. CASE ss' = [ss EXCEPT ![s] = Credits(s)]
  <2> PICK y : y = Writes(s, -ss[s].nb, -1, "idle")
    OBVIOUS
  <2>1. -ss[s].nb \in Int /\ -1 \in {-1, 0, 1} /\ "idle" \in Places
    BY <1>1 DEF Places, Session
  <2>2. /\ y \in Session /\ y.pc = "wlock" /\ y.inc.b = -ss[s].nb
        /\ y.then = "idle" /\ y.pos = ss[s].pos /\ y.rc = ss[s].rc
        /\ y.wc = ss[s].wc /\ y.tally = ss[s].tally /\ y.dele = ss[s].dele
        /\ (y.upd <=> ss[s].upd) /\ (y.st <=> ss[s].st)
    BY <2>1, WritesSession
  <2>3. ss' = [ss EXCEPT ![s] = y]
    BY <1>3 DEF Credits
  <2>4. /\ Undisturbed(s) /\ ss'[s].pc = y.pc /\ ss'[s].pos = y.pos
        /\ ss'[s].rc = y.rc /\ ss'[s].wc = y.wc
        /\ ss'[s].tally = y.tally /\ ss'[s].dele = y.dele
        /\ ss'[s].inc = y.inc /\ ss'[s].then = y.then
        /\ (ss'[s].upd <=> y.upd) /\ (ss'[s].st <=> y.st)
    BY <2>2, <2>3, SessionGoes
  <2>5. UNCHANGED <<left, table, locks, mutex, disk, due, odd, conf>> /\ ss[s].pc = "post_dele"
    BY DEF quotatab_post_dele, At
  <2> QED BY <2>2, <2>4, <2>5 DEF Intends, KeepsFlag
<1>4. CASE ss' = [ss EXCEPT ![s] = To(s, "dele_mutex")]
  BY <1>4 DEF quotatab_post_dele, To, At, Undisturbed, KeepsPlace, KeepsTally,
              KeepsWrite, KeepsFlag, TypeOK, Session
<1> QED BY <1>2, <1>3, <1>4 DEF quotatab_post_dele, Goes

(* What QuotaLock in quotatab_post_dele changes.                           *)
LEMMA DeleMutexEffect ==
  ASSUME TypeOK, NEW s \in Sessions, DeleMutex(s)
  PROVE  /\ Undisturbed(s)
         /\ UNCHANGED <<left, table, locks, disk, due, odd, conf>>
         /\ ss[s].pc = "dele_mutex"
         /\ ss'[s].pc = "dele_lookup"
         /\ KeepsPlace(s)
         /\ KeepsTally(s)
         /\ KeepsWrite(s)
         /\ KeepsFlag(s)
         /\ \/ mutex \subseteq {s} /\ mutex' = {s}
            \/ mutex' = mutex
BY DEF DeleMutex, Goes, To, At, Undisturbed, KeepsPlace, KeepsTally,
       KeepsWrite, KeepsFlag, TypeOK, Session, Increment,
       quotatab_mutex_lock

(* What the lookup of the owner's record changes.                          *)
LEMMA DeleLookupEffect ==
  ASSUME TypeOK, NEW s \in Sessions, DeleLookup(s)
  PROVE  /\ Undisturbed(s)
         /\ UNCHANGED <<left, table, locks, disk, due, conf>>
         /\ ss[s].pc = "dele_lookup"
         /\ Intends(s, -ss[s].nb, "idle")
         /\ KeepsFlag(s)
         /\ ss'[s].pos = Lookup(ss[s].owner)
         /\ mutex' = mutex \ {s}
         /\ odd \cup {"strayed"} \subseteq odd'
         /\ odd' \subseteq odd \cup {"strayed", "unfound"}
         /\ ~Found(ss[s].owner) => "unfound" \in odd'
BY DEF DeleLookup, Goes, To, At, Undisturbed, KeepsPlace, KeepsTally,
       KeepsWrite, KeepsFlag, TypeOK, Session, Increment, Credits, Writes,
       Intends

(* What xfer_exit_ev changes.                                              *)
LEMMA xfer_exit_evEffect ==
  ASSUME TypeOK, NEW s \in Sessions, xfer_exit_ev(s)
  PROVE  /\ Undisturbed(s) /\ ss' \in [Sessions -> Session]
         /\ disk' \in [Files -> [size : Nat \cup {Absent}, owner : Users]]
         /\ UNCHANGED <<left, table, locks, mutex, due, odd, conf>>
         /\ ss[s].pc = "move"
         /\ ss'[s].pc = "err"
         /\ KeepsPlace(s)
         /\ KeepsTally(s)
         /\ KeepsWrite(s)
         /\ KeepsFlag(s)
<1>1. /\ disk \in [Files -> [size : Nat \cup {Absent}, owner : Users]]
      /\ "err" \in Places
  BY DEF TypeOK, Places
<1> PICK x : x = To(s, "err")
  OBVIOUS
<1> PICK y : y = [x EXCEPT !.quits = TRUE]
  OBVIOUS
<1>2. /\ x \in Session /\ x.pc = "err" /\ x.pos = ss[s].pos /\ x.rc = ss[s].rc
      /\ x.wc = ss[s].wc /\ x.tally = ss[s].tally /\ x.dele = ss[s].dele
      /\ x.inc = ss[s].inc /\ x.then = ss[s].then
      /\ (x.upd <=> ss[s].upd) /\ (x.st <=> ss[s].st)
  <2>1. x = [ss[s] EXCEPT !.pc = "err"] /\ "err" \in Places /\ ss[s] \in Session
    BY <1>1, ToSession DEF TypeOK
  <2> QED BY ONLY <2>1 DEF Session
<1>3. /\ y \in Session /\ y.pc = x.pc /\ y.pos = x.pos /\ y.rc = x.rc
      /\ y.wc = x.wc /\ y.tally = x.tally /\ y.dele = x.dele
      /\ y.inc = x.inc /\ y.then = x.then
      /\ (y.upd <=> x.upd) /\ (y.st <=> x.st)
  BY <1>2 DEF Session
<1>4. /\ ss[s].pc = "move" /\ stor_abort(s, y, disk)
      /\ UNCHANGED <<left, table, locks, mutex, due, odd, conf>>
  BY DEF xfer_exit_ev, At
<1>5. /\ disk' \in [Files -> [size : Nat \cup {Absent}, owner : Users]]
      /\ \/ ss' = [ss EXCEPT ![s] = y]
         \/ \E f \in Files : ss' = Unlinked(f, [ss EXCEPT ![s] = y])
  BY <1>1, <1>3, <1>4, StorAbortGoes
<1>6. /\ Undisturbed(s) /\ ss' \in [Sessions -> Session]
      /\ ss'[s].pc = y.pc /\ ss'[s].pos = y.pos /\ ss'[s].rc = y.rc
      /\ ss'[s].wc = y.wc /\ ss'[s].tally = y.tally /\ ss'[s].dele = y.dele
      /\ ss'[s].inc = y.inc /\ ss'[s].then = y.then
      /\ (ss'[s].upd <=> y.upd) /\ (ss'[s].st <=> y.st)
  BY ONLY TypeOK, s \in Sessions, <1>3, <1>5, SessionGoes
<1> QED BY <1>2, <1>3, <1>4, <1>5, <1>6
   DEF KeepsPlace, KeepsTally, KeepsWrite, KeepsFlag

(* What quotatab_exit_ev changes.                                          *)
LEMMA quotatab_exit_evEffect ==
  ASSUME TypeOK, NEW s \in Sessions, quotatab_exit_ev(s)
  PROVE  /\ Undisturbed(s) /\ ss' \in [Sessions -> Session]
         /\ disk' \in [Files -> [size : Nat \cup {Absent}, owner : Users]]
         /\ UNCHANGED <<left, table, locks, mutex, due, conf>>
         /\ Interruptible(s)
         /\ ss'[s].pos = ss[s].pos
         /\ ~ss'[s].upd
         /\ ss'[s].rc = ss[s].rc
         /\ ss'[s].wc = ss[s].wc
         /\ ss'[s].tally = ss[s].tally
         /\ \/ /\ ss[s].upd /\ Intends(s, ss[s].total, "ending") /\ ~ss'[s].dele
               /\ odd' = odd \cup {"exit"}
            \/ /\ ~ss[s].upd /\ ss'[s].pc = "ending"
               /\ KeepsTally(s) /\ KeepsWrite(s)
               /\ ss[s].pc = "wlock" => odd' = odd \cup {"exit"}
               /\ ss[s].pc # "wlock" => odd' = odd
<1>1. /\ disk \in [Files -> [size : Nat \cup {Absent}, owner : Users]]
      /\ ss[s] \in Session /\ ss[s].total \in Int /\ 1 \in {-1, 0, 1}
      /\ "ending" \in Places
  BY DEF TypeOK, Session, Places
<1>2. PICK y :
        /\ y = IF ss[s].upd
               THEN [Writes(s, ss[s].total, 1, "ending")
                       EXCEPT !.upd = FALSE, !.dele = FALSE]
               ELSE To(s, "ending")
        /\ \/ stor_abort(s, y, disk)
           \/ ss' = [ss EXCEPT ![s] = y] /\ disk' = disk
        /\ Interruptible(s)
        /\ odd' = IF ss[s].upd \/ ss[s].pc = "wlock" THEN odd \cup {"exit"} ELSE odd
        /\ UNCHANGED <<left, table, locks, mutex, due, conf>>
  BY Zenon DEF quotatab_exit_ev, Goes, At
<1>3. ASSUME y \in Session
      PROVE  /\ disk' \in [Files -> [size : Nat \cup {Absent}, owner : Users]]
             /\ \/ ss' = [ss EXCEPT ![s] = y]
                \/ \E f \in Files : ss' = Unlinked(f, [ss EXCEPT ![s] = y])
  BY <1>1, <1>2, <1>3, StorAbortGoes
<1>4. CASE ss[s].upd
  <2> PICK x : x = Writes(s, ss[s].total, 1, "ending")
    OBVIOUS
  <2>1. /\ x \in Session /\ x.pc = "wlock" /\ x.inc.b = ss[s].total
        /\ x.then = "ending" /\ x.pos = ss[s].pos /\ x.rc = ss[s].rc
        /\ x.wc = ss[s].wc /\ x.tally = ss[s].tally
    BY <1>1, WritesSession
  <2>2. y = [x EXCEPT !.upd = FALSE, !.dele = FALSE]
    BY <1>2, <1>4
  <2>3. /\ y \in Session /\ y.pc = x.pc /\ y.inc = x.inc /\ y.then = x.then
        /\ y.pos = x.pos /\ y.rc = x.rc /\ y.wc = x.wc /\ y.tally = x.tally
        /\ ~y.upd /\ ~y.dele
    BY <2>1, <2>2 DEF Session
  <2>4. /\ Undisturbed(s) /\ ss' \in [Sessions -> Session]
        /\ ss'[s].pc = y.pc /\ ss'[s].pos = y.pos /\ ss'[s].rc = y.rc
        /\ ss'[s].wc = y.wc /\ ss'[s].tally = y.tally /\ ss'[s].dele = y.dele
        /\ ss'[s].inc = y.inc /\ ss'[s].then = y.then
        /\ (ss'[s].upd <=> y.upd) /\ (ss'[s].st <=> y.st)
    BY <1>3, <2>3, SessionGoes
  <2> QED BY <1>2, <1>3, <1>4, <2>1, <2>3, <2>4 DEF Intends
<1>5. CASE ~ss[s].upd
  <2>1. y = [ss[s] EXCEPT !.pc = "ending"]
    BY <1>2, <1>5 DEF To
  <2>2. /\ y \in Session /\ y.pc = "ending" /\ y.inc = ss[s].inc
        /\ y.then = ss[s].then /\ y.pos = ss[s].pos /\ y.rc = ss[s].rc
        /\ y.wc = ss[s].wc /\ y.tally = ss[s].tally
        /\ (y.upd <=> ss[s].upd) /\ y.dele = ss[s].dele
    BY <1>1, <2>1 DEF Session
  <2> QED BY <1>2, <1>3, <1>5, <2>2, SessionGoes DEF KeepsTally, KeepsWrite
<1> QED BY <1>4, <1>5

(* What the end of a session changes.                                      *)
LEMMA EndsEffect ==
  ASSUME TypeOK, NEW s \in Sessions, Ends(s)
  PROVE  /\ Undisturbed(s)
         /\ UNCHANGED <<left, table, disk, due, odd, conf>>
         /\ ss[s].pc = "ending"
         /\ ss'[s].pc = "gone"
         /\ ss'[s].pos = 1
         /\ ss'[s].rc = 0
         /\ ss'[s].wc = 0
         /\ ~ss'[s].upd
         /\ ~ss'[s].dele
         /\ ss'[s].inc.b = 0
         /\ ss'[s].then = "idle"
         /\ locks' = {l \in locks : l.by # s}
         /\ mutex' = mutex \ {s}
BY DEF Ends, Goes, To, At, Undisturbed, KeepsPlace, KeepsTally, KeepsWrite,
       KeepsFlag, TypeOK, Session, Increment, Ended, Fresh, Zero

(* What a session that is killed changes.                                  *)
LEMMA KilledEffect ==
  ASSUME TypeOK, NEW s \in Sessions, Killed(s)
  PROVE  /\ Undisturbed(s)
         /\ UNCHANGED <<left, table, disk, due, conf>>
         /\ ss[s].pc # "gone"
         /\ ss'[s].pc = "gone"
         /\ ss'[s].pos = 1
         /\ ss'[s].rc = 0
         /\ ss'[s].wc = 0
         /\ ~ss'[s].upd
         /\ ~ss'[s].dele
         /\ ss'[s].inc.b = 0
         /\ ss'[s].then = "idle"
         /\ locks' = {l \in locks : l.by # s}
         /\ mutex' = mutex \ {s}
         /\ odd' = odd \cup {"exit"}
BY DEF Killed, Goes, To, At, Undisturbed, KeepsPlace, KeepsTally,
       KeepsWrite, KeepsFlag, TypeOK, Session, Increment, Ended, Fresh, Zero

-----------------------------------------------------------------------------
(* Types.                                                                  *)

(* Every set of naturals has a smallest one.                               *)
LEMMA LeastNatural ==
  ASSUME NEW T \in SUBSET Nat, T # {}
  PROVE  \E n \in T : \A m \in T : n <= m
<1>1. \E x \in T : \A y \in T : ~(<<y, x>> \in OpToRel(<, Nat))
  BY NatLessThanWellFounded, WFMin
<1>2. PICK x \in T : \A y \in T : ~(<<y, x>> \in OpToRel(<, Nat))
  BY <1>1
<1>3. \A y \in T : ~(y < x)
  BY <1>2 DEF OpToRel
<1> QED BY <1>3

(* The lookup ends at the first record of the user, or at the end.         *)
LEMMA LookupFinds ==
  ASSUME TypeOK, NEW u
  PROVE  /\ Lookup(u) \in 1 .. Len(table) + 1
         /\ Found(u) => /\ Lookup(u) \in 1 .. Len(table)
                        /\ table[Lookup(u)].user = u
                        /\ table[Lookup(u)] \in Record
         /\ ~Found(u) => /\ Lookup(u) = Len(table) + 1
                         /\ \A i \in 1 .. Len(table) : table[i].user # u
<1>1. Len(table) \in Nat /\ \A i \in 1 .. Len(table) : table[i] \in Record
  BY DEF TypeOK
<1>2. CASE Found(u)
  <2>1. Recorded(u) # {} /\ Recorded(u) \subseteq Nat
    BY <1>1, <1>2 DEF Found, Recorded
  <2>2. \E i \in Recorded(u) : \A j \in Recorded(u) : i <= j
    BY <2>1, LeastNatural
  <2>3. FirstRecord(u) \in Recorded(u)
    BY <2>2 DEF FirstRecord
  <2>4. Lookup(u) = FirstRecord(u)
    BY <1>2 DEF Lookup
  <2> QED BY <1>1, <1>2, <2>3, <2>4 DEF Recorded
<1>3. CASE ~Found(u)
  BY <1>1, <1>3 DEF Found, Lookup, Recorded
<1> QED BY <1>2, <1>3

(* The session stays one after taking QuotaLock at login.                  *)
LEMMA LoginLockTypes ==
  ASSUME TypeOK, NEW s \in Sessions, LoginLock(s)
  PROVE  ss' \in [Sessions -> Session]
<1>1. "lookup" \in Places
  BY DEF Places
<1> PICK x : x = To(s, "lookup")
  OBVIOUS
<1>2. x \in Session
  BY <1>1, ToSession
<1>3. ss' = [ss EXCEPT ![s] = x]
  BY DEF LoginLock, Goes
<1> QED BY <1>2, <1>3 DEF TypeOK

(* The session stays one after the lookup of the user's record.            *)
LEMMA LoginLookupTypes ==
  ASSUME TypeOK, NEW s \in Sessions, LoginLookup(s)
  PROVE  ss' \in [Sessions -> Session]
<1> PICK u : u = UserOf[s]
  OBVIOUS
<1>1. u \in Users /\ ss[s] \in Session
  BY DEF TypeOK, UserOf
<1> PICK t : t = IF Found(u) THEN table[Lookup(u)] ELSE Zero(u)
  OBVIOUS
<1>2. t \in Record
  BY <1>1, LookupFinds DEF Zero, Record
<1>3. Lookup(u) \in Nat
  BY LookupFinds DEF TypeOK
<1> PICK k : k = Lookup(u)
  OBVIOUS
<1>4. PICK place \in Places :
         ss' = [ss EXCEPT ![s] = [ss[s] EXCEPT !.pc = place, !.pos = k, !.tally = t]]
  BY DEF LoginLookup, Goes, Places
<1> QED BY <1>1, <1>2, <1>3, <1>4 DEF TypeOK, Session

(* The session stays one after the lock of quotatab_create.                *)
LEMMA CreateLockTypes ==
  ASSUME TypeOK, NEW s \in Sessions, CreateLock(s)
  PROVE  ss' \in [Sessions -> Session]
<1>1. "append" \in Places
  BY DEF Places
<1> PICK x : x = To(s, "append")
  OBVIOUS
<1>2. x \in Session
  BY <1>1, ToSession
<1> PICK y : y = [x EXCEPT !.wc = @ + 1]
  OBVIOUS
<1>3. y \in Session
  BY <1>2 DEF Session
<1>4. ss' = [ss EXCEPT ![s] = y]
  BY DEF CreateLock, quotatab_wlock
<1> QED BY <1>3, <1>4 DEF TypeOK

(* The session stays one after a record that cannot be locked.             *)
LEMMA CreateFailsTypes ==
  ASSUME TypeOK, NEW s \in Sessions, CreateFails(s)
  PROVE  ss' \in [Sessions -> Session]
<1>1. "off" \in Places
  BY DEF Places
<1> PICK x : x = To(s, "off")
  OBVIOUS
<1>2. x \in Session
  BY <1>1, ToSession
<1>3. ss' = [ss EXCEPT ![s] = x]
  BY DEF CreateFails, Goes
<1> QED BY <1>2, <1>3 DEF TypeOK

(* The session stays one after appending a record.                         *)
LEMMA filetab_createTypes ==
  ASSUME TypeOK, NEW s \in Sessions, filetab_create(s)
  PROVE  ss' \in [Sessions -> Session]
<1>1. "appended" \in Places
  BY DEF Places
<1> PICK x : x = To(s, "appended")
  OBVIOUS
<1>2. x \in Session
  BY <1>1, ToSession
<1> PICK k : k = Len(table) + 1
  OBVIOUS
<1>5. k \in Nat
  BY DEF TypeOK
<1> PICK y : y = [x EXCEPT !.pos = k]
  OBVIOUS
<1>3. y \in Session
  BY <1>5, <1>2 DEF Session
<1>4. ss' = [ss EXCEPT ![s] = y]
  BY DEF filetab_create, Goes
<1> QED BY <1>3, <1>4 DEF TypeOK

(* The session stays one after giving back the lock of quotatab_create.    *)
LEMMA CreateUnlockTypes ==
  ASSUME TypeOK, NEW s \in Sessions, CreateUnlock(s)
  PROVE  ss' \in [Sessions -> Session]
<1>1. "release" \in Places
  BY DEF Places
<1> PICK x : x = To(s, "release")
  OBVIOUS
<1>2. x \in Session
  BY <1>1, ToSession
<1> PICK y : y = [x EXCEPT !.wc = IF @ > 0 THEN @ - 1 ELSE @]
  OBVIOUS
<1>3. y \in Session
  BY <1>2 DEF Session
<1>4. ss' = [ss EXCEPT ![s] = y]
  BY DEF CreateUnlock, quotatab_wunlock
<1> QED BY <1>3, <1>4 DEF TypeOK

(* The session stays one after the end of the login.                       *)
LEMMA LoginDoneTypes ==
  ASSUME TypeOK, NEW s \in Sessions, LoginDone(s)
  PROVE  ss' \in [Sessions -> Session]
<1>1. ss[s] \in Session
  BY DEF TypeOK
<1>2. Idle(s, ss[s]) \in Session
  BY <1>1, IdleSession
<1> QED BY <1>2 DEF LoginDone, Goes, TypeOK

(* The session stays one after the lock of quotatab_read.                  *)
LEMMA ReadLockTypes ==
  ASSUME TypeOK, NEW s \in Sessions, ReadLock(s)
  PROVE  ss' \in [Sessions -> Session]
<1>1. "read" \in Places
  BY DEF Places
<1> PICK x : x = To(s, "read")
  OBVIOUS
<1>2. x \in Session
  BY <1>1, ToSession
<1> PICK y : y = [x EXCEPT !.rc = @ + 1]
  OBVIOUS
<1>3. y \in Session
  BY <1>2 DEF Session
<1>4. ss' = [ss EXCEPT ![s] = y]
  BY DEF ReadLock, quotatab_rlock
<1> QED BY <1>3, <1>4 DEF TypeOK

(* The session stays one after a read without the lock.                    *)
LEMMA ReadGivesUpTypes ==
  ASSUME TypeOK, NEW s \in Sessions, ReadGivesUp(s)
  PROVE  ss' \in [Sessions -> Session]
<1>1. Back(s) \in Places
  BY DEF Back, Places
<1>2. To(s, Back(s)) \in Session
  BY <1>1, ToSession
<1> QED BY <1>2 DEF ReadGivesUp, Goes, TypeOK

(* The session stays one after reading the record.                         *)
LEMMA quotatab_readTypes ==
  ASSUME TypeOK, Placed, NEW s \in Sessions, quotatab_read(s)
  PROVE  ss' \in [Sessions -> Session]
<1> PICK t : t = filetab_read(s)
  OBVIOUS
<1>1. ss[s] \in Session /\ ss[s].pos \in 1 .. Len(table) + 1
  BY DEF TypeOK, Placed
<1>2. t \in Record
  BY <1>1 DEF filetab_read, TypeOK, Session
<1> PICK place \in Places : place = Back(s)
  BY DEF Back, Places
<1>3. ss' = [ss EXCEPT ![s] = [[[ss[s] EXCEPT !.pc = place] EXCEPT !.tally = t]
                                 EXCEPT !.rc = IF @ > 0 THEN @ - 1 ELSE @]]
  BY DEF quotatab_read, quotatab_runlock, To
<1> PICK y : y = [[[ss[s] EXCEPT !.pc = place] EXCEPT !.tally = t]
                                 EXCEPT !.rc = IF @ > 0 THEN @ - 1 ELSE @]
  OBVIOUS
<1> PICK z : z = [[ss[s] EXCEPT !.pc = place] EXCEPT !.tally = t]
  OBVIOUS
<1>5. z \in Session
  BY <1>1, <1>2 DEF Session
<1>4. y \in Session
  <2>1. y = [z EXCEPT !.rc = IF @ > 0 THEN @ - 1 ELSE @]
    OBVIOUS
  <2> QED BY ONLY <1>5, <2>1 DEF Session
<1> QED BY <1>3, <1>4 DEF TypeOK

(* The session stays one after the lock of quotatab_write.                 *)
LEMMA WriteLockTypes ==
  ASSUME TypeOK, NEW s \in Sessions, WriteLock(s)
  PROVE  ss' \in [Sessions -> Session]
<1>1. "rlock" \in Places
  BY DEF Places
<1> PICK x : x = To(s, "rlock")
  OBVIOUS
<1>2. x \in Session
  BY <1>1, ToSession
<1> PICK y : y = [x EXCEPT !.wc = @ + 1]
  OBVIOUS
<1>3. y \in Session
  BY <1>2 DEF Session
<1>4. ss' = [ss EXCEPT ![s] = y]
  BY DEF WriteLock, quotatab_wlock
<1> QED BY <1>3, <1>4 DEF TypeOK

(* The session stays one after a write that is given up.                   *)
LEMMA WriteGivesUpTypes ==
  ASSUME TypeOK, NEW s \in Sessions, WriteGivesUp(s)
  PROVE  ss' \in [Sessions -> Session]
<1>1. ss[s] \in Session
  BY DEF TypeOK
<1>2. Written(s, ss[s]) \in Session
  BY <1>1, WrittenSession
<1> QED BY <1>2 DEF WriteGivesUp, Goes, TypeOK

(* The session stays one after writing the record.                         *)
LEMMA quotatab_writeTypes ==
  ASSUME TypeOK, NEW s \in Sessions, quotatab_write(s)
  PROVE  ss' \in [Sessions -> Session]
<1> PICK t : t = Bumped(ss[s].tally, ss[s].inc)
  OBVIOUS
<1> PICK z : z = [ss[s] EXCEPT !.tally = t]
  OBVIOUS
<1> PICK y : y = Written(s, z)
  OBVIOUS
<1>1. ss[s] \in Session /\ t \in Record
  BY BumpedRecord DEF TypeOK, Session
<1>2. z \in Session
  BY <1>1 DEF Session
<1>3. y \in Session
  BY <1>2, WrittenSession
<1>4. ss' = [ss EXCEPT ![s] = [y EXCEPT !.wc = IF @ > 0 THEN @ - 1 ELSE @]]
  BY DEF quotatab_write, quotatab_wunlock
<1>5. [y EXCEPT !.wc = IF @ > 0 THEN @ - 1 ELSE @] \in Session
  BY <1>3 DEF Session
<1> QED BY <1>4, <1>5 DEF TypeOK

(* The session stays one after STOR.                                       *)
LEMMA StorTypes ==
  ASSUME TypeOK, NEW s \in Sessions, Stor(s)
  PROVE  ss' \in [Sessions -> Session]
<1>1. "rlock" \in Places
  BY DEF Places
<1> PICK x : x = To(s, "rlock")
  OBVIOUS
<1>2. x \in Session
  BY <1>1, ToSession
<1> PICK f \in Files : ss' = [ss EXCEPT ![s] = [To(s, "rlock") EXCEPT !.file = f]]
  BY DEF Stor, Goes
<1> PICK y : y = [x EXCEPT !.file = f]
  OBVIOUS
<1>3. y \in Session
  BY <1>2 DEF Session
<1>4. ss' = [ss EXCEPT ![s] = y]
  OBVIOUS
<1> QED BY <1>3, <1>4 DEF TypeOK

(* The session stays one after the check before an upload.                 *)
LEMMA quotatab_pre_storTypes ==
  ASSUME TypeOK, NEW s \in Sessions, quotatab_pre_stor(s)
  PROVE  ss' \in [Sessions -> Session]
<1>1. "open" \in Places /\ "err" \in Places
  BY DEF Places
<1> PICK x, n : x = To(s, "open") /\ n = Size(ss[s].file)
  OBVIOUS
<1>2. x \in Session /\ To(s, "err") \in Session
  BY <1>1, ToSession
<1>3. n \in Nat
  BY GrowthInt
<1>4. [x EXCEPT !.nb = n, !.upd = TRUE] \in Session
  BY <1>2, <1>3 DEF Session
<1>5. \/ ss' = [ss EXCEPT ![s] = To(s, "err")]
      \/ ss' = [ss EXCEPT ![s] = [x EXCEPT !.nb = n, !.upd = TRUE]]
  BY DEF quotatab_pre_stor, Goes
<1> QED BY <1>2, <1>4, <1>5 DEF TypeOK

(* The session stays one after opening the file.                           *)
LEMMA StorOpensTypes ==
  ASSUME TypeOK, NEW s \in Sessions, StorOpens(s)
  PROVE  ss' \in [Sessions -> Session]
<1>1. "move" \in Places /\ "err" \in Places
  BY DEF Places
<1> PICK x : x = To(s, "move")
  OBVIOUS
<1>2. x \in Session /\ To(s, "err") \in Session
  BY <1>1, ToSession
<1>3. [x EXCEPT !.fd = TRUE] \in Session
  BY <1>2 DEF Session
<1>4. \/ ss' = [ss EXCEPT ![s] = [x EXCEPT !.fd = TRUE]]
      \/ ss' = [ss EXCEPT ![s] = To(s, "err")]
  BY DEF StorOpens, Goes
<1> QED BY <1>2, <1>3, <1>4 DEF TypeOK

(* The session stays one after quotatab_post_stor.                         *)
LEMMA quotatab_post_storTypes ==
  ASSUME TypeOK, NEW s \in Sessions, quotatab_post_stor(s)
  PROVE  ss' \in [Sessions -> Session]
<1> PICK n : n = IF ss[s].nb # 0 THEN 0 ELSE 1
  OBVIOUS
<1>1. n \in {-1, 0, 1} /\ "judge" \in Places
  BY DEF Places
<1>2. Writes(s, Growth(s), n, "judge") \in Session
  BY <1>1, WritesSession, GrowthInt
<1> QED BY <1>2 DEF quotatab_post_stor, Goes, TypeOK

(* The session stays one after quotatab_post_stor_err.                     *)
LEMMA quotatab_post_stor_errTypes ==
  ASSUME TypeOK, NEW s \in Sessions, quotatab_post_stor_err(s)
  PROVE  ss' \in [Sessions -> Session]
<1>1. 0 \in {-1, 0, 1} /\ "judge_err" \in Places
  BY DEF Places
<1>2. Writes(s, Growth(s), 0, "judge_err") \in Session
  BY <1>1, WritesSession, GrowthInt
<1>3. To(s, "judge_err") \in Session
  BY <1>1, ToSession
<1> QED BY <1>2, <1>3 DEF quotatab_post_stor_err, Goes, TypeOK

(* The session stays one after the comparison with the limit after an      *)
(* upload.                                                                 *)
LEMMA JudgeTypes ==
  ASSUME TypeOK, NEW s \in Sessions, Judge(s)
  PROVE  ss' \in [Sessions -> Session]
<1> PICK n : n = IF At(s, "judge") THEN -1 ELSE 0
  OBVIOUS
<1>1. /\ -ss[s].inc.b \in Int /\ "idle" \in Places /\ n \in {-1, 0, 1}
      /\ ss[s].file \in Files
  BY DEF TypeOK, Session, Increment, Places
<1>2. Writes(s, -ss[s].inc.b, n, "idle") \in Session
  BY <1>1, WritesSession
<1>3. Idle(s, Settled(s)) \in Session
  BY SettlesIdle
<1>4. PICK y : /\ y = Writes(s, -ss[s].inc.b, n, "idle") \/ y = Idle(s, Settled(s))
               /\ \/ ss' = [ss EXCEPT ![s] = y]
                  \/ ss' = Unlinked(ss[s].file, [ss EXCEPT ![s] = y])
  BY DEF Judge
<1>5. y \in Session
  BY <1>2, <1>3, <1>4
<1> QED BY <1>1, <1>4, <1>5, SessionGoes

(* The session stays one after quotatab_pre_dele.                          *)
LEMMA quotatab_pre_deleTypes ==
  ASSUME TypeOK, NEW s \in Sessions, quotatab_pre_dele(s)
  PROVE  ss' \in [Sessions -> Session]
<1> PICK f \in Files :
       ss' = [ss EXCEPT ![s] = [ss[s] EXCEPT !.pc = "unlink", !.file = f,
                                !.st = Exists(f), !.nb = Size(f),
                                !.owner = disk[f].owner,
                                !.upd = ss[s].upd \/ Exists(f)]]
  BY DEF quotatab_pre_dele, Goes
<1>1. PICK e \in BOOLEAN : e = Exists(f)
  BY DEF Exists
<1>2. PICK v \in BOOLEAN : v = (ss[s].upd \/ e)
  OBVIOUS
<1>3. ss' = [ss EXCEPT ![s] = [ss[s] EXCEPT !.pc = "unlink", !.file = f,
                                !.st = e, !.nb = Size(f),
                                !.owner = disk[f].owner, !.upd = v]]
  BY <1>1, <1>2
<1>4. Size(f) \in Nat /\ disk[f].owner \in Users
  BY DEF Size, Exists, TypeOK, Absent
<1>5. ss[s] \in Session /\ ss \in [Sessions -> Session]
  BY DEF TypeOK
<1> PICK n, o : n = Size(f) /\ o = disk[f].owner
  OBVIOUS
<1>6. [ss[s] EXCEPT !.pc = "unlink", !.file = f, !.st = e, !.nb = n, !.owner = o,
                    !.upd = v] \in Session
  BY <1>4, <1>5 DEF Session, Places
<1> QED BY <1>3, <1>5, <1>6

(* The session stays one after removing the file.                          *)
LEMMA DeleTypes ==
  ASSUME TypeOK, NEW s \in Sessions, Dele(s)
  PROVE  ss' \in [Sessions -> Session]
<1>1. ss[s] \in Session /\ ss[s].file \in Files
  BY DEF TypeOK, Session
<1> PICK y : y = [ss[s] EXCEPT !.pc = "post_dele"]
  OBVIOUS
<1>2. y \in Session
  BY <1>1 DEF Session, Places
<1>3. Idle(s, Settled(s)) \in Session
  BY SettlesIdle
<1>4. \/ ss' = Unlinked(ss[s].file, [ss EXCEPT ![s] = y])
      \/ ss' = [ss EXCEPT ![s] = Idle(s, Settled(s))]
  BY DEF Dele, Goes
<1> QED BY <1>1, <1>2, <1>3, <1>4, SessionGoes

(* The session stays one after quotatab_post_dele.                         *)
LEMMA quotatab_post_deleTypes ==
  ASSUME TypeOK, NEW s \in Sessions, quotatab_post_dele(s)
  PROVE  ss' \in [Sessions -> Session]
<1>1. /\ ss[s] \in Session /\ -ss[s].nb \in Int /\ -1 \in {-1, 0, 1}
      /\ "idle" \in Places /\ "dele_mutex" \in Places
  BY DEF TypeOK, Session, Places
<1>2. Credits(s) \in Session
  BY <1>1, WritesSession DEF Credits
<1>3. Idle(s, ss[s]) \in Session /\ To(s, "dele_mutex") \in Session
  BY <1>1, IdleSession, ToSession
<1> QED BY <1>2, <1>3 DEF quotatab_post_dele, Goes, TypeOK

(* The session stays one after QuotaLock in quotatab_post_dele.            *)
LEMMA DeleMutexTypes ==
  ASSUME TypeOK, NEW s \in Sessions, DeleMutex(s)
  PROVE  ss' \in [Sessions -> Session]
<1>1. "dele_lookup" \in Places
  BY DEF Places
<1> PICK x : x = To(s, "dele_lookup")
  OBVIOUS
<1>2. x \in Session
  BY <1>1, ToSession
<1>3. ss' = [ss EXCEPT ![s] = x]
  BY DEF DeleMutex, Goes
<1> QED BY <1>2, <1>3 DEF TypeOK

(* The session stays one after the lookup of the owner's record.           *)
LEMMA DeleLookupTypes ==
  ASSUME TypeOK, NEW s \in Sessions, DeleLookup(s)
  PROVE  ss' \in [Sessions -> Session]
<1>1. /\ ss[s] \in Session /\ -ss[s].nb \in Int /\ -1 \in {-1, 0, 1}
      /\ "idle" \in Places /\ "dele_mutex" \in Places
  BY DEF TypeOK, Session, Places
<1>2. Credits(s) \in Session
  BY <1>1, WritesSession DEF Credits
<1> PICK u, k, d, y, v :
       /\ u = ss[s].owner /\ k = Lookup(u) /\ y = Credits(s)
       /\ d = IF Found(u) THEN table[Lookup(u)] ELSE Credits(s).dtally
       /\ v = Found(u)
  OBVIOUS
<1>3. k \in Nat /\ d \in Record /\ v \in BOOLEAN
  <2>1. k \in Nat
    BY LookupFinds DEF TypeOK
  <2>2. Credits(s).dtally \in Record
    BY <1>2 DEF Session
  <2>3. Found(u) => table[Lookup(u)] \in Record
    BY LookupFinds
  <2> QED BY <2>1, <2>2, <2>3 DEF Found
<1>4. ss' = [ss EXCEPT ![s] = [y EXCEPT !.pos = k, !.dele = v, !.dtally = d]]
  BY DEF DeleLookup, Goes
<1>5. y \in Session
  BY <1>2
<1>6. [y EXCEPT !.pos = k, !.dele = v, !.dtally = d] \in Session
  BY <1>3, <1>5 DEF Session
<1> QED BY <1>4, <1>6 DEF TypeOK

(* The session stays one after the end of a session.                       *)
LEMMA EndsTypes ==
  ASSUME TypeOK, NEW s \in Sessions, Ends(s)
  PROVE  ss' \in [Sessions -> Session]
<1>1. Fresh(s) \in Session
  BY FreshSession
<1> PICK y : y = Fresh(s)
  OBVIOUS
<1>2. [y EXCEPT !.pc = "gone"] \in Session
  BY <1>1 DEF Session, Places
<1> QED BY <1>2 DEF Ends, Ended, Goes, TypeOK

(* The session stays one after a session that is killed.                   *)
LEMMA KilledTypes ==
  ASSUME TypeOK, NEW s \in Sessions, Killed(s)
  PROVE  ss' \in [Sessions -> Session]
<1>1. Fresh(s) \in Session
  BY FreshSession
<1> PICK y : y = Fresh(s)
  OBVIOUS
<1>2. [y EXCEPT !.pc = "gone"] \in Session
  BY <1>1 DEF Session, Places
<1> QED BY <1>2 DEF Killed, Ended, Goes, TypeOK

-----------------------------------------------------------------------------
(* What locks, QuotaLock and positions are after a step of one session.    *)

(* fcntl replaces the locks of the session on the record.                  *)
LEMMA LockTypes ==
  ASSUME TypeOK, Placed, NEW s \in Sessions, NEW mode \in SUBSET {"r", "w"},
         locks' = SetLock(s, ss[s].pos, mode)
  PROVE  /\ locks' \subseteq
              [by : Sessions, at : 1..MaxRecords + 1, mode : {"r", "w"}]
         /\ \A l \in locks : l.by # s \/ l.at # ss[s].pos => l \in locks'
         /\ \A l \in locks' :
               \/ l \in locks /\ (l.by # s \/ l.at # ss[s].pos)
               \/ l.by = s /\ l.at = ss[s].pos /\ l.mode \in mode
         /\ \A m \in mode : [by |-> s, at |-> ss[s].pos, mode |-> m] \in locks'
<1> PICK k : k = ss[s].pos
  OBVIOUS
<1>1. k \in 1 .. MaxRecords + 1
  <2>1. k \in 1 .. Len(table) + 1 /\ Len(table) \in Nat /\ Len(table) <= MaxRecords
    BY DEF Placed, TypeOK
  <2> QED BY <2>1, QuotaAssumption
<1>2. locks' = {l \in locks : l.by # s \/ l.at # k} \cup
                 [by : {s}, at : {k}, mode : mode]
  BY DEF SetLock
<1>3. locks \subseteq [by : Sessions, at : 1..MaxRecords + 1, mode : {"r", "w"}]
  BY DEF TypeOK
<1>4. locks' \subseteq [by : Sessions, at : 1..MaxRecords + 1, mode : {"r", "w"}]
  BY <1>1, <1>2, <1>3
<1>5. \A l \in locks : l.by # s \/ l.at # k => l \in locks'
  BY <1>2
<1>6. \A l \in locks' : \/ l \in locks /\ (l.by # s \/ l.at # k)
                        \/ l.by = s /\ l.at = k /\ l.mode \in mode
  <2>1. \A l \in [by : {s}, at : {k}, mode : mode] :
           l.by = s /\ l.at = k /\ l.mode \in mode
    OBVIOUS
  <2>2. \A l \in locks' : \/ l \in {x \in locks : x.by # s \/ x.at # k}
                          \/ l \in [by : {s}, at : {k}, mode : mode]
    BY <1>2, Zenon
  <2> QED BY <2>1, <2>2
<1>7. \A m \in mode : [by |-> s, at |-> k, mode |-> m] \in locks'
  BY <1>2
<1> QED BY <1>4, <1>5, <1>6, <1>7

(* A lock that a session asks for is among the locks afterwards.           *)
LEMMA LockSet ==
  ASSUME TypeOK, Placed, NEW s \in Sessions, NEW mode \in {"r", "w"},
         locks' = SetLock(s, ss[s].pos, {mode})
  PROVE  /\ locks' \subseteq
              [by : Sessions, at : 1..MaxRecords + 1, mode : {"r", "w"}]
         /\ \A l \in locks : l.by # s => l \in locks'
         /\ \A l \in locks' : l.by # s => l \in locks
         /\ \A l \in locks' : l.by \in Sessions
         /\ \A l \in locks' : l.by = s /\ l.at # ss[s].pos => l \in locks
         /\ [by |-> s, at |-> ss[s].pos, mode |-> mode] \in locks'
<1> PICK M : M = {mode}
  OBVIOUS
<1>1. M \in SUBSET {"r", "w"} /\ mode \in M
  OBVIOUS
<1>2. locks' = SetLock(s, ss[s].pos, M)
  OBVIOUS
<1>3. locks' \subseteq [by : Sessions, at : 1..MaxRecords + 1, mode : {"r", "w"}]
  BY <1>1, <1>2, LockTypes, Zenon
<1>4. \A l \in locks : l.by # s \/ l.at # ss[s].pos => l \in locks'
  BY <1>1, <1>2, LockTypes, Zenon
<1>5. \A l \in locks' :
         \/ l \in locks /\ (l.by # s \/ l.at # ss[s].pos)
         \/ l.by = s /\ l.at = ss[s].pos /\ l.mode \in M
  BY <1>1, <1>2, LockTypes, Zenon
<1>6. [by |-> s, at |-> ss[s].pos, mode |-> mode] \in locks'
  BY <1>1, <1>2, LockTypes, Zenon
<1> QED BY <1>3, <1>4, <1>5, <1>6

(* The lock that a session obtains agrees with all others.                 *)
LEMMA LockObtained ==
  ASSUME TypeOK, Placed, LocksAgree, NEW s \in Sessions, NEW mode \in {"r", "w"},
         ~Conflict(s, mode), locks' = SetLock(s, ss[s].pos, {mode})
  PROVE  LocksAgree'
<1> SUFFICES ASSUME NEW l \in locks', NEW m \in locks', l.at = m.at, l # m
             PROVE  l.by # m.by /\ l.mode = "r" /\ m.mode = "r"
  BY DEF LocksAgree
<1> PICK k : k = ss[s].pos
  OBVIOUS
<1>1. \A x \in locks' :
         \/ x \in locks /\ (x.by # s \/ x.at # k)
         \/ x.by = s /\ x.at = k /\ x.mode = mode
  <2>1. PICK M \in SUBSET {"r", "w"} : M = {mode}
    OBVIOUS
  <2>2. locks' = SetLock(s, ss[s].pos, M)
    BY <2>1
  <2>3. \A x \in locks' :
           \/ x \in locks /\ (x.by # s \/ x.at # ss[s].pos)
           \/ x.by = s /\ x.at = ss[s].pos /\ x.mode \in M
    BY <2>2, LockTypes, Zenon
  <2> QED BY <2>1, <2>3
<1>2. \A x \in locks', y \in locks' :
         x.by = s /\ x.at = k /\ y.by = s /\ y.at = k /\ x.mode = y.mode => x = y
  <2>1. {mode} \in SUBSET {"r", "w"}
    OBVIOUS
  <2>2. locks' \subseteq [by : Sessions, at : 1..MaxRecords + 1, mode : {"r", "w"}]
    BY <2>1, LockTypes
  <2> QED BY <2>2
<1>3. \A x \in locks : x.by # s /\ x.at = k => mode # "w" /\ x.mode # "w"
  BY DEF Conflict
<1>4. \A x \in locks : x.mode \in {"r", "w"}
  BY DEF TypeOK
<1> QED BY <1>1, <1>2, <1>3, <1>4 DEF LocksAgree

(* A lock that is given back.                                              *)
LEMMA LockReturned ==
  ASSUME TypeOK, Placed, LocksAgree, NEW s \in Sessions,
         locks' = SetLock(s, ss[s].pos, {})
  PROVE  /\ LocksAgree'
         /\ locks' = {l \in locks : l.by # s \/ l.at # ss[s].pos}
<1>0. {} \in SUBSET {"r", "w"}
  OBVIOUS
<1>1. \A l \in locks : l.by # s \/ l.at # ss[s].pos => l \in locks'
  BY <1>0, LockTypes
<1>2. \A l \in locks' : l \in locks /\ (l.by # s \/ l.at # ss[s].pos)
  BY <1>0, LockTypes
<1> QED BY <1>1, <1>2 DEF LocksAgree

(* A session that neither takes QuotaLock nor begins to log in.            *)
LEMMA MutexStays ==
  ASSUME TypeOK, MutexHeld, NEW s \in Sessions, Undisturbed(s), odd \subseteq odd',
         mutex' = mutex \/ mutex' = mutex \ {s},
         s \in mutex' => ss'[s].pc \in LoggingIn \cup {"dele_lookup", "ending"},
         ss'[s].pc \in LoggingIn => ss[s].pc \in LoggingIn /\ mutex' = mutex
  PROVE  MutexHeld'
<1>1. mutex' \subseteq mutex /\ mutex \subseteq Sessions
  BY DEF TypeOK
<1>2. \A t \in mutex' : mutex' = {t}
  BY <1>1 DEF MutexHeld
<1>3. \A t \in mutex' : ss'[t].pc \in LoggingIn \cup {"dele_lookup", "ending"}
  BY <1>1 DEF MutexHeld, Undisturbed
<1>4. ASSUME "unserialised" \notin odd', NEW t \in Sessions, ss'[t].pc \in LoggingIn
      PROVE  t \in mutex'
  <2>1. "unserialised" \notin odd
    BY <1>4
  <2>2. ss[t].pc \in LoggingIn
    BY <1>4 DEF Undisturbed
  <2>3. t \in mutex
    BY <2>1, <2>2 DEF MutexHeld
  <2> QED BY <1>4, <2>3
<1> QED BY <1>2, <1>3, <1>4 DEF MutexHeld

(* Positions stay right when one session moves and the table is as long.   *)
LEMMA PlacedStays ==
  ASSUME TypeOK, Placed, NEW s \in Sessions, Undisturbed(s), odd \subseteq odd',
         Len(table') = Len(table),
         ss'[s].pos \in 1 .. Len(table) + 1,
         Serial' => /\ ss'[s].pc \in {"create", "append"} =>
                          ss'[s].pos = Len(table) + 1
                    /\ ss'[s].pc \notin Recordless => ss'[s].pos <= Len(table)
  PROVE  Placed'
<1>1. Serial' => Serial
  BY DEF Serial
<1>2. \A t \in Sessions : ss'[t].pos \in 1 .. Len(table') + 1
  BY DEF Placed, Undisturbed
<1>3. ASSUME Serial', NEW t \in Sessions
      PROVE  /\ ss'[t].pc \in {"create", "append"} => ss'[t].pos = Len(table') + 1
             /\ ss'[t].pc \notin Recordless => ss'[t].pos <= Len(table')
  BY <1>1, <1>3 DEF Placed, Undisturbed
<1> QED BY <1>2, <1>3 DEF Placed

(* The locks stay counted when one session changes its own.                *)
LEMMA LocksStay ==
  ASSUME TypeOK, LocksCounted, NEW s \in Sessions, Undisturbed(s), odd \subseteq odd',
         \A l \in locks : l.by # s => l \in locks',
         \A l \in locks' : l.by # s => l \in locks,
         \A l \in locks' : l.by \in Sessions,
         Serial /\ Serial' =>
            /\ \A l \in locks' : l.by = s => /\ l.at = ss'[s].pos
                                             /\ ss'[s].rc + ss'[s].wc > 0
            /\ ss'[s].wc = 1 =>
                  [by |-> s, at |-> ss'[s].pos, mode |-> "w"] \in locks'
  PROVE  LocksCounted'
<1> SUFFICES ASSUME Serial'  PROVE LocksCounted'
  BY DEF LocksCounted
<1>1. Serial
  BY DEF Serial
<1>2. \A l \in locks' : l.at = ss'[l.by].pos /\ ss'[l.by].rc + ss'[l.by].wc > 0
  <2> SUFFICES ASSUME NEW l \in locks'
               PROVE  l.at = ss'[l.by].pos /\ ss'[l.by].rc + ss'[l.by].wc > 0
    OBVIOUS
  <2>1. CASE l.by = s
    BY <1>1, <2>1
  <2>2. CASE l.by # s
    <3>1. l \in locks /\ l.by \in Sessions
      BY <2>2
    <3>2. l.at = ss[l.by].pos /\ ss[l.by].rc + ss[l.by].wc > 0
      BY <1>1, <3>1 DEF LocksCounted
    <3> QED BY <2>2, <3>1, <3>2 DEF Undisturbed
  <2> QED BY <2>1, <2>2
<1>3. ASSUME NEW t \in Sessions, ss'[t].wc = 1
      PROVE  [by |-> t, at |-> ss'[t].pos, mode |-> "w"] \in locks'
  <2>1. CASE t = s
    BY <1>1, <1>3, <2>1
  <2>2. CASE t # s
    <3>1. ss[t].wc = 1 /\ ss'[t].pos = ss[t].pos
      BY <1>3, <2>2 DEF Undisturbed
    <3>2. [by |-> t, at |-> ss[t].pos, mode |-> "w"] \in locks
      BY <1>1, <3>1 DEF LocksCounted
    <3> QED BY <2>2, <3>1, <3>2
  <2> QED BY <2>1, <2>2
<1> QED BY <1>2, <1>3 DEF LocksCounted

(* A session that gives its lock back.                                     *)
LEMMA LocksGiven ==
  ASSUME TypeOK, LocksCounted, NEW s \in Sessions, Undisturbed(s), odd \subseteq odd',
         \A l \in locks : l.by # s => l \in locks',
         \A l \in locks' : l \in locks,
         Serial => \A l \in locks' : l.by # s,
         ss'[s].wc = 0
  PROVE  LocksCounted'
<1>1. \A l \in locks' : l.by \in Sessions
  BY DEF TypeOK
<1>2. Serial /\ Serial' =>
            /\ \A l \in locks' : l.by = s => /\ l.at = ss'[s].pos
                                             /\ ss'[s].rc + ss'[s].wc > 0
            /\ ss'[s].wc = 1 =>
                  [by |-> s, at |-> ss'[s].pos, mode |-> "w"] \in locks'
  OBVIOUS
<1> QED BY <1>1, <1>2, LocksStay

(* A session that has no lock, or keeps the one it has.                    *)
LEMMA SameLocksStay ==
  ASSUME TypeOK, LocksCounted, Counts, NEW s \in Sessions, Undisturbed(s),
         odd \subseteq odd', locks' = locks,
         ss'[s].rc = ss[s].rc, ss'[s].wc = ss[s].wc,
         ss'[s].pos = ss[s].pos \/ ss[s].rc + ss[s].wc = 0
  PROVE  LocksCounted'
<1>1. \A l \in locks : l.by \in Sessions
  BY DEF TypeOK
<1>2. ss[s].rc \in Nat /\ ss[s].wc \in Nat
  BY DEF TypeOK, Session
<1>3. CASE ss'[s].pos = ss[s].pos
  <2>1. Serial => /\ \A l \in locks : l.by = s => /\ l.at = ss'[s].pos
                                                  /\ ss'[s].rc + ss'[s].wc > 0
                  /\ ss'[s].wc = 1 =>
                        [by |-> s, at |-> ss'[s].pos, mode |-> "w"] \in locks
    BY <1>3 DEF LocksCounted
  <2> QED BY <1>1, <2>1, LocksStay
<1>4. CASE ss[s].rc + ss[s].wc = 0
  <2>1. Serial => \A l \in locks : l.by # s
    BY <1>4 DEF LocksCounted
  <2>2. ss'[s].wc # 1
    BY <1>2, <1>4
  <2> QED BY <1>1, <2>1, <2>2, LocksStay
<1> QED BY <1>3, <1>4

-----------------------------------------------------------------------------
(* Every action keeps the invariant.                                       *)

(* A session that goes on and leaves locks and records alone.              *)
LEMMA SessionMoves ==
  ASSUME IInv, TypeOK', Counts', Flags', NEW s \in Sessions, Undisturbed(s),
         UNCHANGED <<table, locks>>, odd \subseteq odd',
         mutex' = mutex \/ mutex' = mutex \ {s}, KeepsPlace(s),
         s \in mutex' => ss'[s].pc \in LoggingIn \cup {"dele_lookup", "ending"},
         ss'[s].pc \in LoggingIn => ss[s].pc \in LoggingIn /\ mutex' = mutex,
         ss'[s].pc \in {"create", "append"} => ss[s].pc \in {"create", "append"},
         ss'[s].pc \notin Recordless => ss[s].pc \notin Recordless
  PROVE  IInv'
<1>1. TypeOK /\ Counts /\ LocksAgree /\ MutexHeld /\ Placed /\ LocksCounted
  BY DEF IInv
<1>2. LocksAgree'
  BY <1>1 DEF LocksAgree
<1>3. MutexHeld'
  BY <1>1, MutexStays
<1>4. Placed'
  <2>1. ss'[s].pos = ss[s].pos /\ ss[s].pos \in 1 .. Len(table) + 1
    BY <1>1 DEF Placed, KeepsPlace
  <2>2. Serial' => Serial
    BY DEF Serial
  <2>3. Serial' => /\ ss'[s].pc \in {"create", "append"} =>
                         ss'[s].pos = Len(table) + 1
                   /\ ss'[s].pc \notin Recordless => ss'[s].pos <= Len(table)
    BY <1>1, <2>1, <2>2 DEF Placed
  <2> QED BY <1>1, <2>1, <2>3, PlacedStays
<1>5. LocksCounted'
  BY <1>1, SameLocksStay DEF KeepsPlace
<1> QED BY <1>2, <1>3, <1>4, <1>5 DEF IInv

(* The invariant after taking QuotaLock at login.                          *)
LEMMA LoginLockPreserves ==
  ASSUME IInv, NEW s \in Sessions, LoginLock(s)
  PROVE  IInv'
<1>1. TypeOK /\ Counts /\ Flags /\ LocksAgree /\ MutexHeld /\ Placed /\ LocksCounted
  BY DEF IInv
<1>2. TypeOK'
  BY <1>1, LoginLockEffect, LoginLockTypes DEF TypeOK
<1>3. Counts'
  BY <1>1, LoginLockEffect
     DEF Counts, Undisturbed, KeepsPlace, KeepsTally, KeepsWrite,
         KeepsFlag, Rests, Intends
<1>4. Flags'
  BY <1>1, LoginLockEffect
     DEF Counts, Flags, Undisturbed, KeepsPlace, KeepsTally, KeepsWrite,
         KeepsFlag, Rests, Intends
<1>5. LocksAgree'
  BY <1>1, LoginLockEffect DEF LocksAgree
<1>6. MutexHeld'
  <2>1. /\ Undisturbed(s) /\ ss'[s].pc = "lookup" /\ ss[s].pc = "new"
        /\ odd \subseteq odd' /\ mutex \subseteq Sessions
    BY <1>1, LoginLockEffect DEF TypeOK
  <2>2. CASE mutex \subseteq {s} /\ mutex' = {s} /\ odd' = odd
    <3>1. \A t \in Sessions \ {s} : "unserialised" \notin odd => ss[t].pc \notin LoggingIn
      BY <1>1, <2>2 DEF MutexHeld
    <3> QED BY <2>1, <2>2, <3>1 DEF MutexHeld, Undisturbed, LoggingIn
  <2>3. CASE mutex' = mutex /\ odd' = odd \cup {"unserialised"}
    <3>1. s \notin mutex
      BY <1>1, <2>1 DEF MutexHeld, LoggingIn
    <3>2. \A t \in mutex : ss'[t].pc \in LoggingIn \cup {"dele_lookup", "ending"}
      BY <1>1, <2>1, <3>1 DEF MutexHeld, Undisturbed
    <3> QED BY <1>1, <2>3, <3>2 DEF MutexHeld
  <2> QED BY <1>1, <2>2, <2>3, LoginLockEffect
<1>7. Placed'
  <2>1. /\ Undisturbed(s) /\ odd \subseteq odd' /\ table' = table
        /\ ss'[s].pos = ss[s].pos
    BY <1>1, LoginLockEffect
       DEF KeepsPlace, KeepsTally, KeepsWrite, KeepsFlag, Rests, Intends
  <2>2. ss[s].pos \in 1 .. Len(table) + 1
    BY <1>1 DEF Placed
  <2>3. /\ ss'[s].pc \in {"create", "append"} => ss[s].pc \in {"create", "append"}
        /\ ss'[s].pc \notin Recordless => ss[s].pc \notin Recordless
    BY <1>1, LoginLockEffect DEF Counts, Recordless, Rests, Intends
  <2>4. Serial' => Serial
    BY <2>1 DEF Serial
  <2>5. Serial' => /\ ss'[s].pc \in {"create", "append"} =>
                         ss'[s].pos = Len(table) + 1
                   /\ ss'[s].pc \notin Recordless => ss'[s].pos <= Len(table)
    BY <1>1, <2>1, <2>3, <2>4 DEF Placed
  <2> QED BY <1>1, <2>1, <2>2, <2>5, PlacedStays
<1>8. LocksCounted'
  <2>1. /\ Undisturbed(s) /\ odd \subseteq odd' /\ locks' = locks
        /\ ss'[s].rc = ss[s].rc /\ ss'[s].wc = ss[s].wc
        /\ ss'[s].pos = ss[s].pos \/ ss[s].rc + ss[s].wc = 0
    BY <1>1, LoginLockEffect
       DEF Counts, KeepsPlace, KeepsTally, KeepsWrite, KeepsFlag, Rests,
           Intends
  <2> QED BY <1>1, <2>1, SameLocksStay
<1> QED BY <1>2, <1>3, <1>4, <1>5, <1>6, <1>7, <1>8 DEF IInv

(* The invariant after the lookup of the user's record.                    *)
LEMMA LoginLookupPreserves ==
  ASSUME IInv, NEW s \in Sessions, LoginLookup(s)
  PROVE  IInv'
<1>1. TypeOK /\ Counts /\ Flags /\ LocksAgree /\ MutexHeld /\ Placed /\ LocksCounted
  BY DEF IInv
<1>2. TypeOK'
  BY <1>1, LoginLookupEffect, LoginLookupTypes DEF TypeOK
<1>3. Counts'
  BY <1>1, LoginLookupEffect
     DEF Counts, Undisturbed, KeepsPlace, KeepsTally, KeepsWrite,
         KeepsFlag, Rests, Intends
<1>4. Flags'
  BY <1>1, LoginLookupEffect
     DEF Counts, Flags, Undisturbed, KeepsPlace, KeepsTally, KeepsWrite,
         KeepsFlag, Rests, Intends
<1>5. LocksAgree'
  BY <1>1, LoginLookupEffect DEF LocksAgree
<1>6. MutexHeld'
  <2>1. /\ Undisturbed(s) /\ odd \subseteq odd'
        /\ mutex' = mutex \/ mutex' = mutex \ {s}
    BY <1>1, LoginLookupEffect
  <2>2. s \in mutex' => ss'[s].pc \in LoggingIn \cup {"dele_lookup", "ending"}
    BY <1>1, LoginLookupEffect DEF MutexHeld, LoggingIn, Rests, Intends
  <2>3. ss'[s].pc \in LoggingIn => ss[s].pc \in LoggingIn /\ mutex' = mutex
    BY <1>1, LoginLookupEffect DEF Counts, LoggingIn, Rests, Intends
  <2> QED BY <1>1, <2>1, <2>2, <2>3, MutexStays
<1>7. Placed'
  <2>1. /\ Undisturbed(s) /\ odd \subseteq odd' /\ table' = table
        /\ ss'[s].pos = Lookup(UserOf[s])
        /\ Serial' /\ ss'[s].pc \in {"create", "append"} => ~Found(UserOf[s])
        /\ Serial' /\ ss'[s].pc \notin Recordless => Found(UserOf[s])
    BY <1>1, LoginLookupEffect DEF Recordless, Serial, Intends
  <2>2. /\ Lookup(UserOf[s]) \in 1 .. Len(table) + 1
        /\ Found(UserOf[s]) => Lookup(UserOf[s]) \in 1 .. Len(table)
        /\ ~Found(UserOf[s]) => Lookup(UserOf[s]) = Len(table) + 1
    BY <1>1, LookupFinds
  <2>3. Len(table) \in Nat
    BY <1>1 DEF TypeOK
  <2> QED BY <1>1, <2>1, <2>2, <2>3, PlacedStays
<1>8. LocksCounted'
  <2>1. /\ Undisturbed(s) /\ odd \subseteq odd' /\ locks' = locks
        /\ ss'[s].rc = ss[s].rc /\ ss'[s].wc = ss[s].wc
        /\ ss'[s].pos = ss[s].pos \/ ss[s].rc + ss[s].wc = 0
    BY <1>1, LoginLookupEffect
       DEF Counts, KeepsPlace, KeepsTally, KeepsWrite, KeepsFlag, Rests,
           Intends
  <2> QED BY <1>1, <2>1, SameLocksStay
<1> QED BY <1>2, <1>3, <1>4, <1>5, <1>6, <1>7, <1>8 DEF IInv

(* The invariant after the lock of quotatab_create.                        *)
LEMMA CreateLockPreserves ==
  ASSUME IInv, NEW s \in Sessions, CreateLock(s)
  PROVE  IInv'
<1>1. TypeOK /\ Counts /\ Flags /\ LocksAgree /\ MutexHeld /\ Placed /\ LocksCounted
  BY DEF IInv
<1>2. TypeOK'
  <2>1. ss[s].wc = 0
    BY <1>1, CreateLockEffect DEF Counts
  <2>2. locks' = SetLock(s, ss[s].pos, {"w"}) /\ ~Conflict(s, "w")
    BY <1>1, <2>1, CreateLockEffect
  <2>3. locks' \subseteq [by : Sessions, at : 1..MaxRecords + 1, mode : {"r", "w"}]
    BY <1>1, <2>2, LockSet
  <2> QED BY <1>1, <2>3, CreateLockEffect, CreateLockTypes DEF TypeOK
<1>3. Counts'
  BY <1>1, CreateLockEffect
     DEF Counts, Undisturbed, KeepsPlace, KeepsTally, KeepsWrite,
         KeepsFlag, Rests, Intends
<1>4. Flags'
  BY <1>1, CreateLockEffect
     DEF Counts, Flags, Undisturbed, KeepsPlace, KeepsTally, KeepsWrite,
         KeepsFlag, Rests, Intends
<1>5. LocksAgree'
  <2>1. ss[s].wc = 0
    BY <1>1, CreateLockEffect DEF Counts
  <2>2. locks' = SetLock(s, ss[s].pos, {"w"}) /\ ~Conflict(s, "w")
    BY <1>1, <2>1, CreateLockEffect
  <2> QED BY <1>1, <2>2, LockObtained
<1>6. MutexHeld'
  <2>1. /\ Undisturbed(s) /\ odd \subseteq odd'
        /\ mutex' = mutex \/ mutex' = mutex \ {s}
    BY <1>1, CreateLockEffect
  <2>2. s \in mutex' => ss'[s].pc \in LoggingIn \cup {"dele_lookup", "ending"}
    BY <1>1, CreateLockEffect DEF MutexHeld, LoggingIn, Rests, Intends
  <2>3. ss'[s].pc \in LoggingIn => ss[s].pc \in LoggingIn /\ mutex' = mutex
    BY <1>1, CreateLockEffect DEF Counts, LoggingIn, Rests, Intends
  <2> QED BY <1>1, <2>1, <2>2, <2>3, MutexStays
<1>7. Placed'
  <2>1. /\ Undisturbed(s) /\ odd \subseteq odd' /\ table' = table
        /\ ss'[s].pos = ss[s].pos
    BY <1>1, CreateLockEffect
       DEF KeepsPlace, KeepsTally, KeepsWrite, KeepsFlag, Rests, Intends
  <2>2. ss[s].pos \in 1 .. Len(table) + 1
    BY <1>1 DEF Placed
  <2>3. /\ ss'[s].pc \in {"create", "append"} => ss[s].pc \in {"create", "append"}
        /\ ss'[s].pc \notin Recordless => ss[s].pc \notin Recordless
    BY <1>1, CreateLockEffect DEF Counts, Recordless, Rests, Intends
  <2>4. Serial' => Serial
    BY <2>1 DEF Serial
  <2>5. Serial' => /\ ss'[s].pc \in {"create", "append"} =>
                         ss'[s].pos = Len(table) + 1
                   /\ ss'[s].pc \notin Recordless => ss'[s].pos <= Len(table)
    BY <1>1, <2>1, <2>3, <2>4 DEF Placed
  <2> QED BY <1>1, <2>1, <2>2, <2>5, PlacedStays
<1>8. LocksCounted'
  <2>1. ss[s].wc = 0
    BY <1>1, CreateLockEffect DEF Counts
  <2>2. locks' = SetLock(s, ss[s].pos, {"w"}) /\ ~Conflict(s, "w")
    BY <1>1, <2>1, CreateLockEffect
  <2>3. /\ \A l \in locks : l.by # s => l \in locks'
        /\ \A l \in locks' : l.by # s => l \in locks
        /\ \A l \in locks' : l.by \in Sessions
        /\ \A l \in locks' : l.by = s /\ l.at # ss[s].pos => l \in locks
        /\ [by |-> s, at |-> ss[s].pos, mode |-> "w"] \in locks'
    BY <1>1, <2>2, LockSet
  <2>4. Undisturbed(s) /\ odd' = odd /\ ss'[s].pos = ss[s].pos
        /\ ss'[s].rc = ss[s].rc /\ ss'[s].wc = 1 /\ ss[s].rc \in Nat
    BY <1>1, <2>1, CreateLockEffect DEF TypeOK, Session
  <2>5. Serial => \A l \in locks : l.by = s => l.at = ss[s].pos
    BY <1>1 DEF LocksCounted
  <2> QED BY <1>1, <2>3, <2>4, <2>5, LocksStay
<1> QED BY <1>2, <1>3, <1>4, <1>5, <1>6, <1>7, <1>8 DEF IInv

(* The invariant after a record that cannot be locked.                     *)
LEMMA CreateFailsPreserves ==
  ASSUME IInv, NEW s \in Sessions, CreateFails(s)
  PROVE  IInv'
<1>1. TypeOK /\ Counts /\ Flags /\ LocksAgree /\ MutexHeld /\ Placed /\ LocksCounted
  BY DEF IInv
<1>2. TypeOK'
  BY <1>1, CreateFailsEffect, CreateFailsTypes DEF TypeOK
<1>3. Counts'
  BY <1>1, CreateFailsEffect
     DEF Counts, Undisturbed, KeepsPlace, KeepsTally, KeepsWrite,
         KeepsFlag, Rests, Intends
<1>4. Flags'
  BY <1>1, CreateFailsEffect
     DEF Counts, Flags, Undisturbed, KeepsPlace, KeepsTally, KeepsWrite,
         KeepsFlag, Rests, Intends
<1>5. /\ Undisturbed(s) /\ UNCHANGED <<table, locks>> /\ odd \subseteq odd'
      /\ mutex' = mutex \/ mutex' = mutex \ {s}
      /\ KeepsPlace(s)
  BY <1>1, CreateFailsEffect DEF KeepsPlace, Rests, Intends
<1>6. /\ s \in mutex' => ss'[s].pc \in LoggingIn \cup {"dele_lookup", "ending"}
      /\ ss'[s].pc \in LoggingIn => ss[s].pc \in LoggingIn /\ mutex' = mutex
      /\ ss'[s].pc \in {"create", "append"} => ss[s].pc \in {"create", "append"}
      /\ ss'[s].pc \notin Recordless => ss[s].pc \notin Recordless
  BY <1>1, CreateFailsEffect
     DEF Counts, MutexHeld, LoggingIn, Recordless, Rests, Intends
<1> QED BY <1>2, <1>3, <1>4, <1>5, <1>6, SessionMoves

(* The invariant after appending a record.                                 *)
LEMMA filetab_createPreserves ==
  ASSUME IInv, NEW s \in Sessions, filetab_create(s)
  PROVE  IInv'
<1>1. TypeOK /\ Counts /\ Flags /\ LocksAgree /\ MutexHeld /\ Placed /\ LocksCounted
  BY DEF IInv
<1>2. TypeOK'
  <2>1. ss[s].tally \in Record
    BY <1>1 DEF TypeOK, Session
  <2>2. table' = Append(table, ss[s].tally) /\ Len(table) < MaxRecords
    BY <1>1, filetab_createEffect
  <2>3. table' \in Seq(Record) /\ Len(table') <= MaxRecords
    BY <1>1, <2>1, <2>2, QuotaAssumption DEF TypeOK
  <2> QED BY <1>1, <2>3, filetab_createEffect, filetab_createTypes DEF TypeOK
<1>3. Counts'
  BY <1>1, filetab_createEffect
     DEF Counts, Undisturbed, KeepsPlace, KeepsTally, KeepsWrite,
         KeepsFlag, Rests, Intends
<1>4. Flags'
  BY <1>1, filetab_createEffect
     DEF Counts, Flags, Undisturbed, KeepsPlace, KeepsTally, KeepsWrite,
         KeepsFlag, Rests, Intends
<1>5. LocksAgree'
  BY <1>1, filetab_createEffect DEF LocksAgree
<1>6. MutexHeld'
  <2>1. /\ Undisturbed(s) /\ odd \subseteq odd'
        /\ mutex' = mutex \/ mutex' = mutex \ {s}
    BY <1>1, filetab_createEffect
  <2>2. s \in mutex' => ss'[s].pc \in LoggingIn \cup {"dele_lookup", "ending"}
    BY <1>1, filetab_createEffect DEF MutexHeld, LoggingIn, Rests, Intends
  <2>3. ss'[s].pc \in LoggingIn => ss[s].pc \in LoggingIn /\ mutex' = mutex
    BY <1>1, filetab_createEffect DEF Counts, LoggingIn, Rests, Intends
  <2> QED BY <1>1, <2>1, <2>2, <2>3, MutexStays
<1>7. Placed'
  <2>1. /\ Undisturbed(s) /\ odd' = odd /\ ss'[s].pos = Len(table) + 1
        /\ ss'[s].pc = "appended" /\ ss[s].pc = "append"
        /\ Len(table') = Len(table) + 1 /\ Len(table) \in Nat
    BY <1>1, filetab_createEffect DEF TypeOK
  <2>2. \A t \in Sessions : ss'[t].pos \in 1 .. Len(table') + 1
    BY <1>1, <2>1 DEF Placed, Undisturbed
  <2>3. ASSUME Serial', NEW t \in Sessions \ {s}
        PROVE  ss[t].pc \notin {"create", "append"}
    <3>1. "unserialised" \notin odd
      BY <2>1, <2>3 DEF Serial
    <3>2. ss[t].pc \in LoggingIn => t \in mutex
      BY <1>1, <2>3, <3>1 DEF MutexHeld
    <3>3. s \in mutex
      BY <1>1, <2>1, <3>1 DEF MutexHeld, LoggingIn
    <3>4. t \notin mutex
      BY <1>1, <2>3, <3>3 DEF MutexHeld
    <3> QED BY <3>2, <3>4 DEF LoggingIn
  <2>4. Serial' => Serial
    BY <2>1 DEF Serial
  <2>5. ASSUME Serial', NEW t \in Sessions
        PROVE  /\ ss'[t].pc \in {"create", "append"} => ss'[t].pos = Len(table') + 1
               /\ ss'[t].pc \notin Recordless => ss'[t].pos <= Len(table')
    <3>1. CASE t = s
      BY <2>1, <3>1
    <3>2. CASE t # s
      <4>1. ss'[t].pc = ss[t].pc /\ ss'[t].pos = ss[t].pos
        BY <2>1, <2>5, <3>2 DEF Undisturbed
      <4>2. ss[t].pc \notin {"create", "append"}
        BY <2>3, <2>5, <3>2
      <4>3. ss[t].pc \notin Recordless => ss[t].pos <= Len(table)
        BY <1>1, <2>4, <2>5 DEF Placed
      <4>4. ss[t].pos \in 1 .. Len(table) + 1
        BY <1>1, <2>5 DEF Placed
      <4> QED BY <2>1, <4>1, <4>2, <4>3, <4>4
    <3> QED BY <3>1, <3>2
  <2> QED BY <2>2, <2>5 DEF Placed
<1>8. LocksCounted'
  <2>1. /\ Undisturbed(s) /\ odd' = odd /\ ss'[s].pos = Len(table) + 1
        /\ locks' = locks /\ ss'[s].rc = ss[s].rc /\ ss'[s].wc = ss[s].wc
        /\ ss[s].pc = "append" /\ \A l \in locks : l.by \in Sessions
    BY <1>1, filetab_createEffect DEF TypeOK
  <2>2. Serial => /\ ss'[s].pos = ss[s].pos
                  /\ \A l \in locks : l.by = s => /\ l.at = ss[s].pos
                                                   /\ ss[s].rc + ss[s].wc > 0
                  /\ ss[s].wc = 1 =>
                        [by |-> s, at |-> ss[s].pos, mode |-> "w"] \in locks
    BY <1>1, <2>1 DEF LocksCounted, Placed
  <2> QED BY <1>1, <2>1, <2>2, LocksStay
<1> QED BY <1>2, <1>3, <1>4, <1>5, <1>6, <1>7, <1>8 DEF IInv

(* The invariant after giving back the lock of quotatab_create.            *)
LEMMA CreateUnlockPreserves ==
  ASSUME IInv, NEW s \in Sessions, CreateUnlock(s)
  PROVE  IInv'
<1>1. TypeOK /\ Counts /\ Flags /\ LocksAgree /\ MutexHeld /\ Placed /\ LocksCounted
  BY DEF IInv
<1>2. TypeOK'
  <2>1. ss[s].wc = 1 /\ ss[s].rc = 0
    BY <1>1, CreateUnlockEffect DEF Counts
  <2>2. locks' = SetLock(s, ss[s].pos, {})
    BY <1>1, <2>1, CreateUnlockEffect
  <2>3. locks' = {l \in locks : l.by # s \/ l.at # ss[s].pos} /\ LocksAgree'
    BY <1>1, <2>2, LockReturned
  <2> QED BY <1>1, <2>3, CreateUnlockEffect, CreateUnlockTypes DEF TypeOK
<1>3. Counts'
  BY <1>1, CreateUnlockEffect
     DEF Counts, Undisturbed, KeepsPlace, KeepsTally, KeepsWrite,
         KeepsFlag, Rests, Intends
<1>4. Flags'
  BY <1>1, CreateUnlockEffect
     DEF Counts, Flags, Undisturbed, KeepsPlace, KeepsTally, KeepsWrite,
         KeepsFlag, Rests, Intends
<1>5. LocksAgree'
  <2>1. ss[s].wc = 1 /\ ss[s].rc = 0
    BY <1>1, CreateUnlockEffect DEF Counts
  <2>2. locks' = SetLock(s, ss[s].pos, {})
    BY <1>1, <2>1, CreateUnlockEffect
  <2>3. locks' = {l \in locks : l.by # s \/ l.at # ss[s].pos} /\ LocksAgree'
    BY <1>1, <2>2, LockReturned
  <2> QED BY <2>3
<1>6. MutexHeld'
  <2>1. /\ Undisturbed(s) /\ odd \subseteq odd'
        /\ mutex' = mutex \/ mutex' = mutex \ {s}
    BY <1>1, CreateUnlockEffect
  <2>2. s \in mutex' => ss'[s].pc \in LoggingIn \cup {"dele_lookup", "ending"}
    BY <1>1, CreateUnlockEffect DEF MutexHeld, LoggingIn, Rests, Intends
  <2>3. ss'[s].pc \in LoggingIn => ss[s].pc \in LoggingIn /\ mutex' = mutex
    BY <1>1, CreateUnlockEffect DEF Counts, LoggingIn, Rests, Intends
  <2> QED BY <1>1, <2>1, <2>2, <2>3, MutexStays
<1>7. Placed'
  <2>1. /\ Undisturbed(s) /\ odd \subseteq odd' /\ table' = table
        /\ ss'[s].pos = ss[s].pos
    BY <1>1, CreateUnlockEffect
       DEF KeepsPlace, KeepsTally, KeepsWrite, KeepsFlag, Rests, Intends
  <2>2. ss[s].pos \in 1 .. Len(table) + 1
    BY <1>1 DEF Placed
  <2>3. /\ ss'[s].pc \in {"create", "append"} => ss[s].pc \in {"create", "append"}
        /\ ss'[s].pc \notin Recordless => ss[s].pc \notin Recordless
    BY <1>1, CreateUnlockEffect DEF Counts, Recordless, Rests, Intends
  <2>4. Serial' => Serial
    BY <2>1 DEF Serial
  <2>5. Serial' => /\ ss'[s].pc \in {"create", "append"} =>
                         ss'[s].pos = Len(table) + 1
                   /\ ss'[s].pc \notin Recordless => ss'[s].pos <= Len(table)
    BY <1>1, <2>1, <2>3, <2>4 DEF Placed
  <2> QED BY <1>1, <2>1, <2>2, <2>5, PlacedStays
<1>8. LocksCounted'
  <2>1. ss[s].wc = 1 /\ ss[s].rc = 0
    BY <1>1, CreateUnlockEffect DEF Counts
  <2>2. locks' = SetLock(s, ss[s].pos, {})
    BY <1>1, <2>1, CreateUnlockEffect
  <2>3. locks' = {l \in locks : l.by # s \/ l.at # ss[s].pos} /\ LocksAgree'
    BY <1>1, <2>2, LockReturned
  <2>4. Undisturbed(s) /\ odd' = odd /\ ss'[s].wc = 0
    BY <1>1, <2>1, CreateUnlockEffect
  <2>5. Serial => \A l \in locks : l.by = s => l.at = ss[s].pos
    BY <1>1 DEF LocksCounted
  <2>6. \A l \in locks : l.by \in Sessions
    BY <1>1 DEF TypeOK
  <2>7. /\ \A l \in locks : l.by # s => l \in locks'
        /\ \A l \in locks' : l \in locks
        /\ Serial => \A l \in locks' : l.by # s
    BY <2>3, <2>5
  <2> QED BY <1>1, <2>4, <2>7, LocksGiven
<1> QED BY <1>2, <1>3, <1>4, <1>5, <1>6, <1>7, <1>8 DEF IInv

(* The invariant after the end of the login.                               *)
LEMMA LoginDonePreserves ==
  ASSUME IInv, NEW s \in Sessions, LoginDone(s)
  PROVE  IInv'
<1>1. TypeOK /\ Counts /\ Flags /\ LocksAgree /\ MutexHeld /\ Placed /\ LocksCounted
  BY DEF IInv
<1>2. TypeOK'
  BY <1>1, LoginDoneEffect, LoginDoneTypes DEF TypeOK
<1>3. Counts'
  BY <1>1, LoginDoneEffect
     DEF Counts, Undisturbed, KeepsPlace, KeepsTally, KeepsWrite,
         KeepsFlag, Rests, Intends
<1>4. Flags'
  BY <1>1, LoginDoneEffect
     DEF Counts, Flags, Undisturbed, KeepsPlace, KeepsTally, KeepsWrite,
         KeepsFlag, Rests, Intends
<1>5. /\ Undisturbed(s) /\ UNCHANGED <<table, locks>> /\ odd \subseteq odd'
      /\ mutex' = mutex \/ mutex' = mutex \ {s}
      /\ KeepsPlace(s)
  BY <1>1, LoginDoneEffect DEF KeepsPlace, Rests, Intends
<1>6. /\ s \in mutex' => ss'[s].pc \in LoggingIn \cup {"dele_lookup", "ending"}
      /\ ss'[s].pc \in LoggingIn => ss[s].pc \in LoggingIn /\ mutex' = mutex
      /\ ss'[s].pc \in {"create", "append"} => ss[s].pc \in {"create", "append"}
      /\ ss'[s].pc \notin Recordless => ss[s].pc \notin Recordless
  BY <1>1, LoginDoneEffect
     DEF Counts, MutexHeld, LoggingIn, Recordless, Rests, Intends
<1> QED BY <1>2, <1>3, <1>4, <1>5, <1>6, SessionMoves

(* The invariant after the lock of quotatab_read.                          *)
LEMMA ReadLockPreserves ==
  ASSUME IInv, NEW s \in Sessions, ReadLock(s)
  PROVE  IInv'
<1>1. TypeOK /\ Counts /\ Flags /\ LocksAgree /\ MutexHeld /\ Placed /\ LocksCounted
  BY DEF IInv
<1>2. TypeOK'
  <2>1. ss[s].rc = 0 /\ ss[s].wc \in {0, 1} /\ ss[s].pc = "rlock"
    BY <1>1, ReadLockEffect DEF Counts
  <2>2. CASE ss[s].wc = 0
    <3>1. locks' = SetLock(s, ss[s].pos, {"r"}) /\ ~Conflict(s, "r")
      BY <1>1, <2>1, <2>2, ReadLockEffect
    <3>2. locks' \subseteq [by : Sessions, at : 1..MaxRecords + 1, mode : {"r", "w"}]
      BY <1>1, <3>1, LockSet
    <3> QED BY <1>1, <3>2, ReadLockEffect, ReadLockTypes DEF TypeOK
  <2>3. CASE ss[s].wc = 1
    <3>1. locks' = locks
      BY <1>1, <2>1, <2>3, ReadLockEffect
    <3> QED BY <1>1, <3>1, ReadLockEffect, ReadLockTypes DEF TypeOK
  <2> QED BY <2>1, <2>2, <2>3
<1>3. Counts'
  BY <1>1, ReadLockEffect
     DEF Counts, Undisturbed, KeepsPlace, KeepsTally, KeepsWrite,
         KeepsFlag, Rests, Intends
<1>4. Flags'
  BY <1>1, ReadLockEffect
     DEF Counts, Flags, Undisturbed, KeepsPlace, KeepsTally, KeepsWrite,
         KeepsFlag, Rests, Intends
<1>5. LocksAgree'
  <2>1. ss[s].rc = 0 /\ ss[s].wc \in {0, 1} /\ ss[s].pc = "rlock"
    BY <1>1, ReadLockEffect DEF Counts
  <2>2. CASE ss[s].wc = 0
    <3>1. locks' = SetLock(s, ss[s].pos, {"r"}) /\ ~Conflict(s, "r")
      BY <1>1, <2>1, <2>2, ReadLockEffect
    <3> QED BY <1>1, <3>1, LockObtained
  <2>3. CASE ss[s].wc = 1
    <3>1. locks' = locks
      BY <1>1, <2>1, <2>3, ReadLockEffect
    <3> QED BY <1>1, <3>1 DEF LocksAgree
  <2> QED BY <2>1, <2>2, <2>3
<1>6. MutexHeld'
  <2>1. /\ Undisturbed(s) /\ odd \subseteq odd'
        /\ mutex' = mutex \/ mutex' = mutex \ {s}
    BY <1>1, ReadLockEffect
  <2>2. s \in mutex' => ss'[s].pc \in LoggingIn \cup {"dele_lookup", "ending"}
    BY <1>1, ReadLockEffect DEF MutexHeld, LoggingIn, Rests, Intends
  <2>3. ss'[s].pc \in LoggingIn => ss[s].pc \in LoggingIn /\ mutex' = mutex
    BY <1>1, ReadLockEffect DEF Counts, LoggingIn, Rests, Intends
  <2> QED BY <1>1, <2>1, <2>2, <2>3, MutexStays
<1>7. Placed'
  <2>1. /\ Undisturbed(s) /\ odd \subseteq odd' /\ table' = table
        /\ ss'[s].pos = ss[s].pos
    BY <1>1, ReadLockEffect
       DEF KeepsPlace, KeepsTally, KeepsWrite, KeepsFlag, Rests, Intends
  <2>2. ss[s].pos \in 1 .. Len(table) + 1
    BY <1>1 DEF Placed
  <2>3. /\ ss'[s].pc \in {"create", "append"} => ss[s].pc \in {"create", "append"}
        /\ ss'[s].pc \notin Recordless => ss[s].pc \notin Recordless
    BY <1>1, ReadLockEffect DEF Counts, Recordless, Rests, Intends
  <2>4. Serial' => Serial
    BY <2>1 DEF Serial
  <2>5. Serial' => /\ ss'[s].pc \in {"create", "append"} =>
                         ss'[s].pos = Len(table) + 1
                   /\ ss'[s].pc \notin Recordless => ss'[s].pos <= Len(table)
    BY <1>1, <2>1, <2>3, <2>4 DEF Placed
  <2> QED BY <1>1, <2>1, <2>2, <2>5, PlacedStays
<1>8. LocksCounted'
  <2>0. Undisturbed(s) /\ odd' = odd /\ ss'[s].pos = ss[s].pos
        /\ ss'[s].rc = ss[s].rc + 1 /\ ss'[s].wc = ss[s].wc
    BY <1>1, ReadLockEffect
  <2>1. ss[s].rc = 0 /\ ss[s].wc \in {0, 1} /\ ss[s].pc = "rlock"
    BY <1>1, ReadLockEffect DEF Counts
  <2>2. CASE ss[s].wc = 0
    <3>1. locks' = SetLock(s, ss[s].pos, {"r"}) /\ ~Conflict(s, "r")
      BY <1>1, <2>1, <2>2, ReadLockEffect
    <3>3. /\ \A l \in locks : l.by # s => l \in locks'
          /\ \A l \in locks' : l.by # s => l \in locks
          /\ \A l \in locks' : l.by \in Sessions
          /\ \A l \in locks' : l.by = s /\ l.at # ss[s].pos => l \in locks
      BY <1>1, <3>1, LockSet
    <3>5. Serial => \A l \in locks : l.by = s => l.at = ss[s].pos
      BY <1>1 DEF LocksCounted
    <3>6. Serial /\ Serial' =>
            /\ \A l \in locks' : l.by = s => /\ l.at = ss'[s].pos
                                             /\ ss'[s].rc + ss'[s].wc > 0
            /\ ss'[s].wc = 1 =>
                  [by |-> s, at |-> ss'[s].pos, mode |-> "w"] \in locks'
      BY <2>0, <2>1, <2>2, <3>3, <3>5
    <3> QED BY <1>1, <2>0, <3>3, <3>6, LocksStay
  <2>3. CASE ss[s].wc = 1
    <3>1. locks' = locks
      BY <1>1, <2>1, <2>3, ReadLockEffect
    <3>3. /\ \A l \in locks : l.by \in Sessions
          /\ Serial => /\ \A l \in locks : l.by = s => l.at = ss[s].pos
                       /\ [by |-> s, at |-> ss[s].pos, mode |-> "w"] \in locks
      BY <1>1, <2>3 DEF LocksCounted, TypeOK
    <3> QED BY <1>1, <2>0, <2>1, <2>3, <3>1, <3>3, LocksStay
  <2> QED BY <2>1, <2>2, <2>3
<1> QED BY <1>2, <1>3, <1>4, <1>5, <1>6, <1>7, <1>8 DEF IInv

(* The invariant after a read without the lock.                            *)
LEMMA ReadGivesUpPreserves ==
  ASSUME IInv, NEW s \in Sessions, ReadGivesUp(s)
  PROVE  IInv'
<1>1. TypeOK /\ Counts /\ Flags /\ LocksAgree /\ MutexHeld /\ Placed /\ LocksCounted
  BY DEF IInv
<1>2. TypeOK'
  BY <1>1, ReadGivesUpEffect, ReadGivesUpTypes DEF TypeOK
<1>3. Counts'
  BY <1>1, ReadGivesUpEffect
     DEF Counts, Undisturbed, KeepsPlace, KeepsTally, KeepsWrite,
         KeepsFlag, Rests, Intends
<1>4. Flags'
  BY <1>1, ReadGivesUpEffect
     DEF Counts, Flags, Undisturbed, KeepsPlace, KeepsTally, KeepsWrite,
         KeepsFlag, Rests, Intends
<1>5. /\ Undisturbed(s) /\ UNCHANGED <<table, locks>> /\ odd \subseteq odd'
      /\ mutex' = mutex \/ mutex' = mutex \ {s}
      /\ KeepsPlace(s)
  BY <1>1, ReadGivesUpEffect DEF KeepsPlace, Rests, Intends
<1>6. /\ s \in mutex' => ss'[s].pc \in LoggingIn \cup {"dele_lookup", "ending"}
      /\ ss'[s].pc \in LoggingIn => ss[s].pc \in LoggingIn /\ mutex' = mutex
      /\ ss'[s].pc \in {"create", "append"} => ss[s].pc \in {"create", "append"}
      /\ ss'[s].pc \notin Recordless => ss[s].pc \notin Recordless
  BY <1>1, ReadGivesUpEffect
     DEF Counts, MutexHeld, LoggingIn, Recordless, Rests, Intends
<1> QED BY <1>2, <1>3, <1>4, <1>5, <1>6, SessionMoves

(* The invariant after reading the record.                                 *)
LEMMA quotatab_readPreserves ==
  ASSUME IInv, NEW s \in Sessions, quotatab_read(s)
  PROVE  IInv'
<1>1. TypeOK /\ Counts /\ Flags /\ LocksAgree /\ MutexHeld /\ Placed /\ LocksCounted
  BY DEF IInv
<1>2. TypeOK'
  <2>1. ss[s].rc = 1 /\ ss[s].wc \in {0, 1} /\ ss[s].pc = "read"
    BY <1>1, quotatab_readEffect DEF Counts
  <2>2. CASE ss[s].wc = 0
    <3>1. locks' = SetLock(s, ss[s].pos, {})
      BY <1>1, <2>1, <2>2, quotatab_readEffect
    <3>2. locks' = {l \in locks : l.by # s \/ l.at # ss[s].pos} /\ LocksAgree'
      BY <1>1, <3>1, LockReturned
    <3> QED BY <1>1, <3>2, quotatab_readEffect, quotatab_readTypes DEF TypeOK
  <2>3. CASE ss[s].wc = 1
    <3>1. locks' = locks
      BY <1>1, <2>1, <2>3, quotatab_readEffect
    <3> QED BY <1>1, <3>1, quotatab_readEffect, quotatab_readTypes DEF TypeOK
  <2> QED BY <2>1, <2>2, <2>3
<1>3. Counts'
  BY <1>1, quotatab_readEffect DEF Counts, Back, Undisturbed, KeepsWrite
<1>4. Flags'
  BY <1>1, quotatab_readEffect DEF Counts, Flags, Back, Undisturbed, KeepsFlag
<1>5. LocksAgree'
  <2>1. ss[s].rc = 1 /\ ss[s].wc \in {0, 1} /\ ss[s].pc = "read"
    BY <1>1, quotatab_readEffect DEF Counts
  <2>2. CASE ss[s].wc = 0
    <3>1. locks' = SetLock(s, ss[s].pos, {})
      BY <1>1, <2>1, <2>2, quotatab_readEffect
    <3>2. locks' = {l \in locks : l.by # s \/ l.at # ss[s].pos} /\ LocksAgree'
      BY <1>1, <3>1, LockReturned
    <3> QED BY <3>2
  <2>3. CASE ss[s].wc = 1
    <3>1. locks' = locks
      BY <1>1, <2>1, <2>3, quotatab_readEffect
    <3> QED BY <1>1, <3>1 DEF LocksAgree
  <2> QED BY <2>1, <2>2, <2>3
<1>6. MutexHeld'
  <2>1. /\ Undisturbed(s) /\ odd \subseteq odd'
        /\ mutex' = mutex \/ mutex' = mutex \ {s}
    BY <1>1, quotatab_readEffect
  <2>2. s \in mutex' => ss'[s].pc \in LoggingIn \cup {"dele_lookup", "ending"}
    BY <1>1, quotatab_readEffect DEF MutexHeld, LoggingIn, Rests, Intends, Back
  <2>3. ss'[s].pc \in LoggingIn => ss[s].pc \in LoggingIn /\ mutex' = mutex
    BY <1>1, quotatab_readEffect DEF Counts, LoggingIn, Rests, Intends, Back
  <2> QED BY <1>1, <2>1, <2>2, <2>3, MutexStays
<1>7. Placed'
  <2>1. /\ Undisturbed(s) /\ odd \subseteq odd' /\ table' = table
        /\ ss'[s].pos = ss[s].pos
    BY <1>1, quotatab_readEffect
       DEF KeepsPlace, KeepsTally, KeepsWrite, KeepsFlag, Rests, Intends
  <2>2. ss[s].pos \in 1 .. Len(table) + 1
    BY <1>1 DEF Placed
  <2>3. /\ ss'[s].pc \in {"create", "append"} => ss[s].pc \in {"create", "append"}
        /\ ss'[s].pc \notin Recordless => ss[s].pc \notin Recordless
    BY <1>1, quotatab_readEffect DEF Counts, Recordless, Rests, Intends, Back
  <2>4. Serial' => Serial
    BY <2>1 DEF Serial
  <2>5. Serial' => /\ ss'[s].pc \in {"create", "append"} =>
                         ss'[s].pos = Len(table) + 1
                   /\ ss'[s].pc \notin Recordless => ss'[s].pos <= Len(table)
    BY <1>1, <2>1, <2>3, <2>4 DEF Placed
  <2> QED BY <1>1, <2>1, <2>2, <2>5, PlacedStays
<1>8. LocksCounted'
  <2>0. Undisturbed(s) /\ odd' = odd /\ ss'[s].pos = ss[s].pos
        /\ ss'[s].wc = ss[s].wc /\ \A l \in locks : l.by \in Sessions
        /\ (ss[s].rc = 1 => ss'[s].rc = 0)
    BY <1>1, quotatab_readEffect DEF TypeOK
  <2>1. ss[s].rc = 1 /\ ss[s].wc \in {0, 1} /\ ss[s].pc = "read"
    BY <1>1, quotatab_readEffect DEF Counts
  <2>2. CASE ss[s].wc = 0
    <3>1. locks' = SetLock(s, ss[s].pos, {})
      BY <1>1, <2>1, <2>2, quotatab_readEffect
    <3>2. locks' = {l \in locks : l.by # s \/ l.at # ss[s].pos} /\ LocksAgree'
      BY <1>1, <3>1, LockReturned
    <3>5. Serial => \A l \in locks : l.by = s => l.at = ss[s].pos
      BY <1>1 DEF LocksCounted
    <3>6. /\ \A l \in locks : l.by # s => l \in locks'
          /\ \A l \in locks' : l \in locks
          /\ Serial => \A l \in locks' : l.by # s
      BY <3>2, <3>5
    <3> QED BY <1>1, <2>0, <2>1, <2>2, <3>6, LocksGiven
  <2>3. CASE ss[s].wc = 1
    <3>1. locks' = locks
      BY <1>1, <2>1, <2>3, quotatab_readEffect
    <3>3. Serial => /\ \A l \in locks : l.by = s => l.at = ss[s].pos
                    /\ [by |-> s, at |-> ss[s].pos, mode |-> "w"] \in locks
      BY <1>1, <2>3 DEF LocksCounted
    <3> QED BY <1>1, <2>0, <2>1, <2>3, <3>1, <3>3, LocksStay
  <2> QED BY <2>1, <2>2, <2>3
<1> QED BY <1>2, <1>3, <1>4, <1>5, <1>6, <1>7, <1>8 DEF IInv

(* The invariant after the lock of quotatab_write.                         *)
LEMMA WriteLockPreserves ==
  ASSUME IInv, NEW s \in Sessions, WriteLock(s)
  PROVE  IInv'
<1>1. TypeOK /\ Counts /\ Flags /\ LocksAgree /\ MutexHeld /\ Placed /\ LocksCounted
  BY DEF IInv
<1>2. TypeOK'
  <2>1. ss[s].wc = 0
    BY <1>1, WriteLockEffect DEF Counts
  <2>2. locks' = SetLock(s, ss[s].pos, {"w"}) /\ ~Conflict(s, "w")
    BY <1>1, <2>1, WriteLockEffect
  <2>3. locks' \subseteq [by : Sessions, at : 1..MaxRecords + 1, mode : {"r", "w"}]
    BY <1>1, <2>2, LockSet
  <2> QED BY <1>1, <2>3, WriteLockEffect, WriteLockTypes DEF TypeOK
<1>3. Counts'
  BY <1>1, WriteLockEffect
     DEF Counts, Undisturbed, KeepsPlace, KeepsTally, KeepsWrite,
         KeepsFlag, Rests, Intends
<1>4. Flags'
  BY <1>1, WriteLockEffect
     DEF Counts, Flags, Undisturbed, KeepsPlace, KeepsTally, KeepsWrite,
         KeepsFlag, Rests, Intends
<1>5. LocksAgree'
  <2>1. ss[s].wc = 0
    BY <1>1, WriteLockEffect DEF Counts
  <2>2. locks' = SetLock(s, ss[s].pos, {"w"}) /\ ~Conflict(s, "w")
    BY <1>1, <2>1, WriteLockEffect
  <2> QED BY <1>1, <2>2, LockObtained
<1>6. MutexHeld'
  <2>1. /\ Undisturbed(s) /\ odd \subseteq odd'
        /\ mutex' = mutex \/ mutex' = mutex \ {s}
    BY <1>1, WriteLockEffect
  <2>2. s \in mutex' => ss'[s].pc \in LoggingIn \cup {"dele_lookup", "ending"}
    BY <1>1, WriteLockEffect DEF MutexHeld, LoggingIn, Rests, Intends
  <2>3. ss'[s].pc \in LoggingIn => ss[s].pc \in LoggingIn /\ mutex' = mutex
    BY <1>1, WriteLockEffect DEF Counts, LoggingIn, Rests, Intends
  <2> QED BY <1>1, <2>1, <2>2, <2>3, MutexStays
<1>7. Placed'
  <2>1. /\ Undisturbed(s) /\ odd \subseteq odd' /\ table' = table
        /\ ss'[s].pos = ss[s].pos
    BY <1>1, WriteLockEffect
       DEF KeepsPlace, KeepsTally, KeepsWrite, KeepsFlag, Rests, Intends
  <2>2. ss[s].pos \in 1 .. Len(table) + 1
    BY <1>1 DEF Placed
  <2>3. /\ ss'[s].pc \in {"create", "append"} => ss[s].pc \in {"create", "append"}
        /\ ss'[s].pc \notin Recordless => ss[s].pc \notin Recordless
    BY <1>1, WriteLockEffect DEF Counts, Recordless, Rests, Intends
  <2>4. Serial' => Serial
    BY <2>1 DEF Serial
  <2>5. Serial' => /\ ss'[s].pc \in {"create", "append"} =>
                         ss'[s].pos = Len(table) + 1
                   /\ ss'[s].pc \notin Recordless => ss'[s].pos <= Len(table)
    BY <1>1, <2>1, <2>3, <2>4 DEF Placed
  <2> QED BY <1>1, <2>1, <2>2, <2>5, PlacedStays
<1>8. LocksCounted'
  <2>1. ss[s].wc = 0
    BY <1>1, WriteLockEffect DEF Counts
  <2>2. locks' = SetLock(s, ss[s].pos, {"w"}) /\ ~Conflict(s, "w")
    BY <1>1, <2>1, WriteLockEffect
  <2>3. /\ \A l \in locks : l.by # s => l \in locks'
        /\ \A l \in locks' : l.by # s => l \in locks
        /\ \A l \in locks' : l.by \in Sessions
        /\ \A l \in locks' : l.by = s /\ l.at # ss[s].pos => l \in locks
        /\ [by |-> s, at |-> ss[s].pos, mode |-> "w"] \in locks'
    BY <1>1, <2>2, LockSet
  <2>4. Undisturbed(s) /\ odd' = odd /\ ss'[s].pos = ss[s].pos
        /\ ss'[s].rc = ss[s].rc /\ ss'[s].wc = 1 /\ ss[s].rc \in Nat
    BY <1>1, <2>1, WriteLockEffect DEF TypeOK, Session
  <2>5. Serial => \A l \in locks : l.by = s => l.at = ss[s].pos
    BY <1>1 DEF LocksCounted
  <2> QED BY <1>1, <2>3, <2>4, <2>5, LocksStay
<1> QED BY <1>2, <1>3, <1>4, <1>5, <1>6, <1>7, <1>8 DEF IInv

(* The invariant after a write that is given up.                           *)
LEMMA WriteGivesUpPreserves ==
  ASSUME IInv, NEW s \in Sessions, WriteGivesUp(s)
  PROVE  IInv'
<1>1. TypeOK /\ Counts /\ Flags /\ LocksAgree /\ MutexHeld /\ Placed /\ LocksCounted
  BY DEF IInv
<1>2. TypeOK'
  BY <1>1, WriteGivesUpEffect, WriteGivesUpTypes DEF TypeOK
<1>3. Counts'
  BY <1>1, WriteGivesUpEffect
     DEF Counts, Undisturbed, KeepsPlace, KeepsTally, KeepsWrite,
         KeepsFlag, Rests, Intends, Follows
<1>4. Flags'
  BY <1>1, WriteGivesUpEffect
     DEF Counts, Flags, Undisturbed, KeepsPlace, KeepsTally, KeepsWrite,
         KeepsFlag, Rests, Intends, Follows
<1>5. /\ Undisturbed(s) /\ UNCHANGED <<table, locks>> /\ odd \subseteq odd'
      /\ mutex' = mutex \/ mutex' = mutex \ {s}
      /\ KeepsPlace(s)
  BY <1>1, WriteGivesUpEffect DEF KeepsPlace, Rests, Intends, Follows
<1>6. /\ s \in mutex' => ss'[s].pc \in LoggingIn \cup {"dele_lookup", "ending"}
      /\ ss'[s].pc \in LoggingIn => ss[s].pc \in LoggingIn /\ mutex' = mutex
      /\ ss'[s].pc \in {"create", "append"} => ss[s].pc \in {"create", "append"}
      /\ ss'[s].pc \notin Recordless => ss[s].pc \notin Recordless
  BY <1>1, WriteGivesUpEffect
     DEF Counts, MutexHeld, LoggingIn, Recordless, Rests, Intends, Follows
<1> QED BY <1>2, <1>3, <1>4, <1>5, <1>6, SessionMoves

(* The invariant after writing the record.                                 *)
LEMMA quotatab_writePreserves ==
  ASSUME IInv, NEW s \in Sessions, quotatab_write(s)
  PROVE  IInv'
<1>1. TypeOK /\ Counts /\ Flags /\ LocksAgree /\ MutexHeld /\ Placed /\ LocksCounted
  BY DEF IInv
<1>2. TypeOK'
  <2>1. ss[s].wc = 1 /\ ss[s].rc = 0
    BY <1>1, quotatab_writeEffect DEF Counts
  <2>2. locks' = SetLock(s, ss[s].pos, {})
    BY <1>1, <2>1, quotatab_writeEffect
  <2>3. locks' = {l \in locks : l.by # s \/ l.at # ss[s].pos} /\ LocksAgree'
    BY <1>1, <2>2, LockReturned
  <2> PICK r : r = IF ss[s].dele THEN ss[s].dtally ELSE Bumped(ss[s].tally, ss[s].inc)
    OBVIOUS
  <2>4. /\ ss[s] \in Session /\ ss[s].pos \in 1 .. Len(table) + 1
        /\ ss[s].tally \in Record /\ ss[s].inc \in Increment
        /\ ss[s].owner \in Users /\ UserOf[s] \in Users /\ ss[s].dtally \in Record
        /\ Len(table) \in Nat /\ Len(table) <= MaxRecords
    BY <1>1 DEF TypeOK, Placed, Session, UserOf
  <2>5. r \in Record
    BY <2>4, BumpedRecord
  <2>6. table' = filetab_write(s, r) /\ ss[s].pos <= MaxRecords
    BY <1>1, quotatab_writeEffect
  <2>7. table' \in Seq(Record) /\ Len(table') <= MaxRecords
    <3>1. CASE ss[s].pos <= Len(table)
      <4>1. table' = [table EXCEPT ![ss[s].pos] = r]
        BY <2>6, <3>1 DEF filetab_write
      <4> QED BY <1>1, <2>4, <2>5, <3>1, <4>1 DEF TypeOK
    <3>2. CASE ~(ss[s].pos <= Len(table))
      <4>1. table' = Append(table, r) /\ Len(table) < MaxRecords
        BY <2>4, <2>6, <3>2, QuotaAssumption DEF filetab_write
      <4> QED BY <1>1, <2>4, <2>5, <4>1, QuotaAssumption DEF TypeOK
    <3> QED BY <3>1, <3>2
  <2>8. due' \in [Users -> Record]
    <3> PICK u \in Users : due' = [due EXCEPT ![u] = Bumped(@, ss[s].inc)]
      BY <1>1, <2>4, quotatab_writeEffect
    <3>1. due[u] \in Record /\ due \in [Users -> Record]
      BY <1>1 DEF TypeOK
    <3>2. Bumped(due[u], ss[s].inc) \in Record
      BY <2>4, <3>1, BumpedRecord
    <3> QED BY <3>1, <3>2
  <2>9. UNCHANGED <<left, mutex, disk, conf>> /\ ss' \in [Sessions -> Session]
    BY <1>1, quotatab_writeEffect, quotatab_writeTypes
  <2> QED BY <1>1, <2>3, <2>7, <2>8, <2>9 DEF TypeOK
<1>3. Counts'
  BY <1>1, quotatab_writeEffect
     DEF Counts, Undisturbed, KeepsPlace, KeepsTally, KeepsWrite,
         KeepsFlag, Rests, Intends, Follows
<1>4. Flags'
  BY <1>1, quotatab_writeEffect
     DEF Counts, Flags, Undisturbed, KeepsPlace, KeepsTally, KeepsWrite,
         KeepsFlag, Rests, Intends, Follows
<1>5. LocksAgree'
  <2>1. ss[s].wc = 1 /\ ss[s].rc = 0
    BY <1>1, quotatab_writeEffect DEF Counts
  <2>2. locks' = SetLock(s, ss[s].pos, {})
    BY <1>1, <2>1, quotatab_writeEffect
  <2>3. locks' = {l \in locks : l.by # s \/ l.at # ss[s].pos} /\ LocksAgree'
    BY <1>1, <2>2, LockReturned
  <2> QED BY <2>3
<1>6. MutexHeld'
  <2>1. /\ Undisturbed(s) /\ odd \subseteq odd'
        /\ mutex' = mutex \/ mutex' = mutex \ {s}
    BY <1>1, quotatab_writeEffect
  <2>2. s \in mutex' => ss'[s].pc \in LoggingIn \cup {"dele_lookup", "ending"}
    BY <1>1, quotatab_writeEffect DEF MutexHeld, LoggingIn, Rests, Intends, Follows
  <2>3. ss'[s].pc \in LoggingIn => ss[s].pc \in LoggingIn /\ mutex' = mutex
    BY <1>1, quotatab_writeEffect DEF Counts, LoggingIn, Rests, Intends, Follows
  <2> QED BY <1>1, <2>1, <2>2, <2>3, MutexStays
<1>7. Placed'
  <2>1. /\ Len(table) \in Nat /\ ss[s].pos \in 1 .. Len(table) + 1
        /\ Serial => ss[s].pos <= Len(table)
        /\ table \in Seq(Record)
    <3>1. ss[s].pc = "wwrite"
      BY <1>1, quotatab_writeEffect
    <3>2. ss[s].pc \notin Recordless
      BY <3>1 DEF Recordless
    <3> QED BY <1>1, <3>2 DEF Placed, TypeOK
  <2>2. /\ Undisturbed(s) /\ odd' = odd /\ ss'[s].pos = ss[s].pos
        /\ ss'[s].pc \notin {"create", "append"}
        /\ \E r : table' = filetab_write(s, r)
    <3>1. ss[s].then \in {"idle", "judge", "judge_err", "ending"}
      BY <1>1 DEF Counts
    <3>2. /\ Undisturbed(s) /\ odd' = odd /\ ss'[s].pos = ss[s].pos
          /\ Follows(ss'[s], ss[s].then)
      BY <1>1, quotatab_writeEffect
    <3>3. \E r : table' = filetab_write(s, r)
      BY <1>1, quotatab_writeEffect
    <3> QED BY <3>1, <3>2, <3>3 DEF Follows
  <2>3. CASE ss[s].pos <= Len(table)
    <3>1. Len(table') = Len(table)
      BY <2>1, <2>2, <2>3 DEF filetab_write
    <3> QED BY <1>1, <2>1, <2>2, <2>3, <3>1, PlacedStays
  <2>4. CASE ~(ss[s].pos <= Len(table))
    <3>1. Len(table') = Len(table) + 1 /\ ~Serial'
      BY <2>1, <2>2, <2>4 DEF filetab_write, Serial
    <3>2. \A t \in Sessions : ss'[t].pos \in 1 .. Len(table') + 1
      BY <1>1, <2>1, <2>2, <3>1 DEF Placed, Undisturbed
    <3> QED BY <3>1, <3>2 DEF Placed
  <2> QED BY <2>3, <2>4
<1>8. LocksCounted'
  <2>1. ss[s].wc = 1 /\ ss[s].rc = 0
    BY <1>1, quotatab_writeEffect DEF Counts
  <2>2. locks' = SetLock(s, ss[s].pos, {})
    BY <1>1, <2>1, quotatab_writeEffect
  <2>3. locks' = {l \in locks : l.by # s \/ l.at # ss[s].pos} /\ LocksAgree'
    BY <1>1, <2>2, LockReturned
  <2>4. Undisturbed(s) /\ odd' = odd /\ ss'[s].wc = 0
    BY <1>1, <2>1, quotatab_writeEffect
  <2>5. Serial => \A l \in locks : l.by = s => l.at = ss[s].pos
    BY <1>1 DEF LocksCounted
  <2>6. \A l \in locks : l.by \in Sessions
    BY <1>1 DEF TypeOK
  <2>7. /\ \A l \in locks : l.by # s => l \in locks'
        /\ \A l \in locks' : l \in locks
        /\ Serial => \A l \in locks' : l.by # s
    BY <2>3, <2>5
  <2> QED BY <1>1, <2>4, <2>7, LocksGiven
<1> QED BY <1>2, <1>3, <1>4, <1>5, <1>6, <1>7, <1>8 DEF IInv

(* The invariant after STOR.                                               *)
LEMMA StorPreserves ==
  ASSUME IInv, NEW s \in Sessions, Stor(s)
  PROVE  IInv'
<1>1. TypeOK /\ Counts /\ Flags /\ LocksAgree /\ MutexHeld /\ Placed /\ LocksCounted
  BY DEF IInv
<1>2. TypeOK'
  BY <1>1, StorEffect, StorTypes DEF TypeOK
<1>3. Counts'
  BY <1>1, StorEffect
     DEF Counts, Undisturbed, KeepsPlace, KeepsTally, KeepsWrite,
         KeepsFlag, Rests, Intends
<1>4. Flags'
  BY <1>1, StorEffect
     DEF Counts, Flags, Undisturbed, KeepsPlace, KeepsTally, KeepsWrite,
         KeepsFlag, Rests, Intends
<1>5. /\ Undisturbed(s) /\ UNCHANGED <<table, locks>> /\ odd \subseteq odd'
      /\ mutex' = mutex \/ mutex' = mutex \ {s}
      /\ KeepsPlace(s)
  BY <1>1, StorEffect DEF KeepsPlace, Rests, Intends
<1>6. /\ s \in mutex' => ss'[s].pc \in LoggingIn \cup {"dele_lookup", "ending"}
      /\ ss'[s].pc \in LoggingIn => ss[s].pc \in LoggingIn /\ mutex' = mutex
      /\ ss'[s].pc \in {"create", "append"} => ss[s].pc \in {"create", "append"}
      /\ ss'[s].pc \notin Recordless => ss[s].pc \notin Recordless
  BY <1>1, StorEffect
     DEF Counts, MutexHeld, LoggingIn, Recordless, Rests, Intends
<1> QED BY <1>2, <1>3, <1>4, <1>5, <1>6, SessionMoves

(* The invariant after the check before an upload.                         *)
LEMMA quotatab_pre_storPreserves ==
  ASSUME IInv, NEW s \in Sessions, quotatab_pre_stor(s)
  PROVE  IInv'
<1>1. TypeOK /\ Counts /\ Flags /\ LocksAgree /\ MutexHeld /\ Placed /\ LocksCounted
  BY DEF IInv
<1>2. TypeOK'
  BY <1>1, quotatab_pre_storEffect, quotatab_pre_storTypes DEF TypeOK
<1>3. Counts'
  BY <1>1, quotatab_pre_storEffect
     DEF Counts, Undisturbed, KeepsPlace, KeepsTally, KeepsWrite,
         KeepsFlag, Rests, Intends
<1>4. Flags'
  BY <1>1, quotatab_pre_storEffect
     DEF Counts, Flags, Undisturbed, KeepsPlace, KeepsTally, KeepsWrite,
         KeepsFlag, Rests, Intends
<1>5. /\ Undisturbed(s) /\ UNCHANGED <<table, locks>> /\ odd \subseteq odd'
      /\ mutex' = mutex \/ mutex' = mutex \ {s}
      /\ KeepsPlace(s)
  BY <1>1, quotatab_pre_storEffect DEF KeepsPlace, Rests, Intends
<1>6. /\ s \in mutex' => ss'[s].pc \in LoggingIn \cup {"dele_lookup", "ending"}
      /\ ss'[s].pc \in LoggingIn => ss[s].pc \in LoggingIn /\ mutex' = mutex
      /\ ss'[s].pc \in {"create", "append"} => ss[s].pc \in {"create", "append"}
      /\ ss'[s].pc \notin Recordless => ss[s].pc \notin Recordless
  BY <1>1, quotatab_pre_storEffect
     DEF Counts, MutexHeld, LoggingIn, Recordless, Rests, Intends
<1> QED BY <1>2, <1>3, <1>4, <1>5, <1>6, SessionMoves

(* The invariant after opening the file.                                   *)
LEMMA StorOpensPreserves ==
  ASSUME IInv, NEW s \in Sessions, StorOpens(s)
  PROVE  IInv'
<1>1. TypeOK /\ Counts /\ Flags /\ LocksAgree /\ MutexHeld /\ Placed /\ LocksCounted
  BY DEF IInv
<1>2. TypeOK'
  <2>1. disk' \in [Files -> [size : Nat \cup {Absent}, owner : Users]]
    <3> PICK f : f = ss[s].file
      OBVIOUS
    <3>1. f \in Files /\ UserOf[s] \in Users /\ disk[f].owner \in Users
      BY <1>1 DEF TypeOK, Session, UserOf
    <3>2. PICK o \in Users :
             disk' = disk \/ disk' = [disk EXCEPT ![f] = [size |-> 0, owner |-> o]]
      BY <3>1 DEF StorOpens
    <3> QED BY <1>1, <3>1, <3>2 DEF TypeOK
  <2> QED BY <1>1, <2>1, StorOpensEffect, StorOpensTypes DEF TypeOK
<1>3. Counts'
  BY <1>1, StorOpensEffect
     DEF Counts, Undisturbed, KeepsPlace, KeepsTally, KeepsWrite,
         KeepsFlag, Rests, Intends
<1>4. Flags'
  BY <1>1, StorOpensEffect
     DEF Counts, Flags, Undisturbed, KeepsPlace, KeepsTally, KeepsWrite,
         KeepsFlag, Rests, Intends
<1>5. /\ Undisturbed(s) /\ UNCHANGED <<table, locks>> /\ odd \subseteq odd'
      /\ mutex' = mutex \/ mutex' = mutex \ {s}
      /\ KeepsPlace(s)
  BY <1>1, StorOpensEffect DEF KeepsPlace, Rests, Intends
<1>6. /\ s \in mutex' => ss'[s].pc \in LoggingIn \cup {"dele_lookup", "ending"}
      /\ ss'[s].pc \in LoggingIn => ss[s].pc \in LoggingIn /\ mutex' = mutex
      /\ ss'[s].pc \in {"create", "append"} => ss[s].pc \in {"create", "append"}
      /\ ss'[s].pc \notin Recordless => ss[s].pc \notin Recordless
  BY <1>1, StorOpensEffect
     DEF Counts, MutexHeld, LoggingIn, Recordless, Rests, Intends
<1> QED BY <1>2, <1>3, <1>4, <1>5, <1>6, SessionMoves

(* The invariant after a chunk of the upload.                              *)
LEMMA quotatab_fsio_writePreserves ==
  ASSUME IInv, NEW s \in Sessions, quotatab_fsio_write(s)
  PROVE  IInv'
<1>1. TypeOK /\ Counts /\ Flags /\ LocksAgree /\ MutexHeld /\ Placed /\ LocksCounted
  BY DEF IInv
<1>2. TypeOK'
  BY <1>1, quotatab_fsio_writeEffect DEF TypeOK
<1>3. Counts'
  BY <1>1, quotatab_fsio_writeEffect
     DEF Counts, Undisturbed, KeepsPlace, KeepsTally, KeepsWrite,
         KeepsFlag, Rests, Intends
<1>4. Flags'
  BY <1>1, quotatab_fsio_writeEffect
     DEF Counts, Flags, Undisturbed, KeepsPlace, KeepsTally, KeepsWrite,
         KeepsFlag, Rests, Intends
<1>5. /\ Undisturbed(s) /\ UNCHANGED <<table, locks>> /\ odd \subseteq odd'
      /\ mutex' = mutex \/ mutex' = mutex \ {s}
      /\ KeepsPlace(s)
  BY <1>1, quotatab_fsio_writeEffect DEF KeepsPlace, Rests, Intends
<1>6. /\ s \in mutex' => ss'[s].pc \in LoggingIn \cup {"dele_lookup", "ending"}
      /\ ss'[s].pc \in LoggingIn => ss[s].pc \in LoggingIn /\ mutex' = mutex
      /\ ss'[s].pc \in {"create", "append"} => ss[s].pc \in {"create", "append"}
      /\ ss'[s].pc \notin Recordless => ss[s].pc \notin Recordless
  BY <1>1, quotatab_fsio_writeEffect
     DEF Counts, MutexHeld, LoggingIn, Recordless, Rests, Intends
<1> QED BY <1>2, <1>3, <1>4, <1>5, <1>6, SessionMoves

(* The invariant after the end of the data.                                *)
LEMMA StorEndsPreserves ==
  ASSUME IInv, NEW s \in Sessions, StorEnds(s)
  PROVE  IInv'
<1>1. TypeOK /\ Counts /\ Flags /\ LocksAgree /\ MutexHeld /\ Placed /\ LocksCounted
  BY DEF IInv
<1>2. TypeOK'
  BY <1>1, StorEndsEffect DEF TypeOK
<1>3. Counts'
  BY <1>1, StorEndsEffect
     DEF Counts, Undisturbed, KeepsPlace, KeepsTally, KeepsWrite,
         KeepsFlag, Rests, Intends
<1>4. Flags'
  BY <1>1, StorEndsEffect
     DEF Counts, Flags, Undisturbed, KeepsPlace, KeepsTally, KeepsWrite,
         KeepsFlag, Rests, Intends
<1>5. /\ Undisturbed(s) /\ UNCHANGED <<table, locks>> /\ odd \subseteq odd'
      /\ mutex' = mutex \/ mutex' = mutex \ {s}
      /\ KeepsPlace(s)
  BY <1>1, StorEndsEffect DEF KeepsPlace, Rests, Intends
<1>6. /\ s \in mutex' => ss'[s].pc \in LoggingIn \cup {"dele_lookup", "ending"}
      /\ ss'[s].pc \in LoggingIn => ss[s].pc \in LoggingIn /\ mutex' = mutex
      /\ ss'[s].pc \in {"create", "append"} => ss[s].pc \in {"create", "append"}
      /\ ss'[s].pc \notin Recordless => ss[s].pc \notin Recordless
  BY <1>1, StorEndsEffect
     DEF Counts, MutexHeld, LoggingIn, Recordless, Rests, Intends
<1> QED BY <1>2, <1>3, <1>4, <1>5, <1>6, SessionMoves

(* The invariant after an upload that is aborted and removed.              *)
LEMMA StorAbortedPreserves ==
  ASSUME IInv, NEW s \in Sessions, StorAborted(s)
  PROVE  IInv'
<1>1. TypeOK /\ Counts /\ Flags /\ LocksAgree /\ MutexHeld /\ Placed /\ LocksCounted
  BY DEF IInv
<1>2. TypeOK'
  BY <1>1, StorAbortedEffect DEF TypeOK
<1>3. Counts'
  BY <1>1, StorAbortedEffect
     DEF Counts, Undisturbed, KeepsPlace, KeepsTally, KeepsWrite,
         KeepsFlag, Rests, Intends
<1>4. Flags'
  BY <1>1, StorAbortedEffect
     DEF Counts, Flags, Undisturbed, KeepsPlace, KeepsTally, KeepsWrite,
         KeepsFlag, Rests, Intends
<1>5. /\ Undisturbed(s) /\ UNCHANGED <<table, locks>> /\ odd \subseteq odd'
      /\ mutex' = mutex \/ mutex' = mutex \ {s}
      /\ KeepsPlace(s)
  BY <1>1, StorAbortedEffect DEF KeepsPlace, Rests, Intends
<1>6. /\ s \in mutex' => ss'[s].pc \in LoggingIn \cup {"dele_lookup", "ending"}
      /\ ss'[s].pc \in LoggingIn => ss[s].pc \in LoggingIn /\ mutex' = mutex
      /\ ss'[s].pc \in {"create", "append"} => ss[s].pc \in {"create", "append"}
      /\ ss'[s].pc \notin Recordless => ss[s].pc \notin Recordless
  BY <1>1, StorAbortedEffect
     DEF Counts, MutexHeld, LoggingIn, Recordless, Rests, Intends
<1> QED BY <1>2, <1>3, <1>4, <1>5, <1>6, SessionMoves

(* The invariant after quotatab_post_stor.                                 *)
LEMMA quotatab_post_storPreserves ==
  ASSUME IInv, NEW s \in Sessions, quotatab_post_stor(s)
  PROVE  IInv'
<1>1. TypeOK /\ Counts /\ Flags /\ LocksAgree /\ MutexHeld /\ Placed /\ LocksCounted
  BY DEF IInv
<1>2. TypeOK'
  BY <1>1, quotatab_post_storEffect, quotatab_post_storTypes DEF TypeOK
<1>3. Counts'
  BY <1>1, quotatab_post_storEffect
     DEF Counts, Undisturbed, KeepsPlace, KeepsTally, KeepsWrite,
         KeepsFlag, Rests, Intends
<1>4. Flags'
  BY <1>1, quotatab_post_storEffect
     DEF Counts, Flags, Undisturbed, KeepsPlace, KeepsTally, KeepsWrite,
         KeepsFlag, Rests, Intends
<1>5. /\ Undisturbed(s) /\ UNCHANGED <<table, locks>> /\ odd \subseteq odd'
      /\ mutex' = mutex \/ mutex' = mutex \ {s}
      /\ KeepsPlace(s)
  BY <1>1, quotatab_post_storEffect DEF KeepsPlace, Rests, Intends
<1>6. /\ s \in mutex' => ss'[s].pc \in LoggingIn \cup {"dele_lookup", "ending"}
      /\ ss'[s].pc \in LoggingIn => ss[s].pc \in LoggingIn /\ mutex' = mutex
      /\ ss'[s].pc \in {"create", "append"} => ss[s].pc \in {"create", "append"}
      /\ ss'[s].pc \notin Recordless => ss[s].pc \notin Recordless
  BY <1>1, quotatab_post_storEffect
     DEF Counts, MutexHeld, LoggingIn, Recordless, Rests, Intends
<1> QED BY <1>2, <1>3, <1>4, <1>5, <1>6, SessionMoves

(* The invariant after quotatab_post_stor_err.                             *)
LEMMA quotatab_post_stor_errPreserves ==
  ASSUME IInv, NEW s \in Sessions, quotatab_post_stor_err(s)
  PROVE  IInv'
<1>1. TypeOK /\ Counts /\ Flags /\ LocksAgree /\ MutexHeld /\ Placed /\ LocksCounted
  BY DEF IInv
<1>2. TypeOK'
  BY <1>1, quotatab_post_stor_errEffect, quotatab_post_stor_errTypes DEF TypeOK
<1>3. Counts'
  BY <1>1, quotatab_post_stor_errEffect
     DEF Counts, Undisturbed, KeepsPlace, KeepsTally, KeepsWrite,
         KeepsFlag, Rests, Intends
<1>4. Flags'
  BY <1>1, quotatab_post_stor_errEffect
     DEF Counts, Flags, Undisturbed, KeepsPlace, KeepsTally, KeepsWrite,
         KeepsFlag, Rests, Intends
<1>5. /\ Undisturbed(s) /\ UNCHANGED <<table, locks>> /\ odd \subseteq odd'
      /\ mutex' = mutex \/ mutex' = mutex \ {s}
      /\ KeepsPlace(s)
  BY <1>1, quotatab_post_stor_errEffect DEF KeepsPlace, Rests, Intends
<1>6. /\ s \in mutex' => ss'[s].pc \in LoggingIn \cup {"dele_lookup", "ending"}
      /\ ss'[s].pc \in LoggingIn => ss[s].pc \in LoggingIn /\ mutex' = mutex
      /\ ss'[s].pc \in {"create", "append"} => ss[s].pc \in {"create", "append"}
      /\ ss'[s].pc \notin Recordless => ss[s].pc \notin Recordless
  BY <1>1, quotatab_post_stor_errEffect
     DEF Counts, MutexHeld, LoggingIn, Recordless, Rests, Intends
<1> QED BY <1>2, <1>3, <1>4, <1>5, <1>6, SessionMoves

(* The invariant after the comparison with the limit after an upload.      *)
LEMMA JudgePreserves ==
  ASSUME IInv, NEW s \in Sessions, Judge(s)
  PROVE  IInv'
<1>1. TypeOK /\ Counts /\ Flags /\ LocksAgree /\ MutexHeld /\ Placed /\ LocksCounted
  BY DEF IInv
<1>2. TypeOK'
  <2>1. disk' \in [Files -> [size : Nat \cup {Absent}, owner : Users]]
    <3> PICK f : f = ss[s].file
      OBVIOUS
    <3>1. f \in Files
      BY <1>1 DEF TypeOK, Session
    <3>2. disk' = disk \/ disk' = [disk EXCEPT ![f].size = Absent]
      BY DEF Judge, Gone
    <3> PICK a, A : a = Absent /\ A = Nat \cup {Absent}
      OBVIOUS
    <3>3. /\ a \in A /\ disk \in [Files -> [size : A, owner : Users]]
          /\ disk' = disk \/ disk' = [disk EXCEPT ![f].size = a]
      BY <1>1, <3>2 DEF TypeOK
    <3>4. disk' \in [Files -> [size : A, owner : Users]]
      BY ONLY <3>1, <3>3
    <3> QED BY <3>4
  <2> QED BY <1>1, <2>1, JudgeEffect, JudgeTypes DEF TypeOK
<1>3. Counts'
  BY <1>1, JudgeEffect
     DEF Counts, Undisturbed, KeepsPlace, KeepsTally, KeepsWrite,
         KeepsFlag, Rests, Intends
<1>4. Flags'
  BY <1>1, JudgeEffect
     DEF Counts, Flags, Undisturbed, KeepsPlace, KeepsTally, KeepsWrite,
         KeepsFlag, Rests, Intends
<1>5. /\ Undisturbed(s) /\ UNCHANGED <<table, locks>> /\ odd \subseteq odd'
      /\ mutex' = mutex \/ mutex' = mutex \ {s}
      /\ KeepsPlace(s)
  BY <1>1, JudgeEffect DEF KeepsPlace, Rests, Intends
<1>6. /\ s \in mutex' => ss'[s].pc \in LoggingIn \cup {"dele_lookup", "ending"}
      /\ ss'[s].pc \in LoggingIn => ss[s].pc \in LoggingIn /\ mutex' = mutex
      /\ ss'[s].pc \in {"create", "append"} => ss[s].pc \in {"create", "append"}
      /\ ss'[s].pc \notin Recordless => ss[s].pc \notin Recordless
  BY <1>1, JudgeEffect
     DEF Counts, MutexHeld, LoggingIn, Recordless, Rests, Intends
<1> QED BY <1>2, <1>3, <1>4, <1>5, <1>6, SessionMoves

(* The invariant after quotatab_pre_dele.                                  *)
LEMMA quotatab_pre_delePreserves ==
  ASSUME IInv, NEW s \in Sessions, quotatab_pre_dele(s)
  PROVE  IInv'
<1>1. TypeOK /\ Counts /\ Flags /\ LocksAgree /\ MutexHeld /\ Placed /\ LocksCounted
  BY DEF IInv
<1>2. TypeOK'
  BY <1>1, quotatab_pre_deleEffect, quotatab_pre_deleTypes DEF TypeOK
<1>3. Counts'
  BY <1>1, quotatab_pre_deleEffect
     DEF Counts, Undisturbed, KeepsPlace, KeepsTally, KeepsWrite,
         KeepsFlag, Rests, Intends
<1>4. Flags'
  BY <1>1, quotatab_pre_deleEffect
     DEF Counts, Flags, Undisturbed, KeepsPlace, KeepsTally, KeepsWrite,
         KeepsFlag, Rests, Intends
<1>5. /\ Undisturbed(s) /\ UNCHANGED <<table, locks>> /\ odd \subseteq odd'
      /\ mutex' = mutex \/ mutex' = mutex \ {s}
      /\ KeepsPlace(s)
  BY <1>1, quotatab_pre_deleEffect DEF KeepsPlace, Rests, Intends
<1>6. /\ s \in mutex' => ss'[s].pc \in LoggingIn \cup {"dele_lookup", "ending"}
      /\ ss'[s].pc \in LoggingIn => ss[s].pc \in LoggingIn /\ mutex' = mutex
      /\ ss'[s].pc \in {"create", "append"} => ss[s].pc \in {"create", "append"}
      /\ ss'[s].pc \notin Recordless => ss[s].pc \notin Recordless
  BY <1>1, quotatab_pre_deleEffect
     DEF Counts, MutexHeld, LoggingIn, Recordless, Rests, Intends
<1> QED BY <1>2, <1>3, <1>4, <1>5, <1>6, SessionMoves

(* The invariant after removing the file.                                  *)
LEMMA DelePreserves ==
  ASSUME IInv, NEW s \in Sessions, Dele(s)
  PROVE  IInv'
<1>1. TypeOK /\ Counts /\ Flags /\ LocksAgree /\ MutexHeld /\ Placed /\ LocksCounted
  BY DEF IInv
<1>2. TypeOK'
  <2>1. disk' \in [Files -> [size : Nat \cup {Absent}, owner : Users]]
    <3> PICK f : f = ss[s].file
      OBVIOUS
    <3>1. f \in Files
      BY <1>1 DEF TypeOK, Session
    <3>2. disk' = disk \/ disk' = [disk EXCEPT ![f].size = Absent]
      BY DEF Dele, Gone
    <3> PICK a, A : a = Absent /\ A = Nat \cup {Absent}
      OBVIOUS
    <3>3. /\ a \in A /\ disk \in [Files -> [size : A, owner : Users]]
          /\ disk' = disk \/ disk' = [disk EXCEPT ![f].size = a]
      BY <1>1, <3>2 DEF TypeOK
    <3>4. disk' \in [Files -> [size : A, owner : Users]]
      BY ONLY <3>1, <3>3
    <3> QED BY <3>4
  <2> QED BY <1>1, <2>1, DeleEffect, DeleTypes DEF TypeOK
<1>3. Counts'
  BY <1>1, DeleEffect
     DEF Counts, Undisturbed, KeepsPlace, KeepsTally, KeepsWrite,
         KeepsFlag, Rests, Intends
<1>4. Flags'
  BY <1>1, DeleEffect
     DEF Counts, Flags, Undisturbed, KeepsPlace, KeepsTally, KeepsWrite,
         KeepsFlag, Rests, Intends
<1>5. /\ Undisturbed(s) /\ UNCHANGED <<table, locks>> /\ odd \subseteq odd'
      /\ mutex' = mutex \/ mutex' = mutex \ {s}
      /\ KeepsPlace(s)
  BY <1>1, DeleEffect DEF KeepsPlace, Rests, Intends
<1>6. /\ s \in mutex' => ss'[s].pc \in LoggingIn \cup {"dele_lookup", "ending"}
      /\ ss'[s].pc \in LoggingIn => ss[s].pc \in LoggingIn /\ mutex' = mutex
      /\ ss'[s].pc \in {"create", "append"} => ss[s].pc \in {"create", "append"}
      /\ ss'[s].pc \notin Recordless => ss[s].pc \notin Recordless
  BY <1>1, DeleEffect
     DEF Counts, MutexHeld, LoggingIn, Recordless, Rests, Intends
<1> QED BY <1>2, <1>3, <1>4, <1>5, <1>6, SessionMoves

(* The invariant after quotatab_post_dele.                                 *)
LEMMA quotatab_post_delePreserves ==
  ASSUME IInv, NEW s \in Sessions, quotatab_post_dele(s)
  PROVE  IInv'
<1>1. TypeOK /\ Counts /\ Flags /\ LocksAgree /\ MutexHeld /\ Placed /\ LocksCounted
  BY DEF IInv
<1>2. TypeOK'
  BY <1>1, quotatab_post_deleEffect, quotatab_post_deleTypes DEF TypeOK
<1>3. Counts'
  BY <1>1, quotatab_post_deleEffect
     DEF Counts, Undisturbed, KeepsPlace, KeepsTally, KeepsWrite,
         KeepsFlag, Rests, Intends
<1>4. Flags'
  BY <1>1, quotatab_post_deleEffect
     DEF Counts, Flags, Undisturbed, KeepsPlace, KeepsTally, KeepsWrite,
         KeepsFlag, Rests, Intends
<1>5. /\ Undisturbed(s) /\ UNCHANGED <<table, locks>> /\ odd \subseteq odd'
      /\ mutex' = mutex \/ mutex' = mutex \ {s}
      /\ KeepsPlace(s)
  BY <1>1, quotatab_post_deleEffect DEF KeepsPlace, Rests, Intends
<1>6. /\ s \in mutex' => ss'[s].pc \in LoggingIn \cup {"dele_lookup", "ending"}
      /\ ss'[s].pc \in LoggingIn => ss[s].pc \in LoggingIn /\ mutex' = mutex
      /\ ss'[s].pc \in {"create", "append"} => ss[s].pc \in {"create", "append"}
      /\ ss'[s].pc \notin Recordless => ss[s].pc \notin Recordless
  BY <1>1, quotatab_post_deleEffect
     DEF Counts, MutexHeld, LoggingIn, Recordless, Rests, Intends
<1> QED BY <1>2, <1>3, <1>4, <1>5, <1>6, SessionMoves

(* The invariant after QuotaLock in quotatab_post_dele.                    *)
LEMMA DeleMutexPreserves ==
  ASSUME IInv, NEW s \in Sessions, DeleMutex(s)
  PROVE  IInv'
<1>1. TypeOK /\ Counts /\ Flags /\ LocksAgree /\ MutexHeld /\ Placed /\ LocksCounted
  BY DEF IInv
<1>2. TypeOK'
  BY <1>1, DeleMutexEffect, DeleMutexTypes DEF TypeOK
<1>3. Counts'
  BY <1>1, DeleMutexEffect
     DEF Counts, Undisturbed, KeepsPlace, KeepsTally, KeepsWrite,
         KeepsFlag, Rests, Intends
<1>4. Flags'
  BY <1>1, DeleMutexEffect
     DEF Counts, Flags, Undisturbed, KeepsPlace, KeepsTally, KeepsWrite,
         KeepsFlag, Rests, Intends
<1>5. LocksAgree'
  BY <1>1, DeleMutexEffect DEF LocksAgree
<1>6. MutexHeld'
  <2>1. /\ Undisturbed(s) /\ ss'[s].pc = "dele_lookup" /\ ss[s].pc = "dele_mutex"
        /\ odd' = odd /\ mutex \subseteq Sessions
    BY <1>1, DeleMutexEffect DEF TypeOK
  <2>2. CASE mutex \subseteq {s} /\ mutex' = {s}
    <3>1. \A t \in Sessions \ {s} : "unserialised" \notin odd => ss[t].pc \notin LoggingIn
      BY <1>1, <2>2 DEF MutexHeld
    <3> QED BY <2>1, <2>2, <3>1 DEF MutexHeld, Undisturbed, LoggingIn
  <2>3. CASE mutex' = mutex
    BY <1>1, <2>1, <2>3, MutexStays DEF LoggingIn
  <2> QED BY <1>1, <2>2, <2>3, DeleMutexEffect
<1>7. Placed'
  <2>1. /\ Undisturbed(s) /\ odd \subseteq odd' /\ table' = table
        /\ ss'[s].pos = ss[s].pos
    BY <1>1, DeleMutexEffect
       DEF KeepsPlace, KeepsTally, KeepsWrite, KeepsFlag, Rests, Intends
  <2>2. ss[s].pos \in 1 .. Len(table) + 1
    BY <1>1 DEF Placed
  <2>3. /\ ss'[s].pc \in {"create", "append"} => ss[s].pc \in {"create", "append"}
        /\ ss'[s].pc \notin Recordless => ss[s].pc \notin Recordless
    BY <1>1, DeleMutexEffect DEF Counts, Recordless, Rests, Intends
  <2>4. Serial' => Serial
    BY <2>1 DEF Serial
  <2>5. Serial' => /\ ss'[s].pc \in {"create", "append"} =>
                         ss'[s].pos = Len(table) + 1
                   /\ ss'[s].pc \notin Recordless => ss'[s].pos <= Len(table)
    BY <1>1, <2>1, <2>3, <2>4 DEF Placed
  <2> QED BY <1>1, <2>1, <2>2, <2>5, PlacedStays
<1>8. LocksCounted'
  <2>1. /\ Undisturbed(s) /\ odd \subseteq odd' /\ locks' = locks
        /\ ss'[s].rc = ss[s].rc /\ ss'[s].wc = ss[s].wc
        /\ ss'[s].pos = ss[s].pos \/ ss[s].rc + ss[s].wc = 0
    BY <1>1, DeleMutexEffect
       DEF Counts, KeepsPlace, KeepsTally, KeepsWrite, KeepsFlag, Rests,
           Intends
  <2> QED BY <1>1, <2>1, SameLocksStay
<1> QED BY <1>2, <1>3, <1>4, <1>5, <1>6, <1>7, <1>8 DEF IInv

(* The invariant after the lookup of the owner's record.                   *)
LEMMA DeleLookupPreserves ==
  ASSUME IInv, NEW s \in Sessions, DeleLookup(s)
  PROVE  IInv'
<1>1. TypeOK /\ Counts /\ Flags /\ LocksAgree /\ MutexHeld /\ Placed /\ LocksCounted
  BY DEF IInv
<1>2. TypeOK'
  BY <1>1, DeleLookupEffect, DeleLookupTypes DEF TypeOK
<1>3. Counts'
  BY <1>1, DeleLookupEffect
     DEF Counts, Undisturbed, KeepsPlace, KeepsTally, KeepsWrite,
         KeepsFlag, Rests, Intends
<1>4. Flags'
  BY <1>1, DeleLookupEffect
     DEF Counts, Flags, Undisturbed, KeepsPlace, KeepsTally, KeepsWrite,
         KeepsFlag, Rests, Intends
<1>5. LocksAgree'
  BY <1>1, DeleLookupEffect DEF LocksAgree
<1>6. MutexHeld'
  <2>1. /\ Undisturbed(s) /\ odd \subseteq odd'
        /\ mutex' = mutex \/ mutex' = mutex \ {s}
    BY <1>1, DeleLookupEffect
  <2>2. s \in mutex' => ss'[s].pc \in LoggingIn \cup {"dele_lookup", "ending"}
    BY <1>1, DeleLookupEffect DEF MutexHeld, LoggingIn, Rests, Intends
  <2>3. ss'[s].pc \in LoggingIn => ss[s].pc \in LoggingIn /\ mutex' = mutex
    BY <1>1, DeleLookupEffect DEF Counts, LoggingIn, Rests, Intends
  <2> QED BY <1>1, <2>1, <2>2, <2>3, MutexStays
<1>7. Placed'
  <2>1. /\ Undisturbed(s) /\ odd \subseteq odd' /\ table' = table
        /\ ss'[s].pos = Lookup(ss[s].owner)
        /\ Serial' /\ ss'[s].pc \in {"create", "append"} => ~Found(ss[s].owner)
        /\ Serial' /\ ss'[s].pc \notin Recordless => Found(ss[s].owner)
    BY <1>1, DeleLookupEffect DEF Recordless, Serial, Intends
  <2>2. /\ Lookup(ss[s].owner) \in 1 .. Len(table) + 1
        /\ Found(ss[s].owner) => Lookup(ss[s].owner) \in 1 .. Len(table)
        /\ ~Found(ss[s].owner) => Lookup(ss[s].owner) = Len(table) + 1
    BY <1>1, LookupFinds
  <2>3. Len(table) \in Nat
    BY <1>1 DEF TypeOK
  <2> QED BY <1>1, <2>1, <2>2, <2>3, PlacedStays
<1>8. LocksCounted'
  <2>1. /\ Undisturbed(s) /\ odd \subseteq odd' /\ locks' = locks
        /\ ss'[s].rc = ss[s].rc /\ ss'[s].wc = ss[s].wc
        /\ ss'[s].pos = ss[s].pos \/ ss[s].rc + ss[s].wc = 0
    BY <1>1, DeleLookupEffect
       DEF Counts, KeepsPlace, KeepsTally, KeepsWrite, KeepsFlag, Rests,
           Intends
  <2> QED BY <1>1, <2>1, SameLocksStay
<1> QED BY <1>2, <1>3, <1>4, <1>5, <1>6, <1>7, <1>8 DEF IInv

(* The invariant after xfer_exit_ev.                                       *)
LEMMA xfer_exit_evPreserves ==
  ASSUME IInv, NEW s \in Sessions, xfer_exit_ev(s)
  PROVE  IInv'
<1>1. TypeOK /\ Counts /\ Flags /\ LocksAgree /\ MutexHeld /\ Placed /\ LocksCounted
  BY DEF IInv
<1>2. TypeOK'
  BY <1>1, xfer_exit_evEffect DEF TypeOK
<1>3. Counts'
  BY <1>1, xfer_exit_evEffect
     DEF Counts, Undisturbed, KeepsPlace, KeepsTally, KeepsWrite,
         KeepsFlag, Rests, Intends
<1>4. Flags'
  BY <1>1, xfer_exit_evEffect
     DEF Counts, Flags, Undisturbed, KeepsPlace, KeepsTally, KeepsWrite,
         KeepsFlag, Rests, Intends
<1>5. /\ Undisturbed(s) /\ UNCHANGED <<table, locks>> /\ odd \subseteq odd'
      /\ mutex' = mutex \/ mutex' = mutex \ {s}
      /\ KeepsPlace(s)
  BY <1>1, xfer_exit_evEffect DEF KeepsPlace, Rests, Intends
<1>6. /\ s \in mutex' => ss'[s].pc \in LoggingIn \cup {"dele_lookup", "ending"}
      /\ ss'[s].pc \in LoggingIn => ss[s].pc \in LoggingIn /\ mutex' = mutex
      /\ ss'[s].pc \in {"create", "append"} => ss[s].pc \in {"create", "append"}
      /\ ss'[s].pc \notin Recordless => ss[s].pc \notin Recordless
  BY <1>1, xfer_exit_evEffect
     DEF Counts, MutexHeld, LoggingIn, Recordless, Rests, Intends
<1> QED BY <1>2, <1>3, <1>4, <1>5, <1>6, SessionMoves

(* The invariant after quotatab_exit_ev.                                   *)
LEMMA quotatab_exit_evPreserves ==
  ASSUME IInv, NEW s \in Sessions, quotatab_exit_ev(s)
  PROVE  IInv'
<1>1. TypeOK /\ Counts /\ Flags /\ LocksAgree /\ MutexHeld /\ Placed /\ LocksCounted
  BY DEF IInv
<1>2. TypeOK'
  BY <1>1, quotatab_exit_evEffect DEF TypeOK
<1>3. Counts'
  BY <1>1, quotatab_exit_evEffect
     DEF Counts, Interruptible, CannotRead, CannotWrite, At, Undisturbed,
         KeepsWrite, Intends
<1>4. Flags'
  BY <1>1, quotatab_exit_evEffect
     DEF Counts, Flags, Undisturbed, KeepsPlace, KeepsTally, KeepsWrite,
         KeepsFlag, Rests, Intends
<1>5. LocksAgree'
  BY <1>1, quotatab_exit_evEffect DEF LocksAgree
<1>6. MutexHeld'
  <2>1. /\ Undisturbed(s) /\ odd \subseteq odd' /\ mutex' = mutex
    BY <1>1, quotatab_exit_evEffect
  <2>2. ss[s].pc \in {"idle", "move", "wlock", "rlock", "create", "new", "dele_mutex"}
    BY <1>1, quotatab_exit_evEffect DEF Interruptible, At
  <2>3. ss'[s].pc \in {"wlock", "ending"} /\ (ss'[s].pc = "wlock" => ss[s].upd)
    BY <1>1, quotatab_exit_evEffect DEF Intends
  <2>4. ss[s].pc \in {"create", "new"} => ~ss[s].upd
    BY <1>1 DEF Flags
  <2>5. s \in mutex => ss[s].pc = "create"
    BY <1>1, <2>2 DEF MutexHeld, LoggingIn
  <2>6. s \in mutex' => ss'[s].pc \in LoggingIn \cup {"dele_lookup", "ending"}
    BY <2>1, <2>3, <2>4, <2>5
  <2>7. ss'[s].pc \notin LoggingIn
    BY <2>3 DEF LoggingIn
  <2> QED BY <1>1, <2>1, <2>6, <2>7, MutexStays
<1>7. Placed'
  <2>1. /\ Undisturbed(s) /\ odd \subseteq odd' /\ table' = table
        /\ ss'[s].pos = ss[s].pos
    BY <1>1, quotatab_exit_evEffect
  <2>2. ss[s].pos \in 1 .. Len(table) + 1
    BY <1>1 DEF Placed
  <2>3. ss[s].pc \in {"idle", "move", "wlock", "rlock", "create", "new", "dele_mutex"}
    BY <1>1, quotatab_exit_evEffect DEF Interruptible, At
  <2>4. ss'[s].pc \in {"wlock", "ending"} /\ (ss'[s].pc = "wlock" => ss[s].upd)
    BY <1>1, quotatab_exit_evEffect DEF Intends
  <2>5. ss[s].pc \in {"create", "new"} => ~ss[s].upd
    BY <1>1 DEF Flags
  <2>6. Serial' => Serial
    BY <2>1 DEF Serial
  <2>7. Serial' => /\ ss'[s].pc \in {"create", "append"} =>
                         ss'[s].pos = Len(table) + 1
                   /\ ss'[s].pc \notin Recordless => ss'[s].pos <= Len(table)
    BY <1>1, <2>1, <2>3, <2>4, <2>5, <2>6 DEF Placed, Recordless
  <2> QED BY <1>1, <2>1, <2>2, <2>7, PlacedStays
<1>8. LocksCounted'
  <2>1. /\ Undisturbed(s) /\ odd \subseteq odd' /\ locks' = locks
        /\ ss'[s].rc = ss[s].rc /\ ss'[s].wc = ss[s].wc
        /\ ss'[s].pos = ss[s].pos \/ ss[s].rc + ss[s].wc = 0
    BY <1>1, quotatab_exit_evEffect
       DEF Counts, KeepsPlace, KeepsTally, KeepsWrite, KeepsFlag, Rests,
           Intends
  <2> QED BY <1>1, <2>1, SameLocksStay
<1> QED BY <1>2, <1>3, <1>4, <1>5, <1>6, <1>7, <1>8 DEF IInv

(* The invariant after the end of a session.                               *)
LEMMA EndsPreserves ==
  ASSUME IInv, NEW s \in Sessions, Ends(s)
  PROVE  IInv'
<1>1. TypeOK /\ Counts /\ Flags /\ LocksAgree /\ MutexHeld /\ Placed /\ LocksCounted
  BY DEF IInv
<1>2. TypeOK'
  BY <1>1, EndsEffect, EndsTypes DEF TypeOK
<1>3. Counts'
  BY <1>1, EndsEffect
     DEF Counts, Undisturbed, KeepsPlace, KeepsTally, KeepsWrite,
         KeepsFlag, Rests, Intends
<1>4. Flags'
  BY <1>1, EndsEffect
     DEF Counts, Flags, Undisturbed, KeepsPlace, KeepsTally, KeepsWrite,
         KeepsFlag, Rests, Intends
<1>5. LocksAgree'
  BY <1>1, EndsEffect DEF LocksAgree
<1>6. MutexHeld'
  <2>1. /\ Undisturbed(s) /\ odd \subseteq odd'
        /\ mutex' = mutex \/ mutex' = mutex \ {s}
    BY <1>1, EndsEffect
  <2>2. s \in mutex' => ss'[s].pc \in LoggingIn \cup {"dele_lookup", "ending"}
    BY <1>1, EndsEffect DEF MutexHeld, LoggingIn, Rests, Intends
  <2>3. ss'[s].pc \in LoggingIn => ss[s].pc \in LoggingIn /\ mutex' = mutex
    BY <1>1, EndsEffect DEF Counts, LoggingIn, Rests, Intends
  <2> QED BY <1>1, <2>1, <2>2, <2>3, MutexStays
<1>7. Placed'
  <2>1. /\ Undisturbed(s) /\ odd \subseteq odd' /\ ss'[s].pos = 1 /\ table' = table
        /\ ss'[s].pc = "gone" /\ Len(table) \in Nat
    BY <1>1, EndsEffect DEF TypeOK
  <2> QED BY <1>1, <2>1, PlacedStays DEF Recordless
<1>8. LocksCounted'
  <2>1. /\ Undisturbed(s) /\ odd \subseteq odd' /\ ss'[s].wc = 0
        /\ locks' = {l \in locks : l.by # s} /\ \A l \in locks : l.by \in Sessions
    BY <1>1, EndsEffect DEF TypeOK
  <2>2. /\ \A l \in locks : l.by # s => l \in locks'
        /\ \A l \in locks' : l \in locks /\ l.by # s
    BY <2>1
  <2> QED BY <1>1, <2>1, <2>2, LocksGiven
<1> QED BY <1>2, <1>3, <1>4, <1>5, <1>6, <1>7, <1>8 DEF IInv

(* The invariant after a session that is killed.                           *)
LEMMA KilledPreserves ==
  ASSUME IInv, NEW s \in Sessions, Killed(s)
  PROVE  IInv'
<1>1. TypeOK /\ Counts /\ Flags /\ LocksAgree /\ MutexHeld /\ Placed /\ LocksCounted
  BY DEF IInv
<1>2. TypeOK'
  BY <1>1, KilledEffect, KilledTypes DEF TypeOK
<1>3. Counts'
  BY <1>1, KilledEffect
     DEF Counts, Undisturbed, KeepsPlace, KeepsTally, KeepsWrite,
         KeepsFlag, Rests, Intends
<1>4. Flags'
  BY <1>1, KilledEffect
     DEF Counts, Flags, Undisturbed, KeepsPlace, KeepsTally, KeepsWrite,
         KeepsFlag, Rests, Intends
<1>5. LocksAgree'
  BY <1>1, KilledEffect DEF LocksAgree
<1>6. MutexHeld'
  <2>1. /\ Undisturbed(s) /\ odd \subseteq odd'
        /\ mutex' = mutex \/ mutex' = mutex \ {s}
    BY <1>1, KilledEffect
  <2>2. s \in mutex' => ss'[s].pc \in LoggingIn \cup {"dele_lookup", "ending"}
    BY <1>1, KilledEffect DEF MutexHeld, LoggingIn, Rests, Intends
  <2>3. ss'[s].pc \in LoggingIn => ss[s].pc \in LoggingIn /\ mutex' = mutex
    BY <1>1, KilledEffect DEF Counts, LoggingIn, Rests, Intends
  <2> QED BY <1>1, <2>1, <2>2, <2>3, MutexStays
<1>7. Placed'
  <2>1. /\ Undisturbed(s) /\ odd \subseteq odd' /\ ss'[s].pos = 1 /\ table' = table
        /\ ss'[s].pc = "gone" /\ Len(table) \in Nat
    BY <1>1, KilledEffect DEF TypeOK
  <2> QED BY <1>1, <2>1, PlacedStays DEF Recordless
<1>8. LocksCounted'
  <2>1. /\ Undisturbed(s) /\ odd \subseteq odd' /\ ss'[s].wc = 0
        /\ locks' = {l \in locks : l.by # s} /\ \A l \in locks : l.by \in Sessions
    BY <1>1, KilledEffect DEF TypeOK
  <2>2. /\ \A l \in locks : l.by # s => l \in locks'
        /\ \A l \in locks' : l \in locks /\ l.by # s
    BY <2>1
  <2> QED BY <1>1, <2>1, <2>2, LocksGiven
<1> QED BY <1>2, <1>3, <1>4, <1>5, <1>6, <1>7, <1>8 DEF IInv

-----------------------------------------------------------------------------
(* The invariant, and IdleClean.                                           *)

(* The types at first.                                                     *)
LEMMA InitTypes ==
  ASSUME Init  PROVE TypeOK
<1>1. /\ conf \in [hard : BOOLEAN, lock : BOOLEAN, delete : BOOLEAN,
                   user : [Sessions -> Users]]
      /\ table \in Seq(Record) /\ Len(table) <= MaxRecords
      /\ disk \in [Files -> [size : Nat \cup {Absent}, owner : Users]]
      /\ left \in Nat
  <2>1. PICK c \in Configs, u \in Logins :
           conf = [hard |-> c.hard, lock |-> c.lock, delete |-> c.delete, user |-> u]
    BY DEF Init
  <2>2. /\ c \in [hard : BOOLEAN, lock : BOOLEAN, delete : BOOLEAN]
        /\ u \in [Sessions -> Users]
    BY QuotaAssumption
  <2>3. conf \in [hard : BOOLEAN, lock : BOOLEAN, delete : BOOLEAN,
                  user : [Sessions -> Users]]
    BY ONLY <2>1, <2>2
  <2>4. table \in FirstTables /\ disk \in FirstFiles /\ left = MaxCommands
    BY DEF Init
  <2> QED BY <2>3, <2>4, QuotaAssumption DEF Record
<1>2. locks = {} /\ mutex = {} /\ ss = [s \in Sessions |-> Fresh(s)]
  BY DEF Init
<1>3. ASSUME NEW s \in Sessions PROVE Fresh(s) \in Session
  <2>1. \E f \in Files : TRUE
    BY QuotaAssumption
  <2>2. (CHOOSE f \in Files : TRUE) \in Files
    BY <2>1
  <2> PICK c : c = CHOOSE f \in Files : TRUE
    OBVIOUS
  <2>3. conf.user[s] \in Users
    BY <1>1, <1>3
  <2> PICK z : z = Zero(UserOf[s])
    OBVIOUS
  <2>4. z \in Record
    BY <2>3 DEF Zero, UserOf, Record
  <2>5. Fresh(s) =
        [pc |-> "new", pos |-> 1, tally |-> z, rc |-> 0, wc |-> 0,
         upd |-> FALSE, quits |-> FALSE, file |-> c, nb |-> 0,
         total |-> 0, fd |-> FALSE, owner |-> conf.user[s], st |-> FALSE,
         inc |-> [b |-> 0, f |-> 0], dele |-> FALSE,
         dtally |-> z, then |-> "idle"]
    BY DEF Fresh, UserOf
  <2> QED BY <2>2, <2>3, <2>4, <2>5 DEF Session, Places, Increment
<1>4. ss \in [Sessions -> Session]
  BY <1>2, <1>3
<1>5. due \in [Users -> Record]
  <2>1. ASSUME NEW u \in Users
        PROVE  (IF Recorded(u) = {} THEN Zero(u) ELSE table[FirstRecord(u)]) \in Record
    <3>1. CASE Recorded(u) = {}
      BY <3>1 DEF Zero, Record
    <3>2. CASE Recorded(u) # {}
      <4>1. Recorded(u) \subseteq 1 .. Len(table) /\ Len(table) \in Nat
        BY <1>1 DEF Recorded
      <4>2. \E i \in Recorded(u) : \A j \in Recorded(u) : i <= j
        BY <3>2, <4>1, LeastNatural
      <4>3. FirstRecord(u) \in Recorded(u)
        BY <4>2 DEF FirstRecord
      <4> QED BY <1>1, <3>2, <4>1, <4>3
    <3> QED BY <3>1, <3>2
  <2>2. due = [u \in Users |->
                IF Recorded(u) = {} THEN Zero(u) ELSE table[FirstRecord(u)]]
    BY DEF Init
  <2> QED BY <2>1, <2>2
<1> QED BY <1>1, <1>2, <1>4, <1>5 DEF TypeOK

(* The sessions at first.                                                  *)
LEMMA InitFresh ==
  ASSUME Init
  PROVE  \A s \in Sessions :
            /\ ss[s].pc = "new" /\ ss[s].pos = 1 /\ ss[s].rc = 0 /\ ss[s].wc = 0
            /\ ~ss[s].upd /\ ~ss[s].dele /\ ss[s].inc.b = 0
            /\ ss[s].then = "idle"
<1>1. TypeOK /\ ss = [s \in Sessions |-> Fresh(s)]
  BY InitTypes DEF Init
<1> QED BY <1>1, FreshSession

(* The invariant at first.                                                 *)
LEMMA InitInvariant ==
  ASSUME Init  PROVE IInv
<1>1. TypeOK /\ locks = {} /\ mutex = {}
  BY InitTypes DEF Init
<1>2. Len(table) \in Nat
  BY <1>1 DEF TypeOK
<1>3. Counts /\ Flags
  BY InitFresh DEF Counts, Flags
<1>4. LocksAgree /\ MutexHeld /\ LocksCounted
  BY <1>1, InitFresh DEF LocksAgree, MutexHeld, LocksCounted, LoggingIn
<1>5. Placed
  BY <1>2, InitFresh DEF Placed, Recordless
<1> QED BY <1>1, <1>3, <1>4, <1>5 DEF IInv

(* The invariant is about the variables only.                              *)
LEMMA StutterPreserves ==
  ASSUME IInv, UNCHANGED vars  PROVE IInv'
BY
   DEF vars, IInv, TypeOK, Counts, Flags, LocksAgree, MutexHeld, Placed,
       LocksCounted,
       Serial

(* Every step keeps the invariant.                                         *)
LEMMA NextPreserves ==
  ASSUME IInv, [Next]_vars  PROVE IInv'
<1>1. CASE UNCHANGED vars
  BY <1>1, StutterPreserves
<1>2. ASSUME NEW s \in Sessions,
        \/ LoginLock(s) \/ LoginLookup(s) \/ LoginDone(s)
        \/ CreateLock(s) \/ CreateFails(s) \/ filetab_create(s)
        \/ CreateUnlock(s)
        \/ ReadLock(s) \/ ReadGivesUp(s) \/ quotatab_read(s)
        \/ WriteLock(s) \/ WriteGivesUp(s) \/ quotatab_write(s)
        \/ Stor(s) \/ quotatab_pre_stor(s) \/ StorOpens(s)
        \/ quotatab_fsio_write(s) \/ StorEnds(s) \/ StorAborted(s)
        \/ quotatab_post_stor(s) \/ quotatab_post_stor_err(s)
        \/ Judge(s)
        \/ quotatab_pre_dele(s) \/ Dele(s) \/ quotatab_post_dele(s)
        \/ DeleMutex(s) \/ DeleLookup(s)
        \/ xfer_exit_ev(s) \/ quotatab_exit_ev(s) \/ Ends(s) \/ Killed(s)
      PROVE  IInv'
  BY <1>2, LoginLockPreserves, LoginLookupPreserves, CreateLockPreserves,
     CreateFailsPreserves, filetab_createPreserves, CreateUnlockPreserves,
     LoginDonePreserves, ReadLockPreserves, ReadGivesUpPreserves,
     quotatab_readPreserves, WriteLockPreserves, WriteGivesUpPreserves,
     quotatab_writePreserves, StorPreserves, quotatab_pre_storPreserves,
     StorOpensPreserves, quotatab_fsio_writePreserves, StorEndsPreserves,
     StorAbortedPreserves, quotatab_post_storPreserves,
     quotatab_post_stor_errPreserves, JudgePreserves,
     quotatab_pre_delePreserves, DelePreserves,
     quotatab_post_delePreserves, DeleMutexPreserves, DeleLookupPreserves,
     quotatab_exit_evPreserves, xfer_exit_evPreserves, EndsPreserves, KilledPreserves
<1> QED BY <1>1, <1>2 DEF Next

(* The inductive invariant: locks, counts, flags and positions agree.      *)
THEOREM Inductive == Spec => []IInv
<1>1. Init => IInv
  BY InitInvariant
<1>2. IInv /\ [Next]_vars => IInv'
  BY NextPreserves
<1> QED BY <1>1, <1>2, PTL DEF Spec

(* IdleClean: where every login held QuotaLock and every owner credited    *)
(* had a record, a session between two commands holds no lock and has no   *)
(* update left, and a record is written under its exclusive lock.          *)
THEOREM LocksGivenBack == Spec => []IdleClean
<1>1. IInv => IdleClean
  <2> SUFFICES ASSUME IInv, Serial, NEW s \in Sessions
               PROVE  /\ ss[s].pc \in {"new", "idle", "gone"} =>
                            /\ \A l \in locks : l.by # s
                            /\ ss[s].rc = 0 /\ ss[s].wc = 0
                            /\ s \notin mutex
                            /\ ~ss[s].upd
                      /\ At(s, "wwrite") =>
                            [by |-> s, at |-> ss[s].pos, mode |-> "w"] \in locks
    BY DEF IdleClean
  <2>1. ss[s].pc \in {"new", "idle", "gone"} =>
           ss[s].rc = 0 /\ ss[s].wc = 0 /\ ~ss[s].upd /\ s \notin mutex
    BY DEF IInv, Counts, Flags, MutexHeld, LoggingIn
  <2>2. ss[s].pc \in {"new", "idle", "gone"} => \A l \in locks : l.by # s
    BY <2>1 DEF IInv, LocksCounted
  <2>3. At(s, "wwrite") => [by |-> s, at |-> ss[s].pos, mode |-> "w"] \in locks
    BY DEF At, IInv, LocksCounted, Counts
  <2> QED BY <2>1, <2>2, <2>3
<1> QED BY <1>1, Inductive, PTL

-----------------------------------------------------------------------------
(* The tallies.                                                            *)

(* Who has credited nobody has credited nobody without a record.           *)
LEMMA ExactIsSerial ==
  ASSUME TallyInv, Exact  PROVE Serial
BY DEF TallyInv, Exact, Serial

(* What the others know of their records stays while the table does.       *)
LEMMA TallyStays ==
  ASSUME IInv, TallyInv, NEW s \in Sessions, Undisturbed(s),
         UNCHANGED <<conf, table, due>>, odd \subseteq odd',
         "unfound" \in odd' => "unfound" \in odd \/ "strayed" \in odd',
         Exact /\ Exact' => OwnAt(s)'
  PROVE  TallyInv'
<1>1. "unfound" \in odd' => "strayed" \in odd'
  BY DEF TallyInv
<1>2. ASSUME Exact'  PROVE Tallies' /\ OwnRecord'
  <2>1. Exact
    BY <1>2 DEF Exact
  <2>2. Tallies /\ OwnRecord
    BY <2>1 DEF TallyInv
  <2>3. Tallies'
    BY <2>2 DEF Tallies, Recorded
  <2>4. ASSUME NEW t \in Sessions  PROVE OwnAt(t)'
    <3>1. CASE t = s
      BY <1>2, <2>1, <3>1
    <3>2. CASE t # s
      BY <2>2, <3>2 DEF OwnRecord, OwnAt, Undisturbed, UserOf
    <3> QED BY <3>1, <3>2
  <2> QED BY <2>3, <2>4 DEF OwnRecord
<1> QED BY <1>1, <1>2 DEF TallyInv

(* The records and their tallies after taking QuotaLock at login.          *)
LEMMA LoginLockTallies ==
  ASSUME IInv, TallyInv, NEW s \in Sessions, LoginLock(s)
  PROVE  TallyInv'
<1>1. TypeOK /\ Counts /\ TallyInv
  BY DEF IInv
<1>2. Exact /\ Exact' => OwnAt(s)'
  <2> SUFFICES ASSUME Exact  PROVE OwnAt(s)'
    OBVIOUS
  <2>1. OwnAt(s)
    BY <1>1 DEF TallyInv, OwnRecord
  <2> QED BY <1>1, <2>1, LoginLockEffect
     DEF Counts, OwnAt, UserOf, Recordless, KeepsPlace, KeepsTally,
         KeepsWrite, KeepsFlag, Rests, Intends
<1>3. /\ Undisturbed(s) /\ UNCHANGED <<conf, table, due>> /\ odd \subseteq odd'
      /\ "unfound" \in odd' => "unfound" \in odd \/ "strayed" \in odd'
  BY <1>1, LoginLockEffect
<1> QED BY <1>1, <1>2, <1>3, TallyStays

(* The records and their tallies after the lookup of the user's record.    *)
LEMMA LoginLookupTallies ==
  ASSUME IInv, TallyInv, NEW s \in Sessions, LoginLookup(s)
  PROVE  TallyInv'
<1>1. TypeOK /\ Counts /\ TallyInv
  BY DEF IInv
<1>2. Exact /\ Exact' => OwnAt(s)'
  <2> SUFFICES ASSUME Exact  PROVE OwnAt(s)'
    OBVIOUS
  <2> PICK u, k : u = UserOf[s] /\ k = Lookup(UserOf[s])
    OBVIOUS
  <2>1. OwnAt(s)
    BY <1>1 DEF TallyInv, OwnRecord
  <2>2. /\ Found(u) => k \in 1 .. Len(table) /\ table[k].user = u
        /\ ~Found(u) => \A i \in 1 .. Len(table) : table[i].user # u
    BY <1>1, LookupFinds
  <2> QED BY <1>1, <2>1, <2>2, LoginLookupEffect DEF OwnAt, UserOf, Recordless
<1>3. /\ Undisturbed(s) /\ UNCHANGED <<conf, table, due>> /\ odd \subseteq odd'
      /\ "unfound" \in odd' => "unfound" \in odd \/ "strayed" \in odd'
  BY <1>1, LoginLookupEffect
<1> QED BY <1>1, <1>2, <1>3, TallyStays

(* The records and their tallies after the lock of quotatab_create.        *)
LEMMA CreateLockTallies ==
  ASSUME IInv, TallyInv, NEW s \in Sessions, CreateLock(s)
  PROVE  TallyInv'
<1>1. TypeOK /\ Counts /\ TallyInv
  BY DEF IInv
<1>2. Exact /\ Exact' => OwnAt(s)'
  <2> SUFFICES ASSUME Exact  PROVE OwnAt(s)'
    OBVIOUS
  <2>1. OwnAt(s)
    BY <1>1 DEF TallyInv, OwnRecord
  <2> QED BY <1>1, <2>1, CreateLockEffect
     DEF Counts, OwnAt, UserOf, Recordless, KeepsPlace, KeepsTally,
         KeepsWrite, KeepsFlag, Rests, Intends
<1>3. /\ Undisturbed(s) /\ UNCHANGED <<conf, table, due>> /\ odd \subseteq odd'
      /\ "unfound" \in odd' => "unfound" \in odd \/ "strayed" \in odd'
  BY <1>1, CreateLockEffect
<1> QED BY <1>1, <1>2, <1>3, TallyStays

(* The records and their tallies after a record that cannot be locked.     *)
LEMMA CreateFailsTallies ==
  ASSUME IInv, TallyInv, NEW s \in Sessions, CreateFails(s)
  PROVE  TallyInv'
<1>1. TypeOK /\ Counts /\ TallyInv
  BY DEF IInv
<1>2. Exact /\ Exact' => OwnAt(s)'
  <2> SUFFICES ASSUME Exact  PROVE OwnAt(s)'
    OBVIOUS
  <2>1. OwnAt(s)
    BY <1>1 DEF TallyInv, OwnRecord
  <2> QED BY <1>1, <2>1, CreateFailsEffect
     DEF Counts, OwnAt, UserOf, Recordless, KeepsPlace, KeepsTally,
         KeepsWrite, KeepsFlag, Rests, Intends
<1>3. /\ Undisturbed(s) /\ UNCHANGED <<conf, table, due>> /\ odd \subseteq odd'
      /\ "unfound" \in odd' => "unfound" \in odd \/ "strayed" \in odd'
  BY <1>1, CreateFailsEffect
<1> QED BY <1>1, <1>2, <1>3, TallyStays

(* The records and their tallies after giving back the lock of             *)
(* quotatab_create.                                                        *)
LEMMA CreateUnlockTallies ==
  ASSUME IInv, TallyInv, NEW s \in Sessions, CreateUnlock(s)
  PROVE  TallyInv'
<1>1. TypeOK /\ Counts /\ TallyInv
  BY DEF IInv
<1>2. Exact /\ Exact' => OwnAt(s)'
  <2> SUFFICES ASSUME Exact  PROVE OwnAt(s)'
    OBVIOUS
  <2>1. OwnAt(s)
    BY <1>1 DEF TallyInv, OwnRecord
  <2> QED BY <1>1, <2>1, CreateUnlockEffect
     DEF Counts, OwnAt, UserOf, Recordless, KeepsPlace, KeepsTally,
         KeepsWrite, KeepsFlag, Rests, Intends
<1>3. /\ Undisturbed(s) /\ UNCHANGED <<conf, table, due>> /\ odd \subseteq odd'
      /\ "unfound" \in odd' => "unfound" \in odd \/ "strayed" \in odd'
  BY <1>1, CreateUnlockEffect
<1> QED BY <1>1, <1>2, <1>3, TallyStays

(* The records and their tallies after the end of the login.               *)
LEMMA LoginDoneTallies ==
  ASSUME IInv, TallyInv, NEW s \in Sessions, LoginDone(s)
  PROVE  TallyInv'
<1>1. TypeOK /\ Counts /\ TallyInv
  BY DEF IInv
<1>2. Exact /\ Exact' => OwnAt(s)'
  <2> SUFFICES ASSUME Exact  PROVE OwnAt(s)'
    OBVIOUS
  <2>1. OwnAt(s)
    BY <1>1 DEF TallyInv, OwnRecord
  <2> QED BY <1>1, <2>1, LoginDoneEffect
     DEF Counts, OwnAt, UserOf, Recordless, KeepsPlace, KeepsTally,
         KeepsWrite, KeepsFlag, Rests, Intends
<1>3. /\ Undisturbed(s) /\ UNCHANGED <<conf, table, due>> /\ odd \subseteq odd'
      /\ "unfound" \in odd' => "unfound" \in odd \/ "strayed" \in odd'
  BY <1>1, LoginDoneEffect
<1> QED BY <1>1, <1>2, <1>3, TallyStays

(* The records and their tallies after the lock of quotatab_read.          *)
LEMMA ReadLockTallies ==
  ASSUME IInv, TallyInv, NEW s \in Sessions, ReadLock(s)
  PROVE  TallyInv'
<1>1. TypeOK /\ Counts /\ TallyInv
  BY DEF IInv
<1>2. Exact /\ Exact' => OwnAt(s)'
  <2> SUFFICES ASSUME Exact  PROVE OwnAt(s)'
    OBVIOUS
  <2>1. OwnAt(s)
    BY <1>1 DEF TallyInv, OwnRecord
  <2> QED BY <1>1, <2>1, ReadLockEffect
     DEF Counts, OwnAt, UserOf, Recordless, KeepsPlace, KeepsTally,
         KeepsWrite, KeepsFlag, Rests, Intends
<1>3. /\ Undisturbed(s) /\ UNCHANGED <<conf, table, due>> /\ odd \subseteq odd'
      /\ "unfound" \in odd' => "unfound" \in odd \/ "strayed" \in odd'
  BY <1>1, ReadLockEffect
<1> QED BY <1>1, <1>2, <1>3, TallyStays

(* The records and their tallies after a read without the lock.            *)
LEMMA ReadGivesUpTallies ==
  ASSUME IInv, TallyInv, NEW s \in Sessions, ReadGivesUp(s)
  PROVE  TallyInv'
<1>1. TypeOK /\ Counts /\ TallyInv
  BY DEF IInv
<1>2. Exact /\ Exact' => OwnAt(s)'
  <2> SUFFICES ASSUME Exact  PROVE OwnAt(s)'
    OBVIOUS
  <2>1. OwnAt(s)
    BY <1>1 DEF TallyInv, OwnRecord
  <2> QED BY <1>1, <2>1, ReadGivesUpEffect
     DEF Counts, OwnAt, UserOf, Recordless, KeepsPlace, KeepsTally,
         KeepsWrite, KeepsFlag, Rests, Intends
<1>3. /\ Undisturbed(s) /\ UNCHANGED <<conf, table, due>> /\ odd \subseteq odd'
      /\ "unfound" \in odd' => "unfound" \in odd \/ "strayed" \in odd'
  BY <1>1, ReadGivesUpEffect
<1> QED BY <1>1, <1>2, <1>3, TallyStays

(* The records and their tallies after reading the record.                 *)
LEMMA quotatab_readTallies ==
  ASSUME IInv, TallyInv, NEW s \in Sessions, quotatab_read(s)
  PROVE  TallyInv'
<1>1. TypeOK /\ Counts /\ TallyInv
  BY DEF IInv
<1>2. Exact /\ Exact' => OwnAt(s)'
  <2> SUFFICES ASSUME Exact  PROVE OwnAt(s)'
    OBVIOUS
  <2>1. OwnAt(s) /\ Serial
    BY <1>1, ExactIsSerial DEF TallyInv, OwnRecord
  <2>2. ss[s].pc = "read"
    BY <1>1, quotatab_readEffect
  <2>3. ss[s].pos <= Len(table)
    BY <1>1, <2>1, <2>2 DEF IInv, Placed, Recordless
  <2>4. ss'[s].tally = table[ss[s].pos]
    BY <1>1, <2>3, quotatab_readEffect DEF filetab_read
  <2> QED BY <1>1, <2>1, <2>2, <2>4, quotatab_readEffect
     DEF OwnAt, UserOf, Recordless, Back
<1>3. /\ Undisturbed(s) /\ UNCHANGED <<conf, table, due>> /\ odd \subseteq odd'
      /\ "unfound" \in odd' => "unfound" \in odd \/ "strayed" \in odd'
  BY <1>1, quotatab_readEffect
<1> QED BY <1>1, <1>2, <1>3, TallyStays

(* The records and their tallies after the lock of quotatab_write.         *)
LEMMA WriteLockTallies ==
  ASSUME IInv, TallyInv, NEW s \in Sessions, WriteLock(s)
  PROVE  TallyInv'
<1>1. TypeOK /\ Counts /\ TallyInv
  BY DEF IInv
<1>2. Exact /\ Exact' => OwnAt(s)'
  <2> SUFFICES ASSUME Exact  PROVE OwnAt(s)'
    OBVIOUS
  <2>1. OwnAt(s)
    BY <1>1 DEF TallyInv, OwnRecord
  <2> QED BY <1>1, <2>1, WriteLockEffect
     DEF Counts, OwnAt, UserOf, Recordless, KeepsPlace, KeepsTally,
         KeepsWrite, KeepsFlag, Rests, Intends
<1>3. /\ Undisturbed(s) /\ UNCHANGED <<conf, table, due>> /\ odd \subseteq odd'
      /\ "unfound" \in odd' => "unfound" \in odd \/ "strayed" \in odd'
  BY <1>1, WriteLockEffect
<1> QED BY <1>1, <1>2, <1>3, TallyStays

(* The records and their tallies after a write that is given up.           *)
LEMMA WriteGivesUpTallies ==
  ASSUME IInv, TallyInv, NEW s \in Sessions, WriteGivesUp(s)
  PROVE  TallyInv'
<1>1. TypeOK /\ Counts /\ TallyInv
  BY DEF IInv
<1>2. Exact /\ Exact' => OwnAt(s)'
  <2> SUFFICES ASSUME Exact  PROVE OwnAt(s)'
    OBVIOUS
  <2>1. OwnAt(s)
    BY <1>1 DEF TallyInv, OwnRecord
  <2> QED BY <1>1, <2>1, WriteGivesUpEffect
     DEF Counts, OwnAt, UserOf, Recordless, KeepsPlace, KeepsTally,
         KeepsWrite, KeepsFlag, Rests, Intends, Follows
<1>3. /\ Undisturbed(s) /\ UNCHANGED <<conf, table, due>> /\ odd \subseteq odd'
      /\ "unfound" \in odd' => "unfound" \in odd \/ "strayed" \in odd'
  BY <1>1, WriteGivesUpEffect
<1> QED BY <1>1, <1>2, <1>3, TallyStays

(* The records and their tallies after STOR.                               *)
LEMMA StorTallies ==
  ASSUME IInv, TallyInv, NEW s \in Sessions, Stor(s)
  PROVE  TallyInv'
<1>1. TypeOK /\ Counts /\ TallyInv
  BY DEF IInv
<1>2. Exact /\ Exact' => OwnAt(s)'
  <2> SUFFICES ASSUME Exact  PROVE OwnAt(s)'
    OBVIOUS
  <2>1. OwnAt(s)
    BY <1>1 DEF TallyInv, OwnRecord
  <2> QED BY <1>1, <2>1, StorEffect
     DEF Counts, OwnAt, UserOf, Recordless, KeepsPlace, KeepsTally,
         KeepsWrite, KeepsFlag, Rests, Intends
<1>3. /\ Undisturbed(s) /\ UNCHANGED <<conf, table, due>> /\ odd \subseteq odd'
      /\ "unfound" \in odd' => "unfound" \in odd \/ "strayed" \in odd'
  BY <1>1, StorEffect
<1> QED BY <1>1, <1>2, <1>3, TallyStays

(* The records and their tallies after the check before an upload.         *)
LEMMA quotatab_pre_storTallies ==
  ASSUME IInv, TallyInv, NEW s \in Sessions, quotatab_pre_stor(s)
  PROVE  TallyInv'
<1>1. TypeOK /\ Counts /\ TallyInv
  BY DEF IInv
<1>2. Exact /\ Exact' => OwnAt(s)'
  <2> SUFFICES ASSUME Exact  PROVE OwnAt(s)'
    OBVIOUS
  <2>1. OwnAt(s)
    BY <1>1 DEF TallyInv, OwnRecord
  <2> QED BY <1>1, <2>1, quotatab_pre_storEffect
     DEF Counts, OwnAt, UserOf, Recordless, KeepsPlace, KeepsTally,
         KeepsWrite, KeepsFlag, Rests, Intends
<1>3. /\ Undisturbed(s) /\ UNCHANGED <<conf, table, due>> /\ odd \subseteq odd'
      /\ "unfound" \in odd' => "unfound" \in odd \/ "strayed" \in odd'
  BY <1>1, quotatab_pre_storEffect
<1> QED BY <1>1, <1>2, <1>3, TallyStays

(* The records and their tallies after opening the file.                   *)
LEMMA StorOpensTallies ==
  ASSUME IInv, TallyInv, NEW s \in Sessions, StorOpens(s)
  PROVE  TallyInv'
<1>1. TypeOK /\ Counts /\ TallyInv
  BY DEF IInv
<1>2. Exact /\ Exact' => OwnAt(s)'
  <2> SUFFICES ASSUME Exact  PROVE OwnAt(s)'
    OBVIOUS
  <2>1. OwnAt(s)
    BY <1>1 DEF TallyInv, OwnRecord
  <2> QED BY <1>1, <2>1, StorOpensEffect
     DEF Counts, OwnAt, UserOf, Recordless, KeepsPlace, KeepsTally,
         KeepsWrite, KeepsFlag, Rests, Intends
<1>3. /\ Undisturbed(s) /\ UNCHANGED <<conf, table, due>> /\ odd \subseteq odd'
      /\ "unfound" \in odd' => "unfound" \in odd \/ "strayed" \in odd'
  BY <1>1, StorOpensEffect
<1> QED BY <1>1, <1>2, <1>3, TallyStays

(* The records and their tallies after a chunk of the upload.              *)
LEMMA quotatab_fsio_writeTallies ==
  ASSUME IInv, TallyInv, NEW s \in Sessions, quotatab_fsio_write(s)
  PROVE  TallyInv'
<1>1. TypeOK /\ Counts /\ TallyInv
  BY DEF IInv
<1>2. Exact /\ Exact' => OwnAt(s)'
  <2> SUFFICES ASSUME Exact  PROVE OwnAt(s)'
    OBVIOUS
  <2>1. OwnAt(s)
    BY <1>1 DEF TallyInv, OwnRecord
  <2> QED BY <1>1, <2>1, quotatab_fsio_writeEffect
     DEF Counts, OwnAt, UserOf, Recordless, KeepsPlace, KeepsTally,
         KeepsWrite, KeepsFlag, Rests, Intends
<1>3. /\ Undisturbed(s) /\ UNCHANGED <<conf, table, due>> /\ odd \subseteq odd'
      /\ "unfound" \in odd' => "unfound" \in odd \/ "strayed" \in odd'
  BY <1>1, quotatab_fsio_writeEffect
<1> QED BY <1>1, <1>2, <1>3, TallyStays

(* The records and their tallies after the end of the data.                *)
LEMMA StorEndsTallies ==
  ASSUME IInv, TallyInv, NEW s \in Sessions, StorEnds(s)
  PROVE  TallyInv'
<1>1. TypeOK /\ Counts /\ TallyInv
  BY DEF IInv
<1>2. Exact /\ Exact' => OwnAt(s)'
  <2> SUFFICES ASSUME Exact  PROVE OwnAt(s)'
    OBVIOUS
  <2>1. OwnAt(s)
    BY <1>1 DEF TallyInv, OwnRecord
  <2> QED BY <1>1, <2>1, StorEndsEffect
     DEF Counts, OwnAt, UserOf, Recordless, KeepsPlace, KeepsTally,
         KeepsWrite, KeepsFlag, Rests, Intends
<1>3. /\ Undisturbed(s) /\ UNCHANGED <<conf, table, due>> /\ odd \subseteq odd'
      /\ "unfound" \in odd' => "unfound" \in odd \/ "strayed" \in odd'
  BY <1>1, StorEndsEffect
<1> QED BY <1>1, <1>2, <1>3, TallyStays

(* The records and their tallies after an upload that is aborted and       *)
(* removed.                                                                *)
LEMMA StorAbortedTallies ==
  ASSUME IInv, TallyInv, NEW s \in Sessions, StorAborted(s)
  PROVE  TallyInv'
<1>1. TypeOK /\ Counts /\ TallyInv
  BY DEF IInv
<1>2. Exact /\ Exact' => OwnAt(s)'
  <2> SUFFICES ASSUME Exact  PROVE OwnAt(s)'
    OBVIOUS
  <2>1. OwnAt(s)
    BY <1>1 DEF TallyInv, OwnRecord
  <2> QED BY <1>1, <2>1, StorAbortedEffect
     DEF Counts, OwnAt, UserOf, Recordless, KeepsPlace, KeepsTally,
         KeepsWrite, KeepsFlag, Rests, Intends
<1>3. /\ Undisturbed(s) /\ UNCHANGED <<conf, table, due>> /\ odd \subseteq odd'
      /\ "unfound" \in odd' => "unfound" \in odd \/ "strayed" \in odd'
  BY <1>1, StorAbortedEffect
<1> QED BY <1>1, <1>2, <1>3, TallyStays

(* The records and their tallies after quotatab_post_stor.                 *)
LEMMA quotatab_post_storTallies ==
  ASSUME IInv, TallyInv, NEW s \in Sessions, quotatab_post_stor(s)
  PROVE  TallyInv'
<1>1. TypeOK /\ Counts /\ TallyInv
  BY DEF IInv
<1>2. Exact /\ Exact' => OwnAt(s)'
  <2> SUFFICES ASSUME Exact  PROVE OwnAt(s)'
    OBVIOUS
  <2>1. OwnAt(s)
    BY <1>1 DEF TallyInv, OwnRecord
  <2> QED BY <1>1, <2>1, quotatab_post_storEffect
     DEF Counts, OwnAt, UserOf, Recordless, KeepsPlace, KeepsTally,
         KeepsWrite, KeepsFlag, Rests, Intends
<1>3. /\ Undisturbed(s) /\ UNCHANGED <<conf, table, due>> /\ odd \subseteq odd'
      /\ "unfound" \in odd' => "unfound" \in odd \/ "strayed" \in odd'
  BY <1>1, quotatab_post_storEffect
<1> QED BY <1>1, <1>2, <1>3, TallyStays

(* The records and their tallies after quotatab_post_stor_err.             *)
LEMMA quotatab_post_stor_errTallies ==
  ASSUME IInv, TallyInv, NEW s \in Sessions, quotatab_post_stor_err(s)
  PROVE  TallyInv'
<1>1. TypeOK /\ Counts /\ TallyInv
  BY DEF IInv
<1>2. Exact /\ Exact' => OwnAt(s)'
  <2> SUFFICES ASSUME Exact  PROVE OwnAt(s)'
    OBVIOUS
  <2>1. OwnAt(s)
    BY <1>1 DEF TallyInv, OwnRecord
  <2> QED BY <1>1, <2>1, quotatab_post_stor_errEffect
     DEF Counts, OwnAt, UserOf, Recordless, KeepsPlace, KeepsTally,
         KeepsWrite, KeepsFlag, Rests, Intends
<1>3. /\ Undisturbed(s) /\ UNCHANGED <<conf, table, due>> /\ odd \subseteq odd'
      /\ "unfound" \in odd' => "unfound" \in odd \/ "strayed" \in odd'
  BY <1>1, quotatab_post_stor_errEffect
<1> QED BY <1>1, <1>2, <1>3, TallyStays

(* The records and their tallies after the comparison with the limit after *)
(* an upload.                                                              *)
LEMMA JudgeTallies ==
  ASSUME IInv, TallyInv, NEW s \in Sessions, Judge(s)
  PROVE  TallyInv'
<1>1. TypeOK /\ Counts /\ TallyInv
  BY DEF IInv
<1>2. Exact /\ Exact' => OwnAt(s)'
  <2> SUFFICES ASSUME Exact  PROVE OwnAt(s)'
    OBVIOUS
  <2>1. OwnAt(s)
    BY <1>1 DEF TallyInv, OwnRecord
  <2> QED BY <1>1, <2>1, JudgeEffect
     DEF Counts, OwnAt, UserOf, Recordless, KeepsPlace, KeepsTally,
         KeepsWrite, KeepsFlag, Rests, Intends
<1>3. /\ Undisturbed(s) /\ UNCHANGED <<conf, table, due>> /\ odd \subseteq odd'
      /\ "unfound" \in odd' => "unfound" \in odd \/ "strayed" \in odd'
  BY <1>1, JudgeEffect
<1> QED BY <1>1, <1>2, <1>3, TallyStays

(* The records and their tallies after quotatab_pre_dele.                  *)
LEMMA quotatab_pre_deleTallies ==
  ASSUME IInv, TallyInv, NEW s \in Sessions, quotatab_pre_dele(s)
  PROVE  TallyInv'
<1>1. TypeOK /\ Counts /\ TallyInv
  BY DEF IInv
<1>2. Exact /\ Exact' => OwnAt(s)'
  <2> SUFFICES ASSUME Exact  PROVE OwnAt(s)'
    OBVIOUS
  <2>1. OwnAt(s)
    BY <1>1 DEF TallyInv, OwnRecord
  <2> QED BY <1>1, <2>1, quotatab_pre_deleEffect
     DEF Counts, OwnAt, UserOf, Recordless, KeepsPlace, KeepsTally,
         KeepsWrite, KeepsFlag, Rests, Intends
<1>3. /\ Undisturbed(s) /\ UNCHANGED <<conf, table, due>> /\ odd \subseteq odd'
      /\ "unfound" \in odd' => "unfound" \in odd \/ "strayed" \in odd'
  BY <1>1, quotatab_pre_deleEffect
<1> QED BY <1>1, <1>2, <1>3, TallyStays

(* The records and their tallies after removing the file.                  *)
LEMMA DeleTallies ==
  ASSUME IInv, TallyInv, NEW s \in Sessions, Dele(s)
  PROVE  TallyInv'
<1>1. TypeOK /\ Counts /\ TallyInv
  BY DEF IInv
<1>2. Exact /\ Exact' => OwnAt(s)'
  <2> SUFFICES ASSUME Exact  PROVE OwnAt(s)'
    OBVIOUS
  <2>1. OwnAt(s)
    BY <1>1 DEF TallyInv, OwnRecord
  <2> QED BY <1>1, <2>1, DeleEffect
     DEF Counts, OwnAt, UserOf, Recordless, KeepsPlace, KeepsTally,
         KeepsWrite, KeepsFlag, Rests, Intends
<1>3. /\ Undisturbed(s) /\ UNCHANGED <<conf, table, due>> /\ odd \subseteq odd'
      /\ "unfound" \in odd' => "unfound" \in odd \/ "strayed" \in odd'
  BY <1>1, DeleEffect
<1> QED BY <1>1, <1>2, <1>3, TallyStays

(* The records and their tallies after quotatab_post_dele.                 *)
LEMMA quotatab_post_deleTallies ==
  ASSUME IInv, TallyInv, NEW s \in Sessions, quotatab_post_dele(s)
  PROVE  TallyInv'
<1>1. TypeOK /\ Counts /\ TallyInv
  BY DEF IInv
<1>2. Exact /\ Exact' => OwnAt(s)'
  <2> SUFFICES ASSUME Exact  PROVE OwnAt(s)'
    OBVIOUS
  <2>1. OwnAt(s)
    BY <1>1 DEF TallyInv, OwnRecord
  <2> QED BY <1>1, <2>1, quotatab_post_deleEffect
     DEF Counts, OwnAt, UserOf, Recordless, KeepsPlace, KeepsTally,
         KeepsWrite, KeepsFlag, Rests, Intends
<1>3. /\ Undisturbed(s) /\ UNCHANGED <<conf, table, due>> /\ odd \subseteq odd'
      /\ "unfound" \in odd' => "unfound" \in odd \/ "strayed" \in odd'
  BY <1>1, quotatab_post_deleEffect
<1> QED BY <1>1, <1>2, <1>3, TallyStays

(* The records and their tallies after QuotaLock in quotatab_post_dele.    *)
LEMMA DeleMutexTallies ==
  ASSUME IInv, TallyInv, NEW s \in Sessions, DeleMutex(s)
  PROVE  TallyInv'
<1>1. TypeOK /\ Counts /\ TallyInv
  BY DEF IInv
<1>2. Exact /\ Exact' => OwnAt(s)'
  <2> SUFFICES ASSUME Exact  PROVE OwnAt(s)'
    OBVIOUS
  <2>1. OwnAt(s)
    BY <1>1 DEF TallyInv, OwnRecord
  <2> QED BY <1>1, <2>1, DeleMutexEffect
     DEF Counts, OwnAt, UserOf, Recordless, KeepsPlace, KeepsTally,
         KeepsWrite, KeepsFlag, Rests, Intends
<1>3. /\ Undisturbed(s) /\ UNCHANGED <<conf, table, due>> /\ odd \subseteq odd'
      /\ "unfound" \in odd' => "unfound" \in odd \/ "strayed" \in odd'
  BY <1>1, DeleMutexEffect
<1> QED BY <1>1, <1>2, <1>3, TallyStays

(* The records and their tallies after the lookup of the owner's record.   *)
LEMMA DeleLookupTallies ==
  ASSUME IInv, TallyInv, NEW s \in Sessions, DeleLookup(s)
  PROVE  TallyInv'
<1>1. TypeOK /\ Counts /\ TallyInv
  BY DEF IInv
<1>2. Exact /\ Exact' => OwnAt(s)'
  BY <1>1, DeleLookupEffect DEF Exact
<1>3. /\ Undisturbed(s) /\ UNCHANGED <<conf, table, due>> /\ odd \subseteq odd'
      /\ "unfound" \in odd' => "unfound" \in odd \/ "strayed" \in odd'
  BY <1>1, DeleLookupEffect
<1> QED BY <1>1, <1>2, <1>3, TallyStays

(* The records and their tallies after xfer_exit_ev.                       *)
LEMMA xfer_exit_evTallies ==
  ASSUME IInv, TallyInv, NEW s \in Sessions, xfer_exit_ev(s)
  PROVE  TallyInv'
<1>1. TypeOK /\ Counts /\ TallyInv
  BY DEF IInv
<1>2. Exact /\ Exact' => OwnAt(s)'
  <2> SUFFICES ASSUME Exact  PROVE OwnAt(s)'
    OBVIOUS
  <2>1. OwnAt(s)
    BY <1>1 DEF TallyInv, OwnRecord
  <2> QED BY <1>1, <2>1, xfer_exit_evEffect
     DEF Counts, OwnAt, UserOf, Recordless, KeepsPlace, KeepsTally,
         KeepsWrite, KeepsFlag, Rests, Intends
<1>3. /\ Undisturbed(s) /\ UNCHANGED <<conf, table, due>> /\ odd \subseteq odd'
      /\ "unfound" \in odd' => "unfound" \in odd \/ "strayed" \in odd'
  BY <1>1, xfer_exit_evEffect
<1> QED BY <1>1, <1>2, <1>3, TallyStays

(* The records and their tallies after quotatab_exit_ev.                   *)
LEMMA quotatab_exit_evTallies ==
  ASSUME IInv, TallyInv, NEW s \in Sessions, quotatab_exit_ev(s)
  PROVE  TallyInv'
<1>1. TypeOK /\ Counts /\ TallyInv
  BY DEF IInv
<1>2. Exact /\ Exact' => OwnAt(s)'
  <2> SUFFICES ASSUME Exact  PROVE OwnAt(s)'
    OBVIOUS
  <2>1. OwnAt(s)
    BY <1>1 DEF TallyInv, OwnRecord
  <2>2. ss[s].pc \in {"idle", "move", "wlock", "rlock", "create", "new", "dele_mutex"}
    BY <1>1, quotatab_exit_evEffect DEF Interruptible, At
  <2>3. ss'[s].pc \in {"wlock", "ending"} /\ (ss'[s].pc = "wlock" => ss[s].upd)
    BY <1>1, quotatab_exit_evEffect DEF Intends
  <2>4. ss[s].pc \in {"create", "new"} => ~ss[s].upd
    BY <1>1 DEF IInv, Flags
  <2>5. ss'[s].pos = ss[s].pos /\ ~ss'[s].dele /\ UNCHANGED <<conf, table>>
    BY <1>1, <2>1, quotatab_exit_evEffect DEF OwnAt, KeepsTally
  <2> QED BY <2>1, <2>2, <2>3, <2>4, <2>5 DEF OwnAt, UserOf, Recordless
<1>3. /\ Undisturbed(s) /\ UNCHANGED <<conf, table, due>> /\ odd \subseteq odd'
      /\ "unfound" \in odd' => "unfound" \in odd \/ "strayed" \in odd'
  BY <1>1, quotatab_exit_evEffect
<1> QED BY <1>1, <1>2, <1>3, TallyStays

(* The records and their tallies after the end of a session.               *)
LEMMA EndsTallies ==
  ASSUME IInv, TallyInv, NEW s \in Sessions, Ends(s)
  PROVE  TallyInv'
<1>1. TypeOK /\ Counts /\ TallyInv
  BY DEF IInv
<1>2. Exact /\ Exact' => OwnAt(s)'
  <2> SUFFICES ASSUME Exact  PROVE OwnAt(s)'
    OBVIOUS
  <2>1. OwnAt(s)
    BY <1>1 DEF TallyInv, OwnRecord
  <2> QED BY <1>1, <2>1, EndsEffect
     DEF Counts, OwnAt, UserOf, Recordless, KeepsPlace, KeepsTally,
         KeepsWrite, KeepsFlag, Rests, Intends
<1>3. /\ Undisturbed(s) /\ UNCHANGED <<conf, table, due>> /\ odd \subseteq odd'
      /\ "unfound" \in odd' => "unfound" \in odd \/ "strayed" \in odd'
  BY <1>1, EndsEffect
<1> QED BY <1>1, <1>2, <1>3, TallyStays

(* The records and their tallies after a session that is killed.           *)
LEMMA KilledTallies ==
  ASSUME IInv, TallyInv, NEW s \in Sessions, Killed(s)
  PROVE  TallyInv'
<1>1. TypeOK /\ Counts /\ TallyInv
  BY DEF IInv
<1>2. Exact /\ Exact' => OwnAt(s)'
  <2> SUFFICES ASSUME Exact  PROVE OwnAt(s)'
    OBVIOUS
  <2>1. OwnAt(s)
    BY <1>1 DEF TallyInv, OwnRecord
  <2> QED BY <1>1, <2>1, KilledEffect
     DEF Counts, OwnAt, UserOf, Recordless, KeepsPlace, KeepsTally,
         KeepsWrite, KeepsFlag, Rests, Intends
<1>3. /\ Undisturbed(s) /\ UNCHANGED <<conf, table, due>> /\ odd \subseteq odd'
      /\ "unfound" \in odd' => "unfound" \in odd \/ "strayed" \in odd'
  BY <1>1, KilledEffect
<1> QED BY <1>1, <1>2, <1>3, TallyStays

(* The records and their tallies after appending a record.                 *)
LEMMA filetab_createTallies ==
  ASSUME IInv, TallyInv, NEW s \in Sessions, filetab_create(s)
  PROVE  TallyInv'
<1>1. TypeOK /\ table \in Seq(Record) /\ Len(table) \in Nat /\ ss \in [Sessions -> Session]
  BY DEF IInv, TypeOK
<1> PICK u, n, r : u = UserOf[s] /\ n = Len(table) + 1 /\ r = ss[s].tally
  OBVIOUS
<1>2. /\ Undisturbed(s) /\ UNCHANGED <<conf, due, odd>> /\ table' = Append(table, r)
      /\ ss[s].pc = "append" /\ ss'[s].pc = "appended" /\ ss'[s].pos = n
      /\ ss'[s].dele = ss[s].dele
  BY <1>1, filetab_createEffect DEF KeepsTally
<1>3. u \in Users /\ r \in Record /\ UserOf' = UserOf
  BY <1>1, <1>2 DEF TypeOK, Session, UserOf
<1>4. /\ Len(table') = n /\ table'[n] = r
      /\ \A i \in 1 .. Len(table) : table'[i] = table[i]
      /\ \A i \in 1 .. Len(table') : i = n \/ i \in 1 .. Len(table)
  BY <1>1, <1>2, <1>3
<1>5. ASSUME Exact'  PROVE Tallies' /\ OwnRecord'
  <2>1. Exact
    BY <1>2, <1>5 DEF Exact
  <2>2. Tallies /\ OwnRecord /\ Serial
    BY <2>1, ExactIsSerial DEF TallyInv
  <2>3. r = Zero(u) /\ \A i \in 1 .. Len(table) : table[i].user # u
    BY <1>2, <2>2 DEF OwnRecord, OwnAt
  <2>4. r.user = u /\ due[u] = r
    BY <1>3, <2>2, <2>3 DEF Tallies, Recorded, Zero
  <2>5. \A i, j \in 1 .. Len(table') : table'[i].user = table'[j].user => i = j
    BY <1>4, <2>2, <2>3, <2>4 DEF Tallies
  <2>6. \A i \in 1 .. Len(table') : table'[i] = due'[table'[i].user]
    BY <1>2, <1>4, <2>2, <2>4 DEF Tallies
  <2>7. \A v \in Users : Recorded(v)' = {} => due'[v] = Zero(v)
    BY <1>2, <1>4, <2>2 DEF Tallies, Recorded
  <2>8. ASSUME NEW t \in Sessions  PROVE OwnAt(t)'
    <3>1. CASE t = s
      BY <1>2, <1>3, <1>4, <2>2, <2>4, <3>1 DEF OwnRecord, OwnAt
    <3>2. CASE t # s
      <4>1. OwnAt(t) /\ (ss[t].pc \notin Recordless => ss[t].pos \in 1 .. Len(table))
        BY <2>2 DEF OwnRecord, IInv, Placed
      <4>2. ss[t].pc \notin {"create", "append"}
        <5>1. "unserialised" \notin odd
          BY <2>1 DEF Exact
        <5>2. s \in mutex /\ (ss[t].pc \in LoggingIn => t \in mutex)
          BY <1>2, <5>1 DEF IInv, MutexHeld, LoggingIn
        <5>3. t \notin mutex
          BY <3>2, <5>2 DEF IInv, MutexHeld
        <5> QED BY <5>2, <5>3 DEF LoggingIn
      <4>3. /\ ss'[t].pc = ss[t].pc /\ ss'[t].pos = ss[t].pos
            /\ ss'[t].tally = ss[t].tally /\ ss'[t].dele = ss[t].dele
        BY <1>2, <3>2 DEF Undisturbed
      <4>4. ss[t].pc = "wwrite" => ss[t].pc \notin Recordless
        BY DEF Recordless
      <4> QED BY <1>3, <1>4, <4>1, <4>2, <4>3, <4>4 DEF OwnAt
    <3> QED BY <3>1, <3>2
  <2> QED BY <2>5, <2>6, <2>7, <2>8 DEF Tallies, OwnRecord
<1> QED BY <1>2, <1>5 DEF TallyInv

(* What quotatab_write does to the table, where the tallies are exact.     *)
LEMMA WriteUpdates ==
  ASSUME IInv, TallyInv, NEW s \in Sessions, quotatab_write(s), Exact
  PROVE  /\ ss[s].pos \in 1 .. Len(table) /\ UserOf[s] \in Users
         /\ table[ss[s].pos].user = UserOf[s] /\ ss[s].tally = table[ss[s].pos]
         /\ ss[s].tally \in Record /\ ss[s].inc \in Increment
         /\ table' = [table EXCEPT ![ss[s].pos] = Bumped(ss[s].tally, ss[s].inc)]
         /\ due' = [due EXCEPT ![UserOf[s]] = Bumped(@, ss[s].inc)]
         /\ ~ss[s].dele
<1>1. TypeOK /\ Placed /\ Serial /\ Tallies /\ OwnAt(s)
  BY ExactIsSerial DEF IInv, TallyInv, OwnRecord
<1>2. ss[s].pc = "wwrite" /\ ss[s].pc \notin Recordless
  BY <1>1, quotatab_writeEffect DEF Recordless
<1>3. ss[s].pos \in 1 .. Len(table)
  BY <1>1, <1>2 DEF Placed
<1>4. /\ ~ss[s].dele /\ table[ss[s].pos].user = UserOf[s]
      /\ ss[s].tally = table[ss[s].pos]
  BY <1>1, <1>2 DEF OwnAt
<1>5. UserOf[s] \in Users /\ ss[s].tally \in Record /\ ss[s].inc \in Increment
  BY <1>1 DEF TypeOK, UserOf, Session
<1>6. table' = filetab_write(s, Bumped(ss[s].tally, ss[s].inc))
  BY <1>1, <1>4, quotatab_writeEffect
<1>7. table' = [table EXCEPT ![ss[s].pos] = Bumped(ss[s].tally, ss[s].inc)]
  BY <1>3, <1>6 DEF filetab_write
<1>8. due' = [due EXCEPT ![UserOf[s]] = Bumped(@, ss[s].inc)]
  BY <1>1, <1>4, quotatab_writeEffect
<1> QED BY <1>3, <1>4, <1>5, <1>7, <1>8

(* The records and their tallies after writing the record.                 *)
LEMMA quotatab_writeTallies ==
  ASSUME IInv, TallyInv, NEW s \in Sessions, quotatab_write(s)
  PROVE  TallyInv'
<1>1. /\ TypeOK /\ table \in Seq(Record) /\ Len(table) \in Nat
      /\ due \in [Users -> Record]
  BY DEF IInv, TypeOK
<1>2. /\ Undisturbed(s) /\ UNCHANGED <<conf, odd>> /\ ss[s].pc = "wwrite"
      /\ ss'[s].pc \in {"idle", "judge", "judge_err", "ending"}
      /\ ss'[s].pos = ss[s].pos
      /\ ~ss[s].dele => ~ss'[s].dele
  <2>1. ss[s].then \in {"idle", "judge", "judge_err", "ending"}
    BY DEF IInv, Counts
  <2>2. /\ Undisturbed(s) /\ UNCHANGED <<conf, odd>> /\ ss[s].pc = "wwrite"
        /\ Follows(ss'[s], ss[s].then) /\ ss'[s].pos = ss[s].pos
        /\ ~ss[s].dele => ~ss'[s].dele
    BY <1>1, quotatab_writeEffect
  <2> QED BY <2>1, <2>2 DEF Follows
<1>3. ASSUME Exact'  PROVE Tallies' /\ OwnRecord'
  <2>1. Exact /\ Serial
    BY <1>2, <1>3, ExactIsSerial DEF Exact
  <2>2. Tallies /\ OwnRecord
    BY <2>1 DEF TallyInv
  <2> PICK k, u, r : k = ss[s].pos /\ u = UserOf[s] /\ r = Bumped(table[ss[s].pos], ss[s].inc)
    OBVIOUS
  <2>3. /\ k \in 1 .. Len(table) /\ u \in Users /\ table[k].user = u
        /\ ~ss[s].dele /\ ss[s].inc \in Increment
        /\ table' = [table EXCEPT ![k] = r] /\ due' = [due EXCEPT ![u] = Bumped(@, ss[s].inc)]
    BY <2>1, WriteUpdates
  <2>4. r \in Record /\ r.user = u
    BY <1>1, <2>3, BumpedRecord
  <2>5. /\ Len(table') = Len(table) /\ table'[k] = r
        /\ \A i \in 1 .. Len(table) : i # k => table'[i] = table[i]
    BY <1>1, <2>3, <2>4
  <2>6. due[u] = table[k]
    BY <2>2, <2>3 DEF Tallies
  <2>7. due'[u] = r /\ \A v \in Users \ {u} : due'[v] = due[v]
    BY <1>1, <2>3, <2>6
  <2>8. \A i \in 1 .. Len(table) : table'[i].user = table[i].user
    BY <2>3, <2>4, <2>5
  <2>9. ASSUME NEW i \in 1 .. Len(table)  PROVE table[i].user \in Users
    <3>1. table[i] \in Record
      BY <1>1
    <3> QED BY <3>1 DEF Record
  <2>10. \A i, j \in 1 .. Len(table') : table'[i].user = table'[j].user => i = j
    BY <2>2, <2>5, <2>8 DEF Tallies
  <2>11. ASSUME NEW i \in 1 .. Len(table')  PROVE table'[i] = due'[table'[i].user]
    <3>1. CASE i = k
      BY <2>4, <2>5, <2>7, <3>1
    <3>2. CASE i # k
      <4>1. table'[i] = table[i] /\ table[i].user # u /\ table[i].user \in Users
        BY <2>2, <2>3, <2>5, <2>9, <3>2 DEF Tallies
      <4> QED BY <2>2, <2>5, <2>7, <4>1 DEF Tallies
    <3> QED BY <3>1, <3>2
  <2>12. ASSUME NEW v \in Users, Recorded(v)' = {}  PROVE due'[v] = Zero(v)
    <3>1. v # u
      BY <2>3, <2>4, <2>5, <2>12 DEF Recorded
    <3>2. Recorded(v) = {}
      BY <2>5, <2>8, <2>12 DEF Recorded
    <3> QED BY <2>2, <2>7, <3>1, <3>2 DEF Tallies
  <2>13. ASSUME NEW t \in Sessions  PROVE OwnAt(t)'
    <3>1. UserOf' = UserOf
      BY <1>2 DEF UserOf
    <3>2. CASE t = s
      BY <1>2, <2>3, <2>4, <2>5, <3>1, <3>2 DEF OwnAt
    <3>3. CASE t # s
      <4>1. OwnAt(t) /\ (ss[t].pc \notin Recordless => ss[t].pos \in 1 .. Len(table))
        BY <2>1, <2>2 DEF OwnRecord, IInv, Placed
      <4>2. /\ ss'[t].pc = ss[t].pc /\ ss'[t].pos = ss[t].pos
            /\ ss'[t].tally = ss[t].tally /\ ss'[t].dele = ss[t].dele
        BY <1>2, <3>3 DEF Undisturbed
      <4>3. ss[t].pc = "wwrite" => ss[t].pc \notin Recordless /\ ss[t].pos # k
        <5> SUFFICES ASSUME ss[t].pc = "wwrite", ss[t].pos = k  PROVE FALSE
          BY DEF Recordless
        <5>1. ss[t].wc = 1 /\ ss[s].wc = 1
          BY <1>2 DEF IInv, Counts
        <5> PICK l, m : /\ l = [by |-> t, at |-> k, mode |-> "w"]
                        /\ m = [by |-> s, at |-> k, mode |-> "w"]
          OBVIOUS
        <5>2. l \in locks /\ m \in locks
          BY <2>1, <5>1 DEF IInv, LocksCounted
        <5>3. l.by = t /\ m.by = s /\ l.at = m.at /\ l.mode = "w"
          OBVIOUS
        <5> QED BY <3>3, <5>2, <5>3 DEF IInv, LocksAgree
      <4> QED BY <2>5, <2>8, <3>1, <4>1, <4>2, <4>3 DEF OwnAt
    <3> QED BY <3>2, <3>3
  <2> QED BY <2>10, <2>11, <2>12, <2>13 DEF Tallies, OwnRecord
<1> QED BY <1>2, <1>3 DEF TallyInv

(* At first every tally is what is due.                                    *)
LEMMA InitTallies ==
  ASSUME Init, OneRecordEach  PROVE TallyInv
<1>1. /\ TypeOK /\ odd = {} /\ table \in FirstTables
      /\ due = [u \in Users |->
                IF Recorded(u) = {} THEN Zero(u) ELSE table[FirstRecord(u)]]
  BY InitTypes DEF Init
<1>2. \A i, j \in 1 .. Len(table) : table[i].user = table[j].user => i = j
  BY <1>1 DEF OneRecordEach
<1>3. ASSUME NEW i \in 1 .. Len(table)  PROVE table[i] = due[table[i].user]
  <2> PICK u : u = table[i].user
    OBVIOUS
  <2>1. u \in Users /\ i \in Recorded(u)
    <3>1. table \in Seq(Record)
      BY <1>1 DEF TypeOK
    <3>2. table[i] \in Record
      BY <3>1
    <3> QED BY <3>2 DEF Record, Recorded
  <2>2. \A j \in Recorded(u) : j = i
    BY <1>2, <1>3 DEF Recorded
  <2>3. i <= i
    BY <1>1, <1>3 DEF TypeOK
  <2>4. \E j \in Recorded(u) : \A m \in Recorded(u) : j <= m
    BY <2>1, <2>2, <2>3
  <2>5. FirstRecord(u) \in Recorded(u)
    BY <2>4 DEF FirstRecord
  <2> QED BY <1>1, <2>1, <2>2, <2>5
<1>4. Tallies
  BY <1>1, <1>2, <1>3 DEF Tallies
<1>5. OwnRecord
  BY InitFresh DEF OwnRecord, OwnAt, Recordless
<1> QED BY <1>1, <1>4, <1>5 DEF TallyInv

(* Every step keeps the tallies.                                           *)
LEMMA NextTallies ==
  ASSUME IInv, TallyInv, [Next]_vars  PROVE TallyInv'
<1>1. CASE UNCHANGED vars
  BY <1>1
     DEF vars, TallyInv, Exact, Tallies, OwnRecord, OwnAt, Recorded, UserOf
<1>2. ASSUME NEW s \in Sessions,
        \/ LoginLock(s) \/ LoginLookup(s) \/ LoginDone(s)
        \/ CreateLock(s) \/ CreateFails(s) \/ filetab_create(s)
        \/ CreateUnlock(s)
        \/ ReadLock(s) \/ ReadGivesUp(s) \/ quotatab_read(s)
        \/ WriteLock(s) \/ WriteGivesUp(s) \/ quotatab_write(s)
        \/ Stor(s) \/ quotatab_pre_stor(s) \/ StorOpens(s)
        \/ quotatab_fsio_write(s) \/ StorEnds(s) \/ StorAborted(s)
        \/ quotatab_post_stor(s) \/ quotatab_post_stor_err(s)
        \/ Judge(s)
        \/ quotatab_pre_dele(s) \/ Dele(s) \/ quotatab_post_dele(s)
        \/ DeleMutex(s) \/ DeleLookup(s)
        \/ xfer_exit_ev(s) \/ quotatab_exit_ev(s) \/ Ends(s) \/ Killed(s)
      PROVE  TallyInv'
  BY <1>2, LoginLockTallies, LoginLookupTallies, CreateLockTallies,
     CreateFailsTallies, filetab_createTallies, CreateUnlockTallies,
     LoginDoneTallies, ReadLockTallies, ReadGivesUpTallies,
     quotatab_readTallies, WriteLockTallies, WriteGivesUpTallies,
     quotatab_writeTallies, StorTallies, quotatab_pre_storTallies,
     StorOpensTallies, quotatab_fsio_writeTallies, StorEndsTallies,
     StorAbortedTallies, quotatab_post_storTallies,
     quotatab_post_stor_errTallies, JudgeTallies,
     quotatab_pre_deleTallies, DeleTallies, quotatab_post_deleTallies,
     DeleMutexTallies, DeleLookupTallies, quotatab_exit_evTallies, xfer_exit_evTallies,
     EndsTallies, KilledTallies
<1> QED BY <1>1, <1>2 DEF Next

(* The tallies are exact in every state.                                   *)
LEMMA TalliesKept == OneRecordEach /\ Spec => []TallyInv
<1> SUFFICES ASSUME OneRecordEach  PROVE Spec => []TallyInv
  OBVIOUS
<1>1. Init => TallyInv
  BY InitTallies
<1>2. IInv /\ TallyInv /\ [Next]_vars => TallyInv'
  BY NextTallies
<1> QED BY <1>1, <1>2, Inductive, PTL DEF Spec

(* TallyExact: if no user has two records to begin with, then no update of *)
(* a tally is lost or made twice, whatever sessions of a user do at once.  *)
THEOREM NoUpdateLost == OneRecordEach /\ Spec => []TallyExact
<1>1. IInv /\ TallyInv => TallyExact
  <2> SUFFICES ASSUME IInv, TallyInv, Exact, NEW u \in Users
               PROVE  /\ Cardinality(Recorded(u)) <= 1
                      /\ \A i \in Recorded(u) : table[i] = due[u]
    BY DEF TallyExact, Exact
  <2>1. Tallies
    BY DEF TallyInv
  <2>2. \A i \in Recorded(u) : table[i] = due[u]
    BY <2>1 DEF Tallies, Recorded
  <2>3. CASE Recorded(u) = {}
    BY <2>3, <2>2, FS_EmptySet
  <2>4. CASE Recorded(u) # {}
    <3> PICK i \in Recorded(u) : TRUE
      BY <2>4
    <3>1. Recorded(u) = {i}
      BY <2>1 DEF Tallies, Recorded
    <3>2. Cardinality({i}) = 1
      BY FS_Singleton
    <3> QED BY <2>2, <3>1, <3>2
  <2> QED BY <2>3, <2>4
<1> QED BY <1>1, Inductive, TalliesKept, PTL

-----------------------------------------------------------------------------
(* The hard limit.                                                         *)

(* What a session is going to take back is a number of bytes.              *)
LEMMA TakesBackNat ==
  ASSUME NEW x, x.inc.b \in Int
  PROVE  TakesBack(x) \in Nat /\ (~Undoes(x) => TakesBack(x) = 0)
BY DEF TakesBack, Undoes

(* The sum over the sessions of a user that take something back is the sum *)
(* over the others among them and what the one given takes back.           *)
LEMMA SumSplits ==
  ASSUME NEW Sum \in [SUBSET Sessions -> Nat], Sums(Sum),
         NEW s \in Sessions, NEW u \in Users
  PROVE  /\ UserOf[s] = u =>
               Sum[Undoing(u)] = Sum[Undoing(u) \ {s}] + TakesBack(ss[s])
         /\ UserOf[s] # u => Sum[Undoing(u)] = Sum[Undoing(u) \ {s}]
<1>1. Undoing(u) \in SUBSET Sessions /\ Undoing(u) \ {s} \in SUBSET Sessions
  BY DEF Undoing
<1>2. CASE s \in Undoing(u)
  <2>1. UserOf[s] = u /\ Undoing(u) = (Undoing(u) \ {s}) \cup {s}
    BY <1>2 DEF Undoing
  <2>2. Sum[(Undoing(u) \ {s}) \cup {s}] = Sum[Undoing(u) \ {s}] + TakesBack(ss[s])
    <3> PICK Q : Q = Undoing(u) \ {s}
      OBVIOUS
    <3>1. Q \in SUBSET Sessions /\ s \in Sessions \ Q
      BY <1>1
    <3>2. Sum[Q \cup {s}] = Sum[Q] + TakesBack(ss[s])
      BY <3>1 DEF Sums
    <3> QED BY <3>2
  <2> QED BY <2>1, <2>2
<1>3. CASE s \notin Undoing(u)
  <2>1. Undoing(u) \ {s} = Undoing(u)
    BY <1>3
  <2>2. UserOf[s] = u => TakesBack(ss[s]) = 0
    BY <1>3 DEF Undoing, TakesBack
  <2>3. Sum[Undoing(u)] \in Nat
    BY <1>1
  <2>4. Sum[Undoing(u)] + 0 = Sum[Undoing(u)]
    BY <2>3
  <2> QED BY <2>1, <2>2, <2>4
<1> QED BY <1>2, <1>3

(* When one session goes on, the sums change by what it takes back.        *)
LEMMA SumsGoOn ==
  ASSUME TypeOK, TypeOK', NEW s \in Sessions, Undisturbed(s), UNCHANGED conf,
         NEW Sum \in [SUBSET Sessions -> Nat], Sums(Sum)
  PROVE  \E Aft \in [SUBSET Sessions -> Nat] :
            /\ Sums(Aft)'
            /\ \A u \in Users :
                  /\ UserOf[s] = u =>
                        /\ Sum[Undoing(u)] = Sum[Undoing(u) \ {s}] + TakesBack(ss[s])
                        /\ Aft[Undoing(u)'] = Sum[Undoing(u) \ {s}] + TakesBack(ss[s])'
                        /\ Sum[Undoing(u) \ {s}] \in Nat
                  /\ UserOf[s] # u => Aft[Undoing(u)'] = Sum[Undoing(u)]
<1>1. \A t \in Sessions : ss[t].inc.b \in Int /\ ss'[t].inc.b \in Int
  BY DEF TypeOK, Session, Increment
<1> PICK w : w = TakesBack(ss[s])'
  OBVIOUS
<1>2. w \in Nat
  BY <1>1 DEF TakesBack
<1> PICK Aft : Aft = [Q \in SUBSET Sessions |->
                        IF s \in Q THEN Sum[Q \ {s}] + w ELSE Sum[Q]]
  OBVIOUS
<1>3. Aft \in [SUBSET Sessions -> Nat]
  BY <1>2
<1>4. \A t \in Sessions \ {s} : TakesBack(ss[t])' = TakesBack(ss[t]) /\ (Undoes(ss[t])' <=> Undoes(ss[t]))
  BY DEF Undisturbed, TakesBack, Undoes
<1>5. Sums(Aft)'
  <2>1. Aft[{}] = 0
    BY DEF Sums
  <2>2. ASSUME NEW Q \in SUBSET Sessions, NEW t \in Sessions \ Q
        PROVE  Aft[Q \cup {t}] = Aft[Q] + TakesBack(ss[t])'
    <3>1. Q \cup {t} \in SUBSET Sessions /\ Q \ {s} \in SUBSET Sessions
      OBVIOUS
    <3>2. CASE t = s
      <4>1. (Q \cup {t}) \ {s} = Q
        BY <3>2
      <4> QED BY <3>1, <3>2, <4>1
    <3>3. CASE t # s /\ s \in Q
      <4>1. (Q \cup {t}) \ {s} = (Q \ {s}) \cup {t}
        BY <3>3
      <4> PICK R : R = Q \ {s}
        OBVIOUS
      <4>2. Sum[R \cup {t}] = Sum[R] + TakesBack(ss[t])
        BY <3>1 DEF Sums
      <4>3. Aft[Q \cup {t}] = Sum[R \cup {t}] + w /\ Aft[Q] = Sum[R] + w
        BY <3>1, <3>3, <4>1
      <4>4. Sum[R] \in Nat /\ TakesBack(ss[t]) \in Nat /\ TakesBack(ss[t])' = TakesBack(ss[t])
        BY <1>1, <1>4, <3>1, <3>3, TakesBackNat
      <4> QED BY <1>2, <4>2, <4>3, <4>4
    <3>4. CASE t # s /\ s \notin Q
      <4>1. Sum[Q \cup {t}] = Sum[Q] + TakesBack(ss[t])
        BY DEF Sums
      <4>2. Aft[Q \cup {t}] = Sum[Q \cup {t}] /\ Aft[Q] = Sum[Q]
        BY <3>1, <3>4
      <4> QED BY <1>4, <3>4, <4>1, <4>2
    <3> QED BY <3>2, <3>3, <3>4
  <2> QED BY <2>1, <2>2 DEF Sums
<1>6. ASSUME NEW u \in Users
      PROVE  /\ UserOf[s] = u =>
                   /\ Sum[Undoing(u)] = Sum[Undoing(u) \ {s}] + TakesBack(ss[s])
                   /\ Aft[Undoing(u)'] = Sum[Undoing(u) \ {s}] + w
                   /\ Sum[Undoing(u) \ {s}] \in Nat
             /\ UserOf[s] # u => Aft[Undoing(u)'] = Sum[Undoing(u)]
  <2>1. UserOf' = UserOf
    BY DEF UserOf
  <2> PICK A, B : A = Undoing(u) /\ B = Undoing(u)'
    OBVIOUS
  <2>2. /\ A \in SUBSET Sessions /\ B \in SUBSET Sessions
        /\ A \ {s} \in SUBSET Sessions
    BY DEF Undoing
  <2>3. A \ {s} = B \ {s}
    BY <1>4, <2>1 DEF Undoing
  <2>4. /\ UserOf[s] = u => Sum[A] = Sum[A \ {s}] + TakesBack(ss[s])
        /\ UserOf[s] # u => Sum[A] = Sum[A \ {s}]
    BY SumSplits
  <2>5. s \in B => UserOf[s] = u
    BY <2>1 DEF Undoing
  <2>6. s \notin B /\ UserOf[s] = u => w = 0
    BY <2>1 DEF Undoing, TakesBack
  <2>7. Aft[B] = IF s \in B THEN Sum[A \ {s}] + w ELSE Sum[A \ {s}]
    <3>1. s \notin B => B = A \ {s}
      BY <2>3
    <3> QED BY <2>2, <2>3, <3>1
  <2>8. Sum[A \ {s}] \in Nat
    BY <2>2
  <2> QED BY <1>2, <2>4, <2>5, <2>6, <2>7, <2>8
<1> QED BY <1>3, <1>5, <1>6

(* The limit is exceeded by no more than is taken back, when a session goes *)
(* on and the table stays.                                                 *)
LEMMA HardStays ==
  ASSUME IInv, IInv', HardInv, NEW s \in Sessions, Undisturbed(s),
         UNCHANGED <<conf, table>>, odd \subseteq odd', Planned(s)',
         conf.hard /\ odd' = {} => TakesBack(ss[s]) <= TakesBack(ss[s])'
  PROVE  HardInv'
<1>1. TypeOK /\ TypeOK'
  BY DEF IInv
<1>2. ASSUME NEW t \in Sessions  PROVE Planned(t)'
  <2>1. CASE t = s
    BY <2>1
  <2>2. CASE t # s
    BY <2>2 DEF HardInv, Planned, Undisturbed
  <2> QED BY <2>1, <2>2
<1>3. ASSUME conf'.hard, odd' = {}
      PROVE  \E Aft \in [SUBSET Sessions -> Nat] : Sums(Aft)' /\ Exceeding(Aft)'
  <2>1. conf.hard /\ odd = {}
    BY <1>3
  <2>2. PICK Sum \in [SUBSET Sessions -> Nat] : Sums(Sum) /\ Exceeding(Sum)
    BY <2>1 DEF HardInv
  <2>3. PICK Aft \in [SUBSET Sessions -> Nat] :
            /\ Sums(Aft)'
            /\ \A u \in Users :
                  /\ UserOf[s] = u =>
                        /\ Sum[Undoing(u)] = Sum[Undoing(u) \ {s}] + TakesBack(ss[s])
                        /\ Aft[Undoing(u)'] = Sum[Undoing(u) \ {s}] + TakesBack(ss[s])'
                        /\ Sum[Undoing(u) \ {s}] \in Nat
                  /\ UserOf[s] # u => Aft[Undoing(u)'] = Sum[Undoing(u)]
    BY <1>1, <2>2, SumsGoOn
  <2>4. ASSUME NEW i \in 1 .. Len(table)
        PROVE  table[i].b <= BytesAvail + Aft[Undoing(table[i].user)']
    <3> PICK u, b : u = table[i].user /\ b = table[i].b
      OBVIOUS
    <3>1. table[i] \in Record
      BY <1>1 DEF TypeOK
    <3>2. u \in Users /\ b \in Nat /\ BytesAvail \in Nat
      BY <3>1, QuotaAssumption DEF Record
    <3>3. b <= BytesAvail + Sum[Undoing(u)]
      BY <2>2 DEF Exceeding
    <3>4. Undoing(u) \in SUBSET Sessions /\ Undoing(u)' \in SUBSET Sessions
      BY DEF Undoing
    <3>5. Sum[Undoing(u)] \in Nat /\ Aft[Undoing(u)'] \in Nat
      BY <3>4
    <3>6. ss[s].inc.b \in Int /\ ss'[s].inc.b \in Int
      BY <1>1 DEF TypeOK, Session, Increment
    <3>7. TakesBack(ss[s]) \in Nat /\ TakesBack(ss[s])' \in Nat
      BY <3>6 DEF TakesBack
    <3>8. Sum[Undoing(u)] <= Aft[Undoing(u)']
      <4>1. TakesBack(ss[s]) <= TakesBack(ss[s])'
        BY <1>3, <2>1
      <4>2. CASE UserOf[s] = u
        <5> PICK r, v, w : r = Sum[Undoing(u) \ {s}] /\ v = TakesBack(ss[s]) /\ w = TakesBack(ss[s])'
          OBVIOUS
        <5>1. Sum[Undoing(u)] = r + v /\ Aft[Undoing(u)'] = r + w /\ r \in Nat
          BY <2>3, <3>2, <4>2
        <5> QED BY <3>7, <4>1, <5>1
      <4>3. CASE UserOf[s] # u
        <5>1. Aft[Undoing(u)'] = Sum[Undoing(u)]
          BY <2>3, <3>2, <4>3
        <5> QED BY <3>5, <5>1
      <4> QED BY <4>2, <4>3
    <3> QED BY <3>2, <3>3, <3>5, <3>8
  <2>5. Exceeding(Aft)'
    BY <2>4 DEF Exceeding
  <2> QED BY <2>3, <2>5
<1> QED BY <1>2, <1>3 DEF HardInv

(* The limit after taking QuotaLock at login.                              *)
LEMMA LoginLockWithin ==
  ASSUME IInv, IInv', HardInv, NEW s \in Sessions, LoginLock(s)
  PROVE  HardInv'
<1>1. /\ TypeOK /\ Planned(s) /\ ss[s].inc.b \in Int /\ ss'[s].inc.b \in Int
      /\ ss[s].nb \in Nat
      /\ ss[s].wc \in {0, 1} /\ (ss[s].pc = "wlock" => ss[s].wc = 0)
  BY DEF IInv, HardInv, TypeOK, Session, Increment, Counts
<1>2. Planned(s)'
  BY <1>1, LoginLockEffect DEF Planned, KeepsWrite, Rests, Intends
<1>3. conf.hard /\ odd' = {} => TakesBack(ss[s]) <= TakesBack(ss[s])'
  BY <1>1, LoginLockEffect
     DEF TakesBack, Undoes, KeepsPlace, KeepsTally, KeepsWrite, Rests, Intends
<1>4. Undisturbed(s) /\ UNCHANGED <<conf, table>> /\ odd \subseteq odd'
  BY <1>1, LoginLockEffect
<1> QED BY <1>2, <1>3, <1>4, HardStays

(* The limit after the lookup of the user's record.                        *)
LEMMA LoginLookupWithin ==
  ASSUME IInv, IInv', HardInv, NEW s \in Sessions, LoginLookup(s)
  PROVE  HardInv'
<1>1. /\ TypeOK /\ Planned(s) /\ ss[s].inc.b \in Int /\ ss'[s].inc.b \in Int
      /\ ss[s].nb \in Nat
      /\ ss[s].wc \in {0, 1} /\ (ss[s].pc = "wlock" => ss[s].wc = 0)
  BY DEF IInv, HardInv, TypeOK, Session, Increment, Counts
<1>2. Planned(s)'
  BY <1>1, LoginLookupEffect DEF Planned, KeepsWrite, Rests, Intends
<1>3. conf.hard /\ odd' = {} => TakesBack(ss[s]) <= TakesBack(ss[s])'
  BY <1>1, LoginLookupEffect
     DEF TakesBack, Undoes, KeepsPlace, KeepsTally, KeepsWrite, Rests, Intends
<1>4. Undisturbed(s) /\ UNCHANGED <<conf, table>> /\ odd \subseteq odd'
  BY <1>1, LoginLookupEffect
<1> QED BY <1>2, <1>3, <1>4, HardStays

(* The limit after the lock of quotatab_create.                            *)
LEMMA CreateLockWithin ==
  ASSUME IInv, IInv', HardInv, NEW s \in Sessions, CreateLock(s)
  PROVE  HardInv'
<1>1. /\ TypeOK /\ Planned(s) /\ ss[s].inc.b \in Int /\ ss'[s].inc.b \in Int
      /\ ss[s].nb \in Nat
      /\ ss[s].wc \in {0, 1} /\ (ss[s].pc = "wlock" => ss[s].wc = 0)
  BY DEF IInv, HardInv, TypeOK, Session, Increment, Counts
<1>2. Planned(s)'
  BY <1>1, CreateLockEffect DEF Planned, KeepsWrite, Rests, Intends
<1>3. conf.hard /\ odd' = {} => TakesBack(ss[s]) <= TakesBack(ss[s])'
  BY <1>1, CreateLockEffect
     DEF TakesBack, Undoes, KeepsPlace, KeepsTally, KeepsWrite, Rests, Intends
<1>4. Undisturbed(s) /\ UNCHANGED <<conf, table>> /\ odd \subseteq odd'
  BY <1>1, CreateLockEffect
<1> QED BY <1>2, <1>3, <1>4, HardStays

(* The limit after a record that cannot be locked.                         *)
LEMMA CreateFailsWithin ==
  ASSUME IInv, IInv', HardInv, NEW s \in Sessions, CreateFails(s)
  PROVE  HardInv'
<1>1. /\ TypeOK /\ Planned(s) /\ ss[s].inc.b \in Int /\ ss'[s].inc.b \in Int
      /\ ss[s].nb \in Nat
      /\ ss[s].wc \in {0, 1} /\ (ss[s].pc = "wlock" => ss[s].wc = 0)
  BY DEF IInv, HardInv, TypeOK, Session, Increment, Counts
<1>2. Planned(s)'
  BY <1>1, CreateFailsEffect DEF Planned, KeepsWrite, Rests, Intends
<1>3. conf.hard /\ odd' = {} => TakesBack(ss[s]) <= TakesBack(ss[s])'
  BY <1>1, CreateFailsEffect
     DEF TakesBack, Undoes, KeepsPlace, KeepsTally, KeepsWrite, Rests, Intends
<1>4. Undisturbed(s) /\ UNCHANGED <<conf, table>> /\ odd \subseteq odd'
  BY <1>1, CreateFailsEffect
<1> QED BY <1>2, <1>3, <1>4, HardStays

(* The limit after giving back the lock of quotatab_create.                *)
LEMMA CreateUnlockWithin ==
  ASSUME IInv, IInv', HardInv, NEW s \in Sessions, CreateUnlock(s)
  PROVE  HardInv'
<1>1. /\ TypeOK /\ Planned(s) /\ ss[s].inc.b \in Int /\ ss'[s].inc.b \in Int
      /\ ss[s].nb \in Nat
      /\ ss[s].wc \in {0, 1} /\ (ss[s].pc = "wlock" => ss[s].wc = 0)
  BY DEF IInv, HardInv, TypeOK, Session, Increment, Counts
<1>2. Planned(s)'
  BY <1>1, CreateUnlockEffect DEF Planned, KeepsWrite, Rests, Intends
<1>3. conf.hard /\ odd' = {} => TakesBack(ss[s]) <= TakesBack(ss[s])'
  BY <1>1, CreateUnlockEffect
     DEF TakesBack, Undoes, KeepsPlace, KeepsTally, KeepsWrite, Rests, Intends
<1>4. Undisturbed(s) /\ UNCHANGED <<conf, table>> /\ odd \subseteq odd'
  BY <1>1, CreateUnlockEffect
<1> QED BY <1>2, <1>3, <1>4, HardStays

(* The limit after the end of the login.                                   *)
LEMMA LoginDoneWithin ==
  ASSUME IInv, IInv', HardInv, NEW s \in Sessions, LoginDone(s)
  PROVE  HardInv'
<1>1. /\ TypeOK /\ Planned(s) /\ ss[s].inc.b \in Int /\ ss'[s].inc.b \in Int
      /\ ss[s].nb \in Nat
      /\ ss[s].wc \in {0, 1} /\ (ss[s].pc = "wlock" => ss[s].wc = 0)
  BY DEF IInv, HardInv, TypeOK, Session, Increment, Counts
<1>2. Planned(s)'
  BY <1>1, LoginDoneEffect DEF Planned, KeepsWrite, Rests, Intends
<1>3. conf.hard /\ odd' = {} => TakesBack(ss[s]) <= TakesBack(ss[s])'
  BY <1>1, LoginDoneEffect
     DEF TakesBack, Undoes, KeepsPlace, KeepsTally, KeepsWrite, Rests, Intends
<1>4. Undisturbed(s) /\ UNCHANGED <<conf, table>> /\ odd \subseteq odd'
  BY <1>1, LoginDoneEffect
<1> QED BY <1>2, <1>3, <1>4, HardStays

(* The limit after the lock of quotatab_read.                              *)
LEMMA ReadLockWithin ==
  ASSUME IInv, IInv', HardInv, NEW s \in Sessions, ReadLock(s)
  PROVE  HardInv'
<1>1. /\ TypeOK /\ Planned(s) /\ ss[s].inc.b \in Int /\ ss'[s].inc.b \in Int
      /\ ss[s].nb \in Nat
      /\ ss[s].wc \in {0, 1} /\ (ss[s].pc = "wlock" => ss[s].wc = 0)
  BY DEF IInv, HardInv, TypeOK, Session, Increment, Counts
<1>2. Planned(s)'
  BY <1>1, ReadLockEffect DEF Planned, KeepsWrite, Rests, Intends
<1>3. conf.hard /\ odd' = {} => TakesBack(ss[s]) <= TakesBack(ss[s])'
  BY <1>1, ReadLockEffect
     DEF TakesBack, Undoes, KeepsPlace, KeepsTally, KeepsWrite, Rests, Intends
<1>4. Undisturbed(s) /\ UNCHANGED <<conf, table>> /\ odd \subseteq odd'
  BY <1>1, ReadLockEffect
<1> QED BY <1>2, <1>3, <1>4, HardStays

(* The limit after a read without the lock.                                *)
LEMMA ReadGivesUpWithin ==
  ASSUME IInv, IInv', HardInv, NEW s \in Sessions, ReadGivesUp(s)
  PROVE  HardInv'
<1>1. /\ TypeOK /\ Planned(s) /\ ss[s].inc.b \in Int /\ ss'[s].inc.b \in Int
      /\ ss[s].nb \in Nat
      /\ ss[s].wc \in {0, 1} /\ (ss[s].pc = "wlock" => ss[s].wc = 0)
  BY DEF IInv, HardInv, TypeOK, Session, Increment, Counts
<1>2. Planned(s)'
  BY <1>1, ReadGivesUpEffect DEF Planned, KeepsWrite, Rests, Intends
<1>3. conf.hard /\ odd' = {} => TakesBack(ss[s]) <= TakesBack(ss[s])'
  BY <1>1, ReadGivesUpEffect
     DEF TakesBack, Undoes, KeepsPlace, KeepsTally, KeepsWrite, Rests, Intends
<1>4. Undisturbed(s) /\ UNCHANGED <<conf, table>> /\ odd \subseteq odd'
  BY <1>1, ReadGivesUpEffect
<1> QED BY <1>2, <1>3, <1>4, HardStays

(* The limit after reading the record.                                     *)
LEMMA quotatab_readWithin ==
  ASSUME IInv, IInv', HardInv, NEW s \in Sessions, quotatab_read(s)
  PROVE  HardInv'
<1>1. /\ TypeOK /\ Planned(s) /\ ss[s].inc.b \in Int /\ ss'[s].inc.b \in Int
      /\ ss[s].nb \in Nat
      /\ ss[s].wc \in {0, 1} /\ (ss[s].pc = "wlock" => ss[s].wc = 0)
  BY DEF IInv, HardInv, TypeOK, Session, Increment, Counts
<1>2. Planned(s)'
  BY <1>1, quotatab_readEffect DEF Planned, KeepsWrite, Rests, Intends, Back
<1>3. conf.hard /\ odd' = {} => TakesBack(ss[s]) <= TakesBack(ss[s])'
  BY <1>1, quotatab_readEffect
     DEF TakesBack, Undoes, KeepsPlace, KeepsTally, KeepsWrite, Rests, Intends, Back
<1>4. Undisturbed(s) /\ UNCHANGED <<conf, table>> /\ odd \subseteq odd'
  BY <1>1, quotatab_readEffect
<1> QED BY <1>2, <1>3, <1>4, HardStays

(* The limit after the lock of quotatab_write.                             *)
LEMMA WriteLockWithin ==
  ASSUME IInv, IInv', HardInv, NEW s \in Sessions, WriteLock(s)
  PROVE  HardInv'
<1>1. /\ TypeOK /\ Planned(s) /\ ss[s].inc.b \in Int /\ ss'[s].inc.b \in Int
      /\ ss[s].nb \in Nat
      /\ ss[s].wc \in {0, 1} /\ (ss[s].pc = "wlock" => ss[s].wc = 0)
  BY DEF IInv, HardInv, TypeOK, Session, Increment, Counts
<1>2. Planned(s)'
  BY <1>1, WriteLockEffect DEF Planned, KeepsWrite, Rests, Intends
<1>3. conf.hard /\ odd' = {} => TakesBack(ss[s]) <= TakesBack(ss[s])'
  BY <1>1, WriteLockEffect
     DEF TakesBack, Undoes, KeepsPlace, KeepsTally, KeepsWrite, Rests, Intends
<1>4. Undisturbed(s) /\ UNCHANGED <<conf, table>> /\ odd \subseteq odd'
  BY <1>1, WriteLockEffect
<1> QED BY <1>2, <1>3, <1>4, HardStays

(* The limit after a write that is given up.                               *)
LEMMA WriteGivesUpWithin ==
  ASSUME IInv, IInv', HardInv, NEW s \in Sessions, WriteGivesUp(s)
  PROVE  HardInv'
<1>1. /\ TypeOK /\ Planned(s) /\ ss[s].inc.b \in Int /\ ss'[s].inc.b \in Int
      /\ ss[s].nb \in Nat
      /\ ss[s].wc \in {0, 1} /\ (ss[s].pc = "wlock" => ss[s].wc = 0)
  BY DEF IInv, HardInv, TypeOK, Session, Increment, Counts
<1>2. Planned(s)'
  BY <1>1, WriteGivesUpEffect DEF Planned, KeepsWrite, Rests, Intends, Follows
<1>3. conf.hard /\ odd' = {} => TakesBack(ss[s]) <= TakesBack(ss[s])'
  BY <1>1, WriteGivesUpEffect
     DEF TakesBack, Undoes, KeepsPlace, KeepsTally, KeepsWrite, Rests, Intends, Follows
<1>4. Undisturbed(s) /\ UNCHANGED <<conf, table>> /\ odd \subseteq odd'
  BY <1>1, WriteGivesUpEffect
<1> QED BY <1>2, <1>3, <1>4, HardStays

(* The limit after STOR.                                                   *)
LEMMA StorWithin ==
  ASSUME IInv, IInv', HardInv, NEW s \in Sessions, Stor(s)
  PROVE  HardInv'
<1>1. /\ TypeOK /\ Planned(s) /\ ss[s].inc.b \in Int /\ ss'[s].inc.b \in Int
      /\ ss[s].nb \in Nat
      /\ ss[s].wc \in {0, 1} /\ (ss[s].pc = "wlock" => ss[s].wc = 0)
  BY DEF IInv, HardInv, TypeOK, Session, Increment, Counts
<1>2. Planned(s)'
  BY <1>1, StorEffect DEF Planned, KeepsWrite, Rests, Intends
<1>3. conf.hard /\ odd' = {} => TakesBack(ss[s]) <= TakesBack(ss[s])'
  BY <1>1, StorEffect
     DEF TakesBack, Undoes, KeepsPlace, KeepsTally, KeepsWrite, Rests, Intends
<1>4. Undisturbed(s) /\ UNCHANGED <<conf, table>> /\ odd \subseteq odd'
  BY <1>1, StorEffect
<1> QED BY <1>2, <1>3, <1>4, HardStays

(* The limit after the check before an upload.                             *)
LEMMA quotatab_pre_storWithin ==
  ASSUME IInv, IInv', HardInv, NEW s \in Sessions, quotatab_pre_stor(s)
  PROVE  HardInv'
<1>1. /\ TypeOK /\ Planned(s) /\ ss[s].inc.b \in Int /\ ss'[s].inc.b \in Int
      /\ ss[s].nb \in Nat
      /\ ss[s].wc \in {0, 1} /\ (ss[s].pc = "wlock" => ss[s].wc = 0)
  BY DEF IInv, HardInv, TypeOK, Session, Increment, Counts
<1>2. Planned(s)'
  BY <1>1, quotatab_pre_storEffect DEF Planned, KeepsWrite, Rests, Intends
<1>3. conf.hard /\ odd' = {} => TakesBack(ss[s]) <= TakesBack(ss[s])'
  BY <1>1, quotatab_pre_storEffect
     DEF TakesBack, Undoes, KeepsPlace, KeepsTally, KeepsWrite, Rests, Intends
<1>4. Undisturbed(s) /\ UNCHANGED <<conf, table>> /\ odd \subseteq odd'
  BY <1>1, quotatab_pre_storEffect
<1> QED BY <1>2, <1>3, <1>4, HardStays

(* The limit after opening the file.                                       *)
LEMMA StorOpensWithin ==
  ASSUME IInv, IInv', HardInv, NEW s \in Sessions, StorOpens(s)
  PROVE  HardInv'
<1>1. /\ TypeOK /\ Planned(s) /\ ss[s].inc.b \in Int /\ ss'[s].inc.b \in Int
      /\ ss[s].nb \in Nat
      /\ ss[s].wc \in {0, 1} /\ (ss[s].pc = "wlock" => ss[s].wc = 0)
  BY DEF IInv, HardInv, TypeOK, Session, Increment, Counts
<1>2. Planned(s)'
  BY <1>1, StorOpensEffect DEF Planned, KeepsWrite, Rests, Intends
<1>3. conf.hard /\ odd' = {} => TakesBack(ss[s]) <= TakesBack(ss[s])'
  BY <1>1, StorOpensEffect
     DEF TakesBack, Undoes, KeepsPlace, KeepsTally, KeepsWrite, Rests, Intends
<1>4. Undisturbed(s) /\ UNCHANGED <<conf, table>> /\ odd \subseteq odd'
  BY <1>1, StorOpensEffect
<1> QED BY <1>2, <1>3, <1>4, HardStays

(* The limit after a chunk of the upload.                                  *)
LEMMA quotatab_fsio_writeWithin ==
  ASSUME IInv, IInv', HardInv, NEW s \in Sessions, quotatab_fsio_write(s)
  PROVE  HardInv'
<1>1. /\ TypeOK /\ Planned(s) /\ ss[s].inc.b \in Int /\ ss'[s].inc.b \in Int
      /\ ss[s].nb \in Nat
      /\ ss[s].wc \in {0, 1} /\ (ss[s].pc = "wlock" => ss[s].wc = 0)
  BY DEF IInv, HardInv, TypeOK, Session, Increment, Counts
<1>2. Planned(s)'
  BY <1>1, quotatab_fsio_writeEffect DEF Planned, KeepsWrite, Rests, Intends
<1>3. conf.hard /\ odd' = {} => TakesBack(ss[s]) <= TakesBack(ss[s])'
  BY <1>1, quotatab_fsio_writeEffect
     DEF TakesBack, Undoes, KeepsPlace, KeepsTally, KeepsWrite, Rests, Intends
<1>4. Undisturbed(s) /\ UNCHANGED <<conf, table>> /\ odd \subseteq odd'
  BY <1>1, quotatab_fsio_writeEffect
<1> QED BY <1>2, <1>3, <1>4, HardStays

(* The limit after the end of the data.                                    *)
LEMMA StorEndsWithin ==
  ASSUME IInv, IInv', HardInv, NEW s \in Sessions, StorEnds(s)
  PROVE  HardInv'
<1>1. /\ TypeOK /\ Planned(s) /\ ss[s].inc.b \in Int /\ ss'[s].inc.b \in Int
      /\ ss[s].nb \in Nat
      /\ ss[s].wc \in {0, 1} /\ (ss[s].pc = "wlock" => ss[s].wc = 0)
  BY DEF IInv, HardInv, TypeOK, Session, Increment, Counts
<1>2. Planned(s)'
  BY <1>1, StorEndsEffect DEF Planned, KeepsWrite, Rests, Intends
<1>3. conf.hard /\ odd' = {} => TakesBack(ss[s]) <= TakesBack(ss[s])'
  BY <1>1, StorEndsEffect
     DEF TakesBack, Undoes, KeepsPlace, KeepsTally, KeepsWrite, Rests, Intends
<1>4. Undisturbed(s) /\ UNCHANGED <<conf, table>> /\ odd \subseteq odd'
  BY <1>1, StorEndsEffect
<1> QED BY <1>2, <1>3, <1>4, HardStays

(* The limit after an upload that is aborted and removed.                  *)
LEMMA StorAbortedWithin ==
  ASSUME IInv, IInv', HardInv, NEW s \in Sessions, StorAborted(s)
  PROVE  HardInv'
<1>1. /\ TypeOK /\ Planned(s) /\ ss[s].inc.b \in Int /\ ss'[s].inc.b \in Int
      /\ ss[s].nb \in Nat
      /\ ss[s].wc \in {0, 1} /\ (ss[s].pc = "wlock" => ss[s].wc = 0)
  BY DEF IInv, HardInv, TypeOK, Session, Increment, Counts
<1>2. Planned(s)'
  BY <1>1, StorAbortedEffect DEF Planned, KeepsWrite, Rests, Intends
<1>3. conf.hard /\ odd' = {} => TakesBack(ss[s]) <= TakesBack(ss[s])'
  BY <1>1, StorAbortedEffect
     DEF TakesBack, Undoes, KeepsPlace, KeepsTally, KeepsWrite, Rests, Intends
<1>4. Undisturbed(s) /\ UNCHANGED <<conf, table>> /\ odd \subseteq odd'
  BY <1>1, StorAbortedEffect
<1> QED BY <1>2, <1>3, <1>4, HardStays

(* The limit after quotatab_post_stor.                                     *)
LEMMA quotatab_post_storWithin ==
  ASSUME IInv, IInv', HardInv, NEW s \in Sessions, quotatab_post_stor(s)
  PROVE  HardInv'
<1>1. /\ TypeOK /\ Planned(s) /\ ss[s].inc.b \in Int /\ ss'[s].inc.b \in Int
      /\ ss[s].nb \in Nat
      /\ ss[s].wc \in {0, 1} /\ (ss[s].pc = "wlock" => ss[s].wc = 0)
  BY DEF IInv, HardInv, TypeOK, Session, Increment, Counts
<1>2. Planned(s)'
  BY <1>1, quotatab_post_storEffect DEF Planned, KeepsWrite, Rests, Intends
<1>3. conf.hard /\ odd' = {} => TakesBack(ss[s]) <= TakesBack(ss[s])'
  BY <1>1, quotatab_post_storEffect
     DEF TakesBack, Undoes, KeepsPlace, KeepsTally, KeepsWrite, Rests, Intends
<1>4. Undisturbed(s) /\ UNCHANGED <<conf, table>> /\ odd \subseteq odd'
  BY <1>1, quotatab_post_storEffect
<1> QED BY <1>2, <1>3, <1>4, HardStays

(* The limit after quotatab_post_stor_err.                                 *)
LEMMA quotatab_post_stor_errWithin ==
  ASSUME IInv, IInv', HardInv, NEW s \in Sessions, quotatab_post_stor_err(s)
  PROVE  HardInv'
<1>1. /\ TypeOK /\ Planned(s) /\ ss[s].inc.b \in Int /\ ss'[s].inc.b \in Int
      /\ ss[s].nb \in Nat
      /\ ss[s].wc \in {0, 1} /\ (ss[s].pc = "wlock" => ss[s].wc = 0)
  BY DEF IInv, HardInv, TypeOK, Session, Increment, Counts
<1>2. Planned(s)'
  BY <1>1, quotatab_post_stor_errEffect DEF Planned, KeepsWrite, Rests, Intends
<1>3. conf.hard /\ odd' = {} => TakesBack(ss[s]) <= TakesBack(ss[s])'
  BY <1>1, quotatab_post_stor_errEffect
     DEF TakesBack, Undoes, KeepsPlace, KeepsTally, KeepsWrite, Rests, Intends
<1>4. Undisturbed(s) /\ UNCHANGED <<conf, table>> /\ odd \subseteq odd'
  BY <1>1, quotatab_post_stor_errEffect
<1> QED BY <1>2, <1>3, <1>4, HardStays

(* The limit after the comparison with the limit after an upload.          *)
LEMMA JudgeWithin ==
  ASSUME IInv, IInv', HardInv, NEW s \in Sessions, Judge(s)
  PROVE  HardInv'
<1>1. /\ TypeOK /\ Planned(s) /\ ss[s].inc.b \in Int /\ ss'[s].inc.b \in Int
      /\ ss[s].nb \in Nat
      /\ ss[s].wc \in {0, 1} /\ (ss[s].pc = "wlock" => ss[s].wc = 0)
  BY DEF IInv, HardInv, TypeOK, Session, Increment, Counts
<1>2. Planned(s)'
  BY <1>1, JudgeEffect DEF Planned, KeepsWrite, Rests, Intends
<1>3. conf.hard /\ odd' = {} => TakesBack(ss[s]) <= TakesBack(ss[s])'
  BY <1>1, JudgeEffect
     DEF TakesBack, Undoes, KeepsPlace, KeepsTally, KeepsWrite, Rests, Intends
<1>4. Undisturbed(s) /\ UNCHANGED <<conf, table>> /\ odd \subseteq odd'
  BY <1>1, JudgeEffect
<1> QED BY <1>2, <1>3, <1>4, HardStays

(* The limit after quotatab_pre_dele.                                      *)
LEMMA quotatab_pre_deleWithin ==
  ASSUME IInv, IInv', HardInv, NEW s \in Sessions, quotatab_pre_dele(s)
  PROVE  HardInv'
<1>1. /\ TypeOK /\ Planned(s) /\ ss[s].inc.b \in Int /\ ss'[s].inc.b \in Int
      /\ ss[s].nb \in Nat
      /\ ss[s].wc \in {0, 1} /\ (ss[s].pc = "wlock" => ss[s].wc = 0)
  BY DEF IInv, HardInv, TypeOK, Session, Increment, Counts
<1>2. Planned(s)'
  BY <1>1, quotatab_pre_deleEffect DEF Planned, KeepsWrite, Rests, Intends
<1>3. conf.hard /\ odd' = {} => TakesBack(ss[s]) <= TakesBack(ss[s])'
  BY <1>1, quotatab_pre_deleEffect
     DEF TakesBack, Undoes, KeepsPlace, KeepsTally, KeepsWrite, Rests, Intends
<1>4. Undisturbed(s) /\ UNCHANGED <<conf, table>> /\ odd \subseteq odd'
  BY <1>1, quotatab_pre_deleEffect
<1> QED BY <1>2, <1>3, <1>4, HardStays

(* The limit after removing the file.                                      *)
LEMMA DeleWithin ==
  ASSUME IInv, IInv', HardInv, NEW s \in Sessions, Dele(s)
  PROVE  HardInv'
<1>1. /\ TypeOK /\ Planned(s) /\ ss[s].inc.b \in Int /\ ss'[s].inc.b \in Int
      /\ ss[s].nb \in Nat
      /\ ss[s].wc \in {0, 1} /\ (ss[s].pc = "wlock" => ss[s].wc = 0)
  BY DEF IInv, HardInv, TypeOK, Session, Increment, Counts
<1>2. Planned(s)'
  BY <1>1, DeleEffect DEF Planned, KeepsWrite, Rests, Intends
<1>3. conf.hard /\ odd' = {} => TakesBack(ss[s]) <= TakesBack(ss[s])'
  BY <1>1, DeleEffect
     DEF TakesBack, Undoes, KeepsPlace, KeepsTally, KeepsWrite, Rests, Intends
<1>4. Undisturbed(s) /\ UNCHANGED <<conf, table>> /\ odd \subseteq odd'
  BY <1>1, DeleEffect
<1> QED BY <1>2, <1>3, <1>4, HardStays

(* The limit after quotatab_post_dele.                                     *)
LEMMA quotatab_post_deleWithin ==
  ASSUME IInv, IInv', HardInv, NEW s \in Sessions, quotatab_post_dele(s)
  PROVE  HardInv'
<1>1. /\ TypeOK /\ Planned(s) /\ ss[s].inc.b \in Int /\ ss'[s].inc.b \in Int
      /\ ss[s].nb \in Nat
      /\ ss[s].wc \in {0, 1} /\ (ss[s].pc = "wlock" => ss[s].wc = 0)
  BY DEF IInv, HardInv, TypeOK, Session, Increment, Counts
<1>2. Planned(s)'
  BY <1>1, quotatab_post_deleEffect DEF Planned, KeepsWrite, Rests, Intends
<1>3. conf.hard /\ odd' = {} => TakesBack(ss[s]) <= TakesBack(ss[s])'
  BY <1>1, quotatab_post_deleEffect
     DEF TakesBack, Undoes, KeepsPlace, KeepsTally, KeepsWrite, Rests, Intends
<1>4. Undisturbed(s) /\ UNCHANGED <<conf, table>> /\ odd \subseteq odd'
  BY <1>1, quotatab_post_deleEffect
<1> QED BY <1>2, <1>3, <1>4, HardStays

(* The limit after QuotaLock in quotatab_post_dele.                        *)
LEMMA DeleMutexWithin ==
  ASSUME IInv, IInv', HardInv, NEW s \in Sessions, DeleMutex(s)
  PROVE  HardInv'
<1>1. /\ TypeOK /\ Planned(s) /\ ss[s].inc.b \in Int /\ ss'[s].inc.b \in Int
      /\ ss[s].nb \in Nat
      /\ ss[s].wc \in {0, 1} /\ (ss[s].pc = "wlock" => ss[s].wc = 0)
  BY DEF IInv, HardInv, TypeOK, Session, Increment, Counts
<1>2. Planned(s)'
  BY <1>1, DeleMutexEffect DEF Planned, KeepsWrite, Rests, Intends
<1>3. conf.hard /\ odd' = {} => TakesBack(ss[s]) <= TakesBack(ss[s])'
  BY <1>1, DeleMutexEffect
     DEF TakesBack, Undoes, KeepsPlace, KeepsTally, KeepsWrite, Rests, Intends
<1>4. Undisturbed(s) /\ UNCHANGED <<conf, table>> /\ odd \subseteq odd'
  BY <1>1, DeleMutexEffect
<1> QED BY <1>2, <1>3, <1>4, HardStays

(* The limit after the lookup of the owner's record.                       *)
LEMMA DeleLookupWithin ==
  ASSUME IInv, IInv', HardInv, NEW s \in Sessions, DeleLookup(s)
  PROVE  HardInv'
<1>1. /\ TypeOK /\ Planned(s) /\ ss[s].inc.b \in Int /\ ss'[s].inc.b \in Int
      /\ ss[s].nb \in Nat
      /\ ss[s].wc \in {0, 1} /\ (ss[s].pc = "wlock" => ss[s].wc = 0)
  BY DEF IInv, HardInv, TypeOK, Session, Increment, Counts
<1>2. Planned(s)'
  BY <1>1, DeleLookupEffect DEF Planned, KeepsWrite, Rests, Intends
<1>3. conf.hard /\ odd' = {} => TakesBack(ss[s]) <= TakesBack(ss[s])'
  BY <1>1, DeleLookupEffect
     DEF TakesBack, Undoes, KeepsPlace, KeepsTally, KeepsWrite, Rests, Intends
<1>4. Undisturbed(s) /\ UNCHANGED <<conf, table>> /\ odd \subseteq odd'
  BY <1>1, DeleLookupEffect
<1> QED BY <1>2, <1>3, <1>4, HardStays

(* The limit after xfer_exit_ev.                                           *)
LEMMA xfer_exit_evWithin ==
  ASSUME IInv, IInv', HardInv, NEW s \in Sessions, xfer_exit_ev(s)
  PROVE  HardInv'
<1>1. /\ TypeOK /\ Planned(s) /\ ss[s].inc.b \in Int /\ ss'[s].inc.b \in Int
      /\ ss[s].nb \in Nat
      /\ ss[s].wc \in {0, 1} /\ (ss[s].pc = "wlock" => ss[s].wc = 0)
  BY DEF IInv, HardInv, TypeOK, Session, Increment, Counts
<1>2. Planned(s)'
  BY <1>1, xfer_exit_evEffect DEF Planned, KeepsWrite, Rests, Intends
<1>3. conf.hard /\ odd' = {} => TakesBack(ss[s]) <= TakesBack(ss[s])'
  BY <1>1, xfer_exit_evEffect
     DEF TakesBack, Undoes, KeepsPlace, KeepsTally, KeepsWrite, Rests, Intends
<1>4. Undisturbed(s) /\ UNCHANGED <<conf, table>> /\ odd \subseteq odd'
  BY <1>1, xfer_exit_evEffect
<1> QED BY <1>2, <1>3, <1>4, HardStays

(* The limit after quotatab_exit_ev.                                       *)
LEMMA quotatab_exit_evWithin ==
  ASSUME IInv, IInv', HardInv, NEW s \in Sessions, quotatab_exit_ev(s)
  PROVE  HardInv'
<1>1. /\ TypeOK /\ Planned(s) /\ ss[s].inc.b \in Int /\ ss'[s].inc.b \in Int
      /\ ss[s].nb \in Nat
      /\ ss[s].wc \in {0, 1} /\ (ss[s].pc = "wlock" => ss[s].wc = 0)
  BY DEF IInv, HardInv, TypeOK, Session, Increment, Counts
<1>2. Planned(s)'
  BY <1>1, quotatab_exit_evEffect
     DEF Planned, KeepsWrite, Rests, Intends, Interruptible, At, CannotRead
<1>3. conf.hard /\ odd' = {} => TakesBack(ss[s]) <= TakesBack(ss[s])'
  BY <1>1, quotatab_exit_evEffect
     DEF TakesBack, Undoes, KeepsPlace, KeepsTally, KeepsWrite, Rests, Intends, Interruptible, At, CannotRead
<1>4. Undisturbed(s) /\ UNCHANGED <<conf, table>> /\ odd \subseteq odd'
  BY <1>1, quotatab_exit_evEffect
<1> QED BY <1>2, <1>3, <1>4, HardStays

(* The limit after the end of a session.                                   *)
LEMMA EndsWithin ==
  ASSUME IInv, IInv', HardInv, NEW s \in Sessions, Ends(s)
  PROVE  HardInv'
<1>1. /\ TypeOK /\ Planned(s) /\ ss[s].inc.b \in Int /\ ss'[s].inc.b \in Int
      /\ ss[s].nb \in Nat
      /\ ss[s].wc \in {0, 1} /\ (ss[s].pc = "wlock" => ss[s].wc = 0)
  BY DEF IInv, HardInv, TypeOK, Session, Increment, Counts
<1>2. Planned(s)'
  BY <1>1, EndsEffect DEF Planned, KeepsWrite, Rests, Intends
<1>3. conf.hard /\ odd' = {} => TakesBack(ss[s]) <= TakesBack(ss[s])'
  BY <1>1, EndsEffect
     DEF TakesBack, Undoes, KeepsPlace, KeepsTally, KeepsWrite, Rests, Intends
<1>4. Undisturbed(s) /\ UNCHANGED <<conf, table>> /\ odd \subseteq odd'
  BY <1>1, EndsEffect
<1> QED BY <1>2, <1>3, <1>4, HardStays

(* The limit after a session that is killed.                               *)
LEMMA KilledWithin ==
  ASSUME IInv, IInv', HardInv, NEW s \in Sessions, Killed(s)
  PROVE  HardInv'
<1>1. /\ TypeOK /\ Planned(s) /\ ss[s].inc.b \in Int /\ ss'[s].inc.b \in Int
      /\ ss[s].nb \in Nat
      /\ ss[s].wc \in {0, 1} /\ (ss[s].pc = "wlock" => ss[s].wc = 0)
  BY DEF IInv, HardInv, TypeOK, Session, Increment, Counts
<1>2. Planned(s)'
  BY <1>1, KilledEffect DEF Planned, KeepsWrite, Rests, Intends
<1>3. conf.hard /\ odd' = {} => TakesBack(ss[s]) <= TakesBack(ss[s])'
  BY <1>1, KilledEffect
     DEF TakesBack, Undoes, KeepsPlace, KeepsTally, KeepsWrite, Rests, Intends
<1>4. Undisturbed(s) /\ UNCHANGED <<conf, table>> /\ odd \subseteq odd'
  BY <1>1, KilledEffect
<1> QED BY <1>2, <1>3, <1>4, HardStays

(* A record that is created adds nothing.                                  *)
LEMMA filetab_createWithin ==
  ASSUME IInv, IInv', TallyInv, HardInv, NEW s \in Sessions, filetab_create(s)
  PROVE  HardInv'
<1>1. /\ TypeOK /\ TypeOK' /\ table \in Seq(Record) /\ Len(table) \in Nat
      /\ UserOf[s] \in Users /\ BytesAvail \in Nat
  BY QuotaAssumption DEF IInv, TypeOK, UserOf
<1>2. /\ Undisturbed(s) /\ UNCHANGED <<conf, odd>> /\ KeepsWrite(s)
      /\ ss[s].pc = "append" /\ ss'[s].pc = "appended"
      /\ table' = Append(table, ss[s].tally)
  BY <1>1, filetab_createEffect
<1>3. ASSUME NEW t \in Sessions  PROVE Planned(t)'
  BY <1>2 DEF HardInv, Planned, Undisturbed, KeepsWrite
<1>4. ASSUME conf'.hard, odd' = {}
      PROVE  \E Aft \in [SUBSET Sessions -> Nat] : Sums(Aft)' /\ Exceeding(Aft)'
  <2>1. conf.hard /\ odd = {} /\ Exact
    BY <1>2, <1>4 DEF Exact
  <2>2. PICK Sum \in [SUBSET Sessions -> Nat] : Sums(Sum) /\ Exceeding(Sum)
    BY <2>1 DEF HardInv
  <2>3. ss[s].tally = Zero(UserOf[s])
    BY <1>2, <2>1 DEF TallyInv, OwnRecord, OwnAt
  <2> PICK r : r = ss[s].tally
    OBVIOUS
  <2>4. r \in Record /\ r.b = 0
    BY <1>1, <2>3 DEF Zero, Record
  <2>5. /\ Len(table') = Len(table) + 1 /\ table'[Len(table) + 1] = r
        /\ \A i \in 1 .. Len(table) : table'[i] = table[i]
    BY <1>1, <1>2, <2>4
  <2>6. ASSUME NEW t \in Sessions
        PROVE  TakesBack(ss[t])' = TakesBack(ss[t]) /\ (Undoes(ss[t])' <=> Undoes(ss[t]))
    <3>1. CASE t = s
      BY <1>2, <3>1 DEF TakesBack, Undoes
    <3>2. CASE t # s
      BY <1>2, <3>2 DEF TakesBack, Undoes, Undisturbed
    <3> QED BY <3>1, <3>2
  <2>7. \A u : Undoing(u)' = Undoing(u)
    BY <1>2, <2>6 DEF Undoing, UserOf
  <2>8. Sums(Sum)'
    BY <2>2, <2>6 DEF Sums
  <2>9. ASSUME NEW i \in 1 .. Len(table) + 1
        PROVE  table'[i].b <= BytesAvail + Sum[Undoing(table[i].user)']
    <3> PICK u, Q : u = table'[i].user /\ Q = Undoing(u)
      OBVIOUS
    <3>0. Undoing(table[i].user)' = Q
      <4>1. Undoing(table[i].user)' = Undoing(u)'
        BY DEF Undoing
      <4> QED BY <2>7, <4>1
    <3>1. CASE i = Len(table) + 1
      <4>1. Q \in SUBSET Sessions
        BY DEF Undoing
      <4>2. Sum[Q] \in Nat
        BY <4>1
      <4> QED BY <1>1, <2>4, <2>5, <3>0, <3>1, <4>2
    <3>2. CASE i # Len(table) + 1
      <4>1. i \in 1 .. Len(table)
        BY <1>1, <3>2
      <4>2. table'[i] = table[i]
        BY <2>5, <4>1
      <4>3. table[i].b <= BytesAvail + Sum[Undoing(table[i].user)]
        BY <2>2, <4>1 DEF Exceeding
      <4> QED BY <3>0, <4>2, <4>3
    <3> QED BY <3>1, <3>2
  <2>10. Exceeding(Sum)'
    BY <2>5, <2>9 DEF Exceeding
  <2> QED BY <2>8, <2>10
<1> QED BY <1>3, <1>4 DEF HardInv

(* A tally that is written grows by what its session will take back if the *)
(* limit is exceeded by it, or shrinks by what its session takes back.     *)
LEMMA quotatab_writeWithin ==
  ASSUME IInv, IInv', TallyInv, HardInv, NEW s \in Sessions, quotatab_write(s)
  PROVE  HardInv'
<1>1. /\ TypeOK /\ TypeOK' /\ table \in Seq(Record) /\ Len(table) \in Nat
      /\ UserOf[s] \in Users /\ BytesAvail \in Nat
      /\ ss[s].inc \in Increment /\ ss[s].inc.b \in Int
  <2>1. ss[s].inc \in Increment
    BY DEF IInv, TypeOK, Session
  <2> QED BY <2>1, QuotaAssumption DEF IInv, TypeOK, UserOf, Increment
<1>2. /\ Undisturbed(s) /\ UNCHANGED <<conf, odd>> /\ ss[s].pc = "wwrite"
      /\ ss[s].wc = 1
      /\ Follows(ss'[s], ss[s].then)
      /\ ss'[s].tally = Bumped(ss[s].tally, ss[s].inc)
      /\ ss[s].then \in {"idle", "judge", "judge_err", "ending"}
      /\ ss[s].then = "idle" => ss'[s].then = "idle" /\ ss'[s].inc.b = 0
      /\ ss[s].then # "idle" => KeepsWrite(s)
  BY <1>1, quotatab_writeEffect DEF IInv, Counts, KeepsWrite
<1>3. ASSUME NEW t \in Sessions  PROVE Planned(t)'
  BY <1>2 DEF HardInv, Planned, Undisturbed, KeepsWrite
<1>4. ASSUME conf'.hard, odd' = {}
      PROVE  \E Aft \in [SUBSET Sessions -> Nat] : Sums(Aft)' /\ Exceeding(Aft)'
  <2>1. conf.hard /\ odd = {} /\ Exact /\ Exact'
    BY <1>2, <1>4 DEF Exact
  <2>2. PICK Sum \in [SUBSET Sessions -> Nat] : Sums(Sum) /\ Exceeding(Sum)
    BY <2>1 DEF HardInv
  <2>3. PICK Aft \in [SUBSET Sessions -> Nat] :
            /\ Sums(Aft)'
            /\ \A u \in Users :
                  /\ UserOf[s] = u =>
                        /\ Sum[Undoing(u)] = Sum[Undoing(u) \ {s}] + TakesBack(ss[s])
                        /\ Aft[Undoing(u)'] = Sum[Undoing(u) \ {s}] + TakesBack(ss[s])'
                        /\ Sum[Undoing(u) \ {s}] \in Nat
                  /\ UserOf[s] # u => Aft[Undoing(u)'] = Sum[Undoing(u)]
    BY <1>1, <1>2, <2>2, SumsGoOn
  <2> PICK k, r : k = ss[s].pos /\ r = Bumped(table[ss[s].pos], ss[s].inc)
    OBVIOUS
  <2>4. /\ k \in 1 .. Len(table) /\ table[k].user = UserOf[s]
        /\ table' = [table EXCEPT ![k] = r]
    BY <2>1, WriteUpdates
  <2>5. table[k] \in Record
    BY <1>1, <2>4
  <2>6. r \in Record /\ r.user = UserOf[s]
    BY <1>1, <2>4, <2>5, BumpedRecord
  <2>7. r.b = IF table[k].b + ss[s].inc.b < 0 THEN 0 ELSE table[k].b + ss[s].inc.b
    BY <1>1, <2>5, BumpedRecord
  <2>8. ss'[s].tally = r
    BY <1>2, <2>1 DEF TallyInv, OwnRecord, OwnAt
  <2>9. /\ Len(table') = Len(table) /\ table'[k] = r
        /\ \A i \in 1 .. Len(table) : i # k => table'[i] = table[i]
    BY <1>1, <2>4, <2>6
  <2>10. ASSUME NEW i \in 1 .. Len(table), i # k
         PROVE  table'[i].b <= BytesAvail + Aft[Undoing(table[i].user)']
    <3> PICK u : u = table[i].user
      OBVIOUS
    <3>1. table'[i] = table[i] /\ table[i] \in Record
      BY <1>1, <2>9, <2>10
    <3>2. u \in Users /\ u # UserOf[s]
      BY <2>1, <2>4, <2>10, <3>1 DEF Record, TallyInv, Tallies
    <3>3. Aft[Undoing(u)'] = Sum[Undoing(u)]
      BY <2>3, <3>2
    <3>4. table[i].b <= BytesAvail + Sum[Undoing(u)]
      BY <2>2 DEF Exceeding
    <3>5. Undoing(table[i].user)' = Undoing(u)'
      BY <3>1 DEF Undoing
    <3> QED BY <3>1, <3>3, <3>4, <3>5
  <2>11. r.b <= BytesAvail + Aft[Undoing(table[k].user)']
    <3> PICK u, b, c, d, v, w : /\ u = UserOf[s]
                                /\ b = table[k].b /\ c = ss[s].inc.b
                                /\ d = Sum[Undoing(UserOf[s]) \ {s}]
                                /\ v = TakesBack(ss[s]) /\ w = TakesBack(ss[s])'
      OBVIOUS
    <3>1. /\ b \in Nat /\ r.b \in Nat /\ c \in Int /\ BytesAvail \in Nat
          /\ r.b = IF b + c < 0 THEN 0 ELSE b + c
      BY <1>1, <2>5, <2>6, <2>7 DEF Record
    <3>2. Sum[Undoing(u)] = d + v /\ d \in Nat /\ Aft[Undoing(u)'] = d + w
      BY <1>1, <2>3
    <3>3. b <= BytesAvail + (d + v)
      BY <2>2, <2>4, <3>2 DEF Exceeding
    <3>4. ss[s].then # "ending" /\ (ss[s].then = "idle" => c <= 0)
      BY <2>1 DEF HardInv, Planned
    <3>5. w \in Nat
      <4>1. ss'[s].inc.b \in Int
        BY <1>1 DEF TypeOK, Session, Increment
      <4> QED BY <4>1 DEF TakesBack
    <3>6. r.b <= BytesAvail + (d + w)
      <4>1. CASE ss[s].then = "idle"
        <5>1. v = -c /\ c <= 0
          BY <1>1, <1>2, <3>4, <4>1 DEF TakesBack, Undoes
        <5> QED BY ONLY <3>1, <3>2, <3>3, <3>5, <5>1
      <4>2. CASE ss[s].then \in {"judge", "judge_err"}
        <5>1. v = 0
          BY <1>2, <4>2 DEF TakesBack, Undoes
        <5>2. r.b > BytesAvail /\ c > 0 => w = c
          BY <1>1, <1>2, <2>8, <4>2 DEF TakesBack, Undoes, KeepsWrite, Exceeded,
                 Follows
        <5>3. CASE c > 0
          BY ONLY <3>1, <3>2, <3>3, <3>5, <5>1, <5>2, <5>3
        <5>4. CASE c <= 0
          BY ONLY <3>1, <3>2, <3>3, <3>5, <5>1, <5>4
        <5> QED BY <3>1, <5>3, <5>4
      <4> QED BY <1>2, <3>4, <4>1, <4>2
    <3>7. Undoing(table[k].user)' = Undoing(u)'
      BY <2>6, <2>9 DEF Undoing
    <3> QED BY <3>2, <3>6, <3>7
  <2>12. ASSUME NEW i \in 1 .. Len(table')
         PROVE  table'[i].b <= BytesAvail + Aft[Undoing(table[i].user)']
    <3>1. CASE i = k
      BY <2>9, <2>11, <3>1
    <3>2. CASE i # k
      BY <2>9, <2>10, <3>2
    <3> QED BY <3>1, <3>2
  <2>13. Exceeding(Aft)'
    BY <2>12 DEF Exceeding
  <2> QED BY <2>3, <2>13
<1> QED BY <1>3, <1>4 DEF HardInv

(* To begin with, nobody takes anything back.                              *)
LEMMA InitWithin ==
  ASSUME Init, WithinFirst  PROVE HardInv
<1>1. TypeOK /\ table \in FirstTables
  BY InitTypes DEF Init
<1>2. ASSUME NEW s \in Sessions
      PROVE  ss[s].pc = "new" /\ ss[s].then = "idle" /\ ss[s].inc.b = 0
  BY <1>1, FreshSession DEF Init
<1>3. \A s \in Sessions : Planned(s)
  BY <1>2 DEF Planned
<1> PICK Sum : Sum = [Q \in SUBSET Sessions |-> 0]
  OBVIOUS
<1>4. Sum \in [SUBSET Sessions -> Nat]
  OBVIOUS
<1>5. Sums(Sum)
  BY <1>2 DEF Sums, TakesBack, Undoes
<1>6. ASSUME NEW i \in 1 .. Len(table)
      PROVE  table[i].b <= BytesAvail + Sum[Undoing(table[i].user)]
  <2>1. table[i].b <= BytesAvail /\ BytesAvail \in Nat
    BY <1>1, QuotaAssumption DEF WithinFirst
  <2>2. Undoing(table[i].user) \in SUBSET Sessions
    BY DEF Undoing
  <2>3. Sum[Undoing(table[i].user)] = 0
    BY <2>2
  <2> QED BY <2>1, <2>3
<1>7. Exceeding(Sum)
  BY <1>6 DEF Exceeding
<1> QED BY <1>3, <1>4, <1>5, <1>7 DEF HardInv

(* Every step keeps the limit.                                             *)
LEMMA NextWithin ==
  ASSUME IInv, IInv', TallyInv, HardInv, [Next]_vars  PROVE HardInv'
<1>1. CASE UNCHANGED vars
  <2>1. conf' = conf /\ table' = table /\ ss' = ss /\ odd' = odd
    BY <1>1 DEF vars
  <2>2. \A s \in Sessions : Planned(s)'
    BY <2>1 DEF HardInv, Planned
  <2>3. ASSUME NEW Sum, Sums(Sum), Exceeding(Sum)
        PROVE  Sums(Sum)' /\ Exceeding(Sum)'
    <3>1. Sums(Sum)'
      BY <2>1, <2>3 DEF Sums
    <3>2. \A u : Undoing(u)' = Undoing(u)
      BY <2>1 DEF Undoing, UserOf
    <3>3. \A i : Undoing(table[i].user)' = Undoing(table[i].user)
      BY <2>1 DEF Undoing, UserOf
    <3> QED BY <2>1, <2>3, <3>1, <3>3 DEF Exceeding
  <2> QED BY <2>1, <2>2, <2>3 DEF HardInv
<1>2. ASSUME NEW s \in Sessions,
        \/ LoginLock(s) \/ LoginLookup(s) \/ LoginDone(s)
        \/ CreateLock(s) \/ CreateFails(s) \/ filetab_create(s)
        \/ CreateUnlock(s)
        \/ ReadLock(s) \/ ReadGivesUp(s) \/ quotatab_read(s)
        \/ WriteLock(s) \/ WriteGivesUp(s) \/ quotatab_write(s)
        \/ Stor(s) \/ quotatab_pre_stor(s) \/ StorOpens(s)
        \/ quotatab_fsio_write(s) \/ StorEnds(s) \/ StorAborted(s)
        \/ quotatab_post_stor(s) \/ quotatab_post_stor_err(s)
        \/ Judge(s)
        \/ quotatab_pre_dele(s) \/ Dele(s) \/ quotatab_post_dele(s)
        \/ DeleMutex(s) \/ DeleLookup(s)
        \/ xfer_exit_ev(s) \/ quotatab_exit_ev(s) \/ Ends(s) \/ Killed(s)
      PROVE  HardInv'
  BY <1>2,
     LoginLockWithin, LoginLookupWithin, CreateLockWithin,
     CreateFailsWithin, filetab_createWithin, CreateUnlockWithin,
     LoginDoneWithin, ReadLockWithin, ReadGivesUpWithin,
     quotatab_readWithin, WriteLockWithin, WriteGivesUpWithin,
     quotatab_writeWithin, StorWithin, quotatab_pre_storWithin,
     StorOpensWithin, quotatab_fsio_writeWithin, StorEndsWithin,
     StorAbortedWithin, quotatab_post_storWithin,
     quotatab_post_stor_errWithin, JudgeWithin, quotatab_pre_deleWithin,
     DeleWithin, quotatab_post_deleWithin, DeleMutexWithin,
     DeleLookupWithin, quotatab_exit_evWithin, xfer_exit_evWithin, EndsWithin, KilledWithin
<1> QED BY <1>1, <1>2 DEF Next

(* HardLimitHolds: if the tallies are within the limit to begin with, then *)
(* they are when all sessions have finished, as long as the locks were     *)
(* obtained and every upload beyond the limit could be taken back.         *)
THEOREM LimitNotExceeded ==
  OneRecordEach /\ WithinFirst /\ Spec => []HardLimitHolds
<1> SUFFICES ASSUME OneRecordEach, WithinFirst  PROVE Spec => []HardLimitHolds
  OBVIOUS
<1>1. Init => HardInv
  BY InitWithin
<1>2. IInv /\ IInv' /\ TallyInv /\ HardInv /\ [Next]_vars => HardInv'
  BY NextWithin
<1>3. IInv /\ HardInv => HardLimitHolds
  <2> SUFFICES ASSUME IInv, HardInv, conf.hard, odd = {},
                      \A s \in Sessions : ss[s].pc \in {"new", "idle", "gone"},
                      NEW i \in 1 .. Len(table)
               PROVE  table[i].b <= BytesAvail
    BY DEF HardLimitHolds
  <2>1. PICK Sum \in [SUBSET Sessions -> Nat] : Sums(Sum) /\ Exceeding(Sum)
    BY DEF HardInv
  <2>2. Undoing(table[i].user) = {}
    BY DEF Undoing, Undoes
  <2>3. Sum[Undoing(table[i].user)] = 0 /\ BytesAvail \in Nat
    BY <2>1, <2>2, QuotaAssumption DEF Sums
  <2>4. table[i].b <= BytesAvail + Sum[Undoing(table[i].user)]
    BY <2>1 DEF Exceeding
  <2> QED BY <2>3, <2>4
<1>4. Spec => []IInv
  BY Inductive
<1>5. Spec => []TallyInv
  BY TalliesKept
<1> QED BY <1>1, <1>2, <1>3, <1>4, <1>5, PTL DEF Spec
=============================================================================
