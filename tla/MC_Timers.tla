----------------------------- MODULE MC_Timers -----------------------------
(***************************************************************************)
(* Instances of Timers for model checking.                                 *)
(***************************************************************************)
EXTENDS Timers

(* Two states that differ only in dead data have the same behaviours: the  *)
(* contents of structs that are on no list or free, locals of a pass that  *)
(* is over, and the history variable lived, which no action reads.         *)
LiveStruct(t) == Member(timers, t) \/ Member(recycled, t)

LiveState ==
    <<[t \in Slots |-> IF LiveStruct(t) THEN <<tm[t], t \in gone>> ELSE <<>>],
      timers, recycled, free_timers, fresh, signals, clock, in_dispatch,
      frames, sleep, pc, todo,
      IF pc \in {"loop", "callback"} THEN elapsed ELSE 0,
      IF pc = "callback" THEN cur ELSE 0,
      IF pc = "remove_all" THEN rmod ELSE NoModule>>
=============================================================================
