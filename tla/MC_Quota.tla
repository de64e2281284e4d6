------------------------------ MODULE MC_Quota ------------------------------
(***************************************************************************)
(* Quota for TLC: two sessions of one user or of two, one of whom has a    *)
(* file and may have a tally.                                              *)
(***************************************************************************)
EXTENDS Quota, TLC

CONSTANTS s1, s2, alice, bob, f1, f2

(* Both are alice's, or one is and the other is bob's.                     *)
AliceComes ==
    {u \in [Sessions -> Users] : \E s \in Sessions : u[s] = alice}

(* Hard limits, with and without DeleteAbortedStores, and soft ones.  Where*)
(* QuotaLock is not set, no login holds it and no property says anything.  *)
Locked == {[hard |-> TRUE, lock |-> TRUE, delete |-> TRUE],
           [hard |-> TRUE, lock |-> TRUE, delete |-> FALSE],
           [hard |-> FALSE, lock |-> TRUE, delete |-> FALSE]}

(* Nothing is known of either user, or bob has been here before.           *)
Tables == {<< >>, <<[user |-> bob, b |-> 1, f |-> 1]>>}

Disk == {(f1 :> [size |-> Absent, owner |-> alice])
           @@ (f2 :> [size |-> 1, owner |-> bob])}

Symmetry == Permutations({s1, s2})
=============================================================================
