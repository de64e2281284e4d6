--------------------------- MODULE MC_Scoreboard ----------------------------
(***************************************************************************)
(* Scoreboard for TLC: the configurations.                                 *)
(***************************************************************************)
EXTENDS Scoreboard, TLC

CONSTANT Here   \* the host that clients come from where one is enough

NoLimits == [l \in Limits |-> 0]
Calm == [w \in Switches |-> FALSE]

(* No limits; HOST, a scrubbing daemon, mutex attempts that are used up    *)
(* and crashes, in the combinations that the properties of the file need.  *)
Busy(hosting, crashes, n) ==
    NoLimits @@ [Scrub |-> TRUE, Hosting |-> hosting, LockFails |-> TRUE,
                 Crashes |-> crashes, MaxStarts |-> n, From |-> {Here}]
FileConfs ==
    {Busy(TRUE, FALSE, 3), Busy(TRUE, TRUE, 2), Busy(FALSE, TRUE, 3)}

(* Each limit of one, for three clients of one host or of two, as long as  *)
(* it is the one that decides.                                             *)
Limited(limits, from) ==
    limits @@ NoLimits @@ Calm @@ [MaxStarts |-> 3, From |-> from]
LimitConfs ==
    {Limited([MaxConnectionsPerHost |-> 1], {Here}),
     Limited([MaxClients |-> 1], {Here}),
     Limited([MaxClientsPerUser |-> 1], {Here}),
     Limited([MaxClientsPerHost |-> 1, MaxHostsPerUser |-> 1], Hosts)}

AllConfs == FileConfs \cup LimitConfs
=============================================================================
