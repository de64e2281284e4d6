---------------------------- MODULE PrivsProofs -----------------------------
(***************************************************************************)
(* Proofs about Privs, for every set of users, with or without root logins,*)
(* and for every nesting of brackets.                                      *)
(***************************************************************************)
EXTENDS Privs, TLAPS

(* What the system calls of a process do to its credentials.               *)
LEMMA SysCallTypes ==
  ASSUME NEW c \in Cred, NEW u \in Ids
  PROVE  /\ seteuid(c, u) \in Cred /\ setuid(c, u) \in Cred
         /\ setegid(c, u) \in Cred /\ setgid(c, u) \in Cred
BY DEF Cred, seteuid, setuid, setegid, setgid

LEMMA InitInvariant == Init => IInv
<1> SUFFICES ASSUME NEW u \in Ids, NEW d \in Users,
                    nonroot_daemon = (u # Root),
                    cred = IF u # Root THEN AllAs(u)
                           ELSE seteuid(setgid(setuid(AllAs(Root), Root), d), d),
                    uid = (IF u # Root THEN u ELSE d), gid = uid,
                    login_uid = Root, login_gid = Root,
                    root_privs = 0, user_privs = 0,
                    disable_id_switching = FALSE, held = <<>>, dropped = FALSE,
                    plain = TRUE
             PROVE  IInv
  BY DEF Init
<1>1. AllAs(u) \in Cred /\ AllAs(Root) \in Cred /\ Root \in Ids /\ d \in Ids
  BY DEF AllAs, Cred, Ids
<1>2. TypeOK
  <2>1. cred \in Cred
    BY <1>1, SysCallTypes
  <2>2. held \in Seq({"root", "user"})
    OBVIOUS
  <2>3. nonroot_daemon \in BOOLEAN
    BY Zenon
  <2>4. uid \in Ids /\ gid \in Ids /\ login_uid \in Ids /\ login_gid \in Ids
    BY <1>1
  <2>5. root_privs \in 0..1 /\ user_privs \in 0..1
    OBVIOUS
  <2>6. /\ disable_id_switching \in BOOLEAN /\ dropped \in BOOLEAN
        /\ plain \in BOOLEAN
    BY Zenon
  <2> QED BY <2>1, <2>2, <2>3, <2>4, <2>5, <2>6, Zenon DEF TypeOK
<1>3. ActsAsSession /\ NoRootAfterRevoke /\ CanReturn /\ OneIdentity
  <2>1. CASE u # Root
    BY <2>1 DEF ActsAsSession, NoRootAfterRevoke, CanReturn, OneIdentity, AllAs
  <2>2. CASE u = Root
    BY <2>2, PrivsAssumption
       DEF ActsAsSession, NoRootAfterRevoke, CanReturn, OneIdentity, AllAs,
           seteuid, setgid, setuid
  <2> QED BY <2>1, <2>2
<1> QED BY <1>2, <1>3 DEF IInv

LEMMA SetLoginPreserves ==
  ASSUME IInv, NEW u \in LoginIds, SetLogin(u)
  PROVE  IInv'
BY DEF IInv, TypeOK, ActsAsSession, NoRootAfterRevoke, CanReturn, OneIdentity,
       SetLogin, LoginIds, Ids, counters, history

LEMMA SetupPreserves ==
  ASSUME IInv, NEW u \in LoginIds, pr_privs_setup(u)
  PROVE  IInv'
<1>1. u \in Ids /\ Root \in Ids
  BY DEF LoginIds, Ids
<1>2. SetupCred(u) \in Cred
  <2>1. cred \in Cred /\ cred.ruid \in Ids /\ cred.rgid \in Ids
    BY DEF IInv, TypeOK, Cred
  <2> QED BY <1>1, <2>1, SysCallTypes DEF SetupCred
<1>3. TypeOK'
  BY <1>1, <1>2 DEF IInv, TypeOK, pr_privs_setup, counters, history, Cred
<1>4. CASE nonroot_daemon
  BY <1>3, <1>4 DEF IInv, TypeOK, ActsAsSession, NoRootAfterRevoke, CanReturn, OneIdentity,
         pr_privs_setup, counters, history
<1>5. CASE ~nonroot_daemon /\ dropped
  BY <1>3, <1>5 DEF IInv, TypeOK, ActsAsSession, NoRootAfterRevoke, CanReturn, OneIdentity,
         pr_privs_setup, SetupCred, history, seteuid, setuid, setgid, Cred
<1>6. CASE ~nonroot_daemon /\ ~dropped
  BY <1>3, <1>6 DEF IInv, TypeOK, ActsAsSession, NoRootAfterRevoke, CanReturn, OneIdentity,
         pr_privs_setup, SetupCred, history, seteuid, setuid, setgid, Cred
<1> QED BY <1>4, <1>5, <1>6

LEMMA RootPreserves ==
  ASSUME IInv, pr_privs_root
  PROVE  IInv'
<1>1. RootCred \in Cred
  BY SysCallTypes DEF RootCred, IInv, TypeOK, Ids
<1>2. TypeOK'
  BY <1>1 DEF IInv, TypeOK, pr_privs_root, AlreadyRoot, session
<1>3. CASE cred' = cred
  BY <1>2, <1>3 DEF IInv, TypeOK, ActsAsSession, NoRootAfterRevoke, CanReturn, OneIdentity,
         pr_privs_root, AlreadyRoot, session
<1>4. CASE cred' = RootCred /\ ~nonroot_daemon /\ root_privs' # 0
  <2>1. /\ RootCred.ruid = cred.ruid /\ RootCred.suid = cred.suid
        /\ RootCred.rgid = cred.rgid /\ RootCred.sgid = cred.sgid
    BY DEF IInv, TypeOK, OneIdentity, RootCred, seteuid, setegid, Cred
  <2>2. dropped => RootCred.euid = cred.euid /\ RootCred.egid = cred.egid
    BY DEF IInv, TypeOK, OneIdentity, RootCred, seteuid, setegid, Cred
  <2> QED BY <1>2, <1>4, <2>1, <2>2
      DEF IInv, ActsAsSession, NoRootAfterRevoke, CanReturn, OneIdentity,
          pr_privs_root, session
<1>5. cred' = cred \/ (cred' = RootCred /\ ~nonroot_daemon /\ root_privs' # 0)
  BY DEF IInv, TypeOK, pr_privs_root, AlreadyRoot
<1> QED BY <1>3, <1>4, <1>5 DEF IInv

LEMMA UserPreserves ==
  ASSUME IInv, pr_privs_user
  PROVE  IInv'
<1>1. UserCred \in Cred
  BY SysCallTypes DEF UserCred, IInv, TypeOK, Ids
<1>2. TypeOK'
  BY <1>1 DEF IInv, TypeOK, pr_privs_user, session
<1>3. ActsAsSession' /\ NoRootAfterRevoke' /\ CanReturn' /\ OneIdentity'
  BY DEF IInv, TypeOK, ActsAsSession, NoRootAfterRevoke, CanReturn, OneIdentity,
         pr_privs_user, session, UserCred, seteuid, setegid, Cred
<1> QED BY <1>2, <1>3 DEF IInv

(* PRIVS_RELINQUISH gives the process the session's identity, whoever it   *)
(* acted as before.                                                        *)
LEMMA RelinquishPreserves ==
  ASSUME IInv, pr_privs_relinquish
  PROVE  IInv'
<1>1. RelinquishCred \in Cred
  BY SysCallTypes DEF RelinquishCred, IInv, TypeOK, Ids
<1>2. TypeOK'
  BY <1>1 DEF IInv, TypeOK, pr_privs_relinquish, Decrement, session, counters
<1>3. ActsAsSession' /\ NoRootAfterRevoke' /\ CanReturn' /\ OneIdentity'
  BY DEF IInv, TypeOK, ActsAsSession, NoRootAfterRevoke, CanReturn, OneIdentity,
         pr_privs_relinquish, Decrement, session, counters, RelinquishCred,
         seteuid, setegid, Cred
<1> QED BY <1>2, <1>3 DEF IInv

LEMMA RevokePreserves ==
  ASSUME IInv, pr_privs_revoke
  PROVE  IInv'
<1>1. RootCred \in Cred /\ \A c \in Cred : RevokeCred(c) \in Cred
  BY SysCallTypes DEF RootCred, RevokeCred, IInv, TypeOK, Ids
<1>2. TypeOK'
  BY <1>1 DEF IInv, TypeOK, pr_privs_revoke, counters
<1>3. CASE nonroot_daemon
  BY <1>2, <1>3 DEF IInv, TypeOK, ActsAsSession, NoRootAfterRevoke, CanReturn, OneIdentity,
         pr_privs_revoke, counters
<1>4. CASE ~nonroot_daemon /\ dropped
  <2> DEFINE Same(c) == /\ c.ruid = uid /\ c.euid = uid /\ c.suid = uid
                        /\ c.rgid = gid /\ c.egid = gid /\ c.sgid = gid
  <2>1. cred \in Cred /\ uid # Root /\ Same(cred)
    BY <1>4 DEF IInv, TypeOK, OneIdentity
  <2>2. ASSUME NEW c \in Cred, Same(c) PROVE Same(RevokeCred(c))
    <3>1. seteuid(c, Root) = c
      BY <2>1, <2>2 DEF seteuid
    <3>2. setgid(c, gid) = [c EXCEPT !.egid = gid]
      BY <2>1, <2>2 DEF setgid
    <3>3. PICK d \in Cred : d = setgid(c, gid) /\ Same(d)
      BY <2>2, <3>2 DEF Cred
    <3>4. setuid(d, uid) = [d EXCEPT !.euid = uid]
      BY <2>1, <3>3 DEF setuid
    <3>5. Same([d EXCEPT !.euid = uid])
      BY <3>3 DEF Cred
    <3> QED BY <3>1, <3>3, <3>4, <3>5 DEF RevokeCred
  <2>3. Same(RootCred)
    <3>1. seteuid(cred, Root) = cred
      BY <2>1 DEF seteuid
    <3>2. Same(setegid(cred, Root))
      BY <2>1 DEF setegid, Cred
    <3> QED BY <3>1, <3>2 DEF RootCred
  <2>4. Same(cred')
    BY <1>1, <1>4, <2>1, <2>2, <2>3 DEF pr_privs_revoke
  <2>5. uid' = uid /\ gid' = gid /\ nonroot_daemon' = nonroot_daemon /\ dropped'
    BY <1>4 DEF pr_privs_revoke
  <2> QED BY <1>2, <1>4, <2>1, <2>4, <2>5
          DEF IInv, ActsAsSession, NoRootAfterRevoke, CanReturn, OneIdentity
<1>5. CASE ~nonroot_daemon /\ ~dropped
  <2>1. PICK c \in Cred : c.ruid = Root /\ cred' = RevokeCred(c)
    <3>1. cred \in Cred /\ cred.ruid = Root
      BY <1>5 DEF IInv, TypeOK, CanReturn
    <3>2. RootCred.ruid = Root
      BY <3>1 DEF RootCred, seteuid, setegid, Cred
    <3> QED BY <1>1, <1>5, <3>1, <3>2 DEF pr_privs_revoke
  <2>2. /\ cred'.ruid = uid /\ cred'.euid = uid /\ cred'.suid = uid
        /\ cred'.rgid = gid /\ cred'.egid = gid /\ cred'.sgid = gid
    BY <2>1 DEF RevokeCred, seteuid, setuid, setgid, Cred
  <2> QED BY <1>2, <1>5, <2>2
      DEF IInv, ActsAsSession, NoRootAfterRevoke, CanReturn, OneIdentity,
          pr_privs_revoke
<1> QED BY <1>3, <1>4, <1>5

LEMMA EnablePreserves ==
  ASSUME IInv, EnableSwitching
  PROVE  IInv'
BY DEF IInv, TypeOK, ActsAsSession, NoRootAfterRevoke, CanReturn, OneIdentity,
       EnableSwitching, counters, history

LEMMA StutterPreserves ==
  ASSUME IInv, UNCHANGED vars
  PROVE  IInv'
BY DEF IInv, TypeOK, ActsAsSession, NoRootAfterRevoke, CanReturn, OneIdentity,
       vars, session, counters, history

LEMMA NextPreserves == IInv /\ [Next]_vars => IInv'
BY SetLoginPreserves, SetupPreserves, RootPreserves, UserPreserves,
   RelinquishPreserves, RevokePreserves, EnablePreserves, StutterPreserves
   DEF Next

LEMMA Invariance == Spec => []IInv
BY InitInvariant, NextPreserves, PTL DEF Spec

(* The counters of privs.c are never negative nor above 1, and all ids are *)
(* ids, whatever the callers do.                                           *)
THEOREM TypeCorrect == Spec => []TypeOK
<1>1. IInv => TypeOK
  BY DEF IInv
<1> QED BY <1>1, Invariance, PTL

(* With both counters at zero the process acts as the session's user and   *)
(* group: pr_privs_relinquish, pr_privs_setup and pr_privs_revoke restore  *)
(* both ids before they clear the counters.                                *)
THEOREM LeastPrivilege == Spec => []ActsAsSession
<1>1. IInv => ActsAsSession
  BY DEF IInv
<1> QED BY <1>1, Invariance, PTL

(* After RootRevoke the process is without root for the rest of its life.  *)
THEOREM RevokeIsFinal == Spec => []NoRootAfterRevoke
<1>1. IInv => NoRootAfterRevoke
  BY DEF IInv
<1> QED BY <1>1, Invariance, PTL

(* Before it, every switch keeps root in the real and the saved user id.   *)
THEOREM RootStaysInReach == Spec => []CanReturn
<1>1. IInv => CanReturn
  BY DEF IInv
<1> QED BY <1>1, Invariance, PTL

-----------------------------------------------------------------------------
(* The sequences that plain brackets make. *)
LEMMA PlainHeld ==
  /\ <<"root">> \o <<>> = <<"root">> /\ <<"user">> \o <<>> = <<"user">>
  /\ Tail(<<"root">>) = <<>> /\ Tail(<<"user">>) = <<>>
  /\ <<"root">> # <<>> /\ <<"user">> # <<>> /\ <<"root">> # <<"user">>
OBVIOUS

(* PRIVS_ROOT. *)
LEMMA RootBrackets ==
  ASSUME IInv, Brackets, pr_privs_root
  PROVE  Brackets'
<1> SUFFICES ASSUME plain' PROVE Brackets'
  BY DEF Brackets
<1>1. plain /\ held = <<>> /\ ~disable_id_switching
  BY DEF pr_privs_root
<1>2. held' = <<"root">> /\ ~disable_id_switching'
  BY <1>1, PlainHeld DEF pr_privs_root, session
<1>3. ASSUME ~nonroot_daemon, ~dropped
      PROVE  root_privs' = 1 /\ user_privs' = 0 /\ cred'.euid = Root
  <2>1. cred \in Cred /\ cred.ruid = Root /\ root_privs = 0 /\ user_privs = 0
    BY <1>1, <1>3, PlainHeld DEF IInv, TypeOK, CanReturn, Brackets
  <2>2. RootCred.euid = Root
    BY <2>1 DEF RootCred, seteuid, setegid, Cred
  <2> QED BY <1>1, <1>3, <2>1, <2>2 DEF pr_privs_root, AlreadyRoot
<1>4. nonroot_daemon' = nonroot_daemon /\ dropped' = dropped
  BY DEF pr_privs_root
<1> QED BY <1>2, <1>3, <1>4, PlainHeld DEF Brackets

(* PRIVS_USER. *)
LEMMA UserBrackets ==
  ASSUME IInv, Brackets, pr_privs_user
  PROVE  Brackets'
<1> SUFFICES ASSUME plain' PROVE Brackets'
  BY DEF Brackets
<1>1. plain /\ held = <<>> /\ ~disable_id_switching /\ login_uid # Root
  BY DEF pr_privs_user
<1>2. held' = <<"user">> /\ ~disable_id_switching'
  BY <1>1, PlainHeld DEF pr_privs_user, session
<1>3. ASSUME ~nonroot_daemon, ~dropped
      PROVE  /\ root_privs' = 0 /\ user_privs' = 1
             /\ cred'.euid = login_uid /\ cred'.egid = login_gid
  <2>1. cred \in Cred /\ cred.ruid = Root /\ root_privs = 0 /\ user_privs = 0
    BY <1>1, <1>3, PlainHeld DEF IInv, TypeOK, CanReturn, Brackets
  <2>2. UserCred.euid = login_uid /\ UserCred.egid = login_gid
    BY <2>1 DEF UserCred, seteuid, setegid, Cred
  <2> QED BY <1>1, <1>3, <2>1, <2>2 DEF pr_privs_user
<1>4. /\ nonroot_daemon' = nonroot_daemon /\ dropped' = dropped
      /\ login_uid' = login_uid /\ login_gid' = login_gid
  BY DEF pr_privs_user, session
<1> QED BY <1>1, <1>2, <1>3, <1>4, PlainHeld DEF Brackets

(* PRIVS_RELINQUISH clears the counter of the bracket that it closes: the  *)
(* effective uid, by which it chooses the counter, is root's in a bracket  *)
(* of PRIVS_ROOT and not in one of PRIVS_USER.                             *)
LEMMA RelinquishBrackets ==
  ASSUME IInv, Brackets, pr_privs_relinquish
  PROVE  Brackets'
<1> SUFFICES ASSUME plain' PROVE Brackets'
  BY DEF Brackets
<1>1. plain /\ held # <<>> /\ held' = Tail(held)
  BY DEF pr_privs_relinquish
<1>2. held \in {<<"root">>, <<"user">>} /\ ~disable_id_switching
  BY <1>1 DEF Brackets
<1>3. held' = <<>>
  BY <1>1, <1>2, PlainHeld
<1>4. ASSUME ~nonroot_daemon, ~dropped
      PROVE  root_privs' = 0 /\ user_privs' = 0
  BY <1>1, <1>2, <1>4, PlainHeld DEF Brackets, pr_privs_relinquish, Decrement
<1>5. nonroot_daemon' = nonroot_daemon /\ dropped' = dropped
  BY DEF pr_privs_relinquish
<1> QED BY <1>3, <1>4, <1>5, PlainHeld DEF Brackets

(* Every step keeps plain brackets apart. *)
LEMMA NextBrackets == IInv /\ Brackets /\ [Next]_vars => Brackets'
<1> SUFFICES ASSUME IInv, Brackets, [Next]_vars PROVE Brackets'
  OBVIOUS
<1>1. ASSUME NEW u \in LoginIds, SetLogin(u) PROVE Brackets'
  BY <1>1, PlainHeld DEF SetLogin, Brackets, counters, history
<1>2. ASSUME NEW u \in LoginIds, pr_privs_setup(u) PROVE Brackets'
  BY <1>2, PlainHeld DEF pr_privs_setup, Brackets, counters, history
<1>3. CASE pr_privs_revoke
  BY <1>3, PlainHeld DEF pr_privs_revoke, Brackets, counters
<1>4. CASE EnableSwitching
  BY <1>4, PlainHeld DEF EnableSwitching, Brackets, counters, history
<1>5. CASE UNCHANGED vars
  BY <1>5 DEF vars, Brackets, session, counters, history
<1> QED BY <1>1, <1>2, <1>3, <1>4, <1>5, RootBrackets, UserBrackets, RelinquishBrackets
        DEF Next

(* Plain brackets are honoured: PRIVS_ROOT gives the effective user root,  *)
(* PRIVS_USER the user and group of the login, and PRIVS_RELINQUISH the    *)
(* session's user again, whatever brackets, logins and setups came before. *)
THEOREM PlainBracketsHonoured == Spec => []BracketsHonoured
<1>1. Init => Brackets
  BY PlainHeld DEF Init, Brackets
<1>2. IInv /\ Brackets => BracketsHonoured
  <2> SUFFICES ASSUME IInv, Brackets, plain PROVE BracketsHonoured
    BY DEF BracketsHonoured
  <2>1. ASSUME held = <<>> PROVE cred.euid = uid
    <3>1. CASE nonroot_daemon \/ dropped
      BY <3>1 DEF IInv, OneIdentity
    <3>2. CASE ~nonroot_daemon /\ ~dropped
      BY <2>1, <3>2, PlainHeld DEF Brackets, IInv, ActsAsSession
    <3> QED BY <3>1, <3>2
  <2> QED BY <2>1 DEF BracketsHonoured, Brackets, Switching
<1> QED BY <1>1, <1>2, Invariance, NextBrackets, PTL DEF Spec
=============================================================================
