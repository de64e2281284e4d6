------------------------------- MODULE Privs --------------------------------
(***************************************************************************)
(* The privilege switching of src/privs.c, in a build with seteuid(2): the *)
(* counters root_privs and user_privs, the identities in the session, the  *)
(* credentials the kernel keeps for the process, and the callers' brackets *)
(* of PRIVS_ROOT or PRIVS_USER ... PRIVS_RELINQUISH.                       *)
(***************************************************************************)
EXTENDS Integers, Sequences

CONSTANTS
    Users,          \* identities other than root; a user's group is its own
    RootLogin,      \* is root among the users who may log in?
    MaxNest         \* bound: nesting of PRIVS_ROOT and PRIVS_USER by callers

Root == "root"      \* PR_ROOT_UID and PR_ROOT_GID

ASSUME PrivsAssumption ==
    /\ Root \notin Users /\ RootLogin \in BOOLEAN /\ MaxNest \in Nat

Ids == Users \cup {Root}
LoginIds == IF RootLogin THEN Ids ELSE Users

VARIABLES
    cred,                   \* the kernel's view: real, effective, saved ids
    uid, gid,               \* session.uid, session.gid
    login_uid, login_gid,   \* session.login_uid, session.login_gid
    root_privs, user_privs,
    disable_id_switching,   \* session.disable_id_switching
    nonroot_daemon,
    held,                   \* history: what the open brackets asked for,
                            \* the innermost first
    dropped,                \* history: root was revoked for a user not root
    plain                   \* history: no bracket was opened within another
                            \* or after RootRevoke, and no PRIVS_USER for a
                            \* login as root

session == <<uid, gid, login_uid, login_gid, disable_id_switching>>
counters == <<root_privs, user_privs>>
history == <<held, dropped, plain>>
vars == <<cred, session, counters, nonroot_daemon, history>>

Cred == [ruid : Ids, euid : Ids, suid : Ids, rgid : Ids, egid : Ids, sgid : Ids]

(* The system calls: what a process without root may not do leaves the     *)
(* credentials alone.                                                      *)
seteuid(c, u) ==
    IF c.euid = Root \/ u \in {c.ruid, c.suid} THEN [c EXCEPT !.euid = u] ELSE c

setuid(c, u) ==
    IF c.euid = Root THEN [c EXCEPT !.ruid = u, !.euid = u, !.suid = u]
    ELSE IF u \in {c.ruid, c.suid} THEN [c EXCEPT !.euid = u] ELSE c

setegid(c, g) ==
    IF c.euid = Root \/ g \in {c.rgid, c.sgid} THEN [c EXCEPT !.egid = g] ELSE c

setgid(c, g) ==
    IF c.euid = Root THEN [c EXCEPT !.rgid = g, !.egid = g, !.sgid = g]
    ELSE IF g \in {c.rgid, c.sgid} THEN [c EXCEPT !.egid = g] ELSE c

AllAs(u) == [ruid |-> u, euid |-> u, suid |-> u, rgid |-> u, egid |-> u, sgid |-> u]

(* init_privs, and the PRIVS_SETUP that the daemon does at startup. *)
Init ==
    \E u \in Ids, d \in Users :
        /\ nonroot_daemon = (u # Root)
        /\ cred = IF u # Root THEN AllAs(u)
                  ELSE seteuid(setgid(setuid(AllAs(Root), Root), d), d)
        /\ uid = (IF u # Root THEN u ELSE d) /\ gid = uid
        /\ login_uid = Root /\ login_gid = Root
        /\ root_privs = 0 /\ user_privs = 0
        /\ disable_id_switching = FALSE
        /\ held = <<>> /\ dropped = FALSE /\ plain = TRUE
-----------------------------------------------------------------------------
(* The user is known: login_uid and login_gid are set. *)
SetLogin(u) ==
    /\ held = <<>>
    /\ login_uid' = u /\ login_gid' = u
    /\ UNCHANGED <<cred, uid, gid, counters, disable_id_switching,
                   nonroot_daemon, history>>

(* PRIVS_SETUP, called outside of any bracket or, as at the end of a login *)
(* by mod_sftp, right after a PRIVS_ROOT that no PRIVS_RELINQUISH follows: *)
(* it clears the counters, so that the bracket is closed by it.            *)
SetupCredSetuid(u) ==   \* mutant: the user id is set with setuid
    IF cred.ruid # Root
    THEN seteuid(setuid(setgid(cred, cred.rgid), cred.ruid), cred.ruid)
    ELSE setuid(setgid(setuid(cred, Root), u), u)

SetupCred(u) ==
    IF cred.ruid # Root
    THEN seteuid(setuid(setgid(cred, cred.rgid), cred.ruid), cred.ruid)
    ELSE seteuid(setgid(setuid(cred, Root), u), u)

pr_privs_setup(u) ==
    /\ held \in {<<>>, <<"root">>}
    /\ held' = <<>>
    /\ uid' = (IF nonroot_daemon \/ cred.ruid # Root THEN cred.ruid ELSE u)
    /\ gid' = (IF nonroot_daemon \/ cred.ruid # Root THEN cred.rgid ELSE u)
    /\ IF nonroot_daemon
       THEN UNCHANGED <<cred, counters>>
       ELSE cred' = SetupCred(u) /\ root_privs' = 0 /\ user_privs' = 0
    /\ UNCHANGED <<login_uid, login_gid, disable_id_switching, nonroot_daemon,
                   dropped, plain>>

(* PRIVS_ROOT. *)
NeverAlready == FALSE   \* mutant: every call is honoured
AlreadyRoot == root_privs > 0
RootCred == setegid(seteuid(cred, Root), Root)

pr_privs_root ==
    /\ Len(held) < MaxNest
    /\ held' = <<"root">> \o held
    /\ plain' = (plain /\ held = <<>> /\ ~disable_id_switching)
    /\ IF nonroot_daemon \/ AlreadyRoot
       THEN UNCHANGED <<cred, root_privs>>
       ELSE /\ root_privs' = root_privs + 1
            /\ cred' = IF disable_id_switching THEN cred ELSE RootCred
    /\ UNCHANGED <<session, user_privs, nonroot_daemon, dropped>>

(* PRIVS_USER, called once the user is known. *)
UserCred == seteuid(setegid(seteuid(cred, Root), login_gid), login_uid)

pr_privs_user ==
    /\ login_uid \in LoginIds
    /\ Len(held) < MaxNest
    /\ held' = <<"user">> \o held
    /\ plain' = (plain /\ held = <<>> /\ ~disable_id_switching /\ login_uid # Root)
    /\ IF nonroot_daemon \/ user_privs > 0
       THEN UNCHANGED <<cred, user_privs>>
       ELSE /\ user_privs' = user_privs + 1
            /\ cred' = IF disable_id_switching THEN cred ELSE UserCred
    /\ UNCHANGED <<session, root_privs, nonroot_daemon, dropped>>

(* PRIVS_RELINQUISH: back to the session's identity, by way of root, when  *)
(* one of the counters is 1 and the other 0.  Which counter is decremented *)
(* depends on the effective uid.                                           *)
RelinquishUidOnly ==   \* mutant: the group is not restored
    seteuid(IF cred.euid # Root THEN seteuid(cred, Root) ELSE cred, uid)
RelinquishCred ==
    seteuid(setegid(IF cred.euid # Root THEN seteuid(cred, Root) ELSE cred, gid), uid)

DecrementRoot ==   \* mutant: the counter of PRIVS_USER is never decremented
    /\ root_privs' = IF root_privs > 0 THEN root_privs - 1 ELSE root_privs
    /\ UNCHANGED user_privs
Decrement == IF cred.euid # Root
             THEN /\ user_privs' = IF user_privs > 0 THEN user_privs - 1 ELSE user_privs
                  /\ UNCHANGED root_privs
             ELSE /\ root_privs' = IF root_privs > 0 THEN root_privs - 1 ELSE root_privs
                  /\ UNCHANGED user_privs

pr_privs_relinquish ==
    /\ held # <<>>
    /\ held' = Tail(held)
    /\ IF nonroot_daemon \/ root_privs + user_privs # 1 \/ disable_id_switching
       THEN UNCHANGED <<cred, counters>>
       ELSE cred' = RelinquishCred /\ Decrement
    /\ UNCHANGED <<session, nonroot_daemon, dropped, plain>>

(* RootRevoke at the end of a login: PRIVS_ROOT, PRIVS_REVOKE, and no more *)
(* switching.                                                              *)
RevokeCredAsUser(c) ==   \* mutant: PRIVS_REVOKE does not become root first
    setuid(setgid(seteuid(c, uid), gid), uid)
RevokeCred(c) == setuid(setgid(seteuid(c, Root), gid), uid)

pr_privs_revoke ==
    /\ held = <<>>
    /\ disable_id_switching' = TRUE
    /\ IF nonroot_daemon
       THEN UNCHANGED <<cred, counters>>
       ELSE /\ cred' = RevokeCred(IF root_privs > 0 \/ disable_id_switching
                                  THEN cred ELSE RootCred)
            /\ root_privs' = 0 /\ user_privs' = 0
    /\ dropped' = (dropped \/ uid # Root)
    /\ UNCHANGED <<uid, gid, login_uid, login_gid, nonroot_daemon, held,
                   plain>>

(* mod_auth_pam lifts the ban while it closes its session, as the process  *)
(* exits.                                                                  *)
EnableSwitching ==
    /\ held = <<>>
    /\ disable_id_switching
    /\ disable_id_switching' = FALSE
    /\ UNCHANGED <<cred, uid, gid, login_uid, login_gid, counters,
                   nonroot_daemon, history>>
-----------------------------------------------------------------------------
Next ==
    \/ \E u \in LoginIds : SetLogin(u) \/ pr_privs_setup(u)
    \/ pr_privs_root \/ pr_privs_user \/ pr_privs_relinquish
    \/ pr_privs_revoke \/ EnableSwitching

Spec == Init /\ [][Next]_vars
-----------------------------------------------------------------------------
(***************************************************************************)
(* Properties.                                                             *)
(***************************************************************************)

(* Types; the counters are never negative and never more than 1, whatever  *)
(* the callers do.                                                         *)
TypeOK ==
    /\ cred \in Cred
    /\ uid \in Ids /\ gid \in Ids /\ login_uid \in Ids /\ login_gid \in Ids
    /\ root_privs \in 0..1 /\ user_privs \in 0..1
    /\ disable_id_switching \in BOOLEAN /\ nonroot_daemon \in BOOLEAN
    /\ held \in Seq({"root", "user"}) /\ dropped \in BOOLEAN
    /\ plain \in BOOLEAN

(* Whenever neither counter is set the process acts as the session's user  *)
(* and group, after any nesting of brackets, revocation or new setup.      *)
ActsAsSession ==
    root_privs = 0 /\ user_privs = 0 => cred.euid = uid /\ cred.egid = gid

(* RootRevoke works for good: once PRIVS_REVOKE has been called for a user *)
(* who is not root, no sequence of calls gives the process root again, not *)
(* even after mod_auth_pam has lifted disable_id_switching.                *)
NoRootAfterRevoke ==
    dropped => cred.ruid # Root /\ cred.euid # Root /\ cred.suid # Root

(* Until root is revoked every switch keeps a way back to it: the real and *)
(* the saved user id stay root.                                            *)
CanReturn ==
    ~nonroot_daemon /\ ~dropped => cred.ruid = Root /\ cred.suid = Root

(* A process without root, from the start or since RootRevoke, has one     *)
(* identity, that of the session.                                          *)
OneIdentity ==
    nonroot_daemon \/ dropped =>
        /\ uid # Root
        /\ cred.ruid = uid /\ cred.euid = uid /\ cred.suid = uid
        /\ cred.rgid = gid /\ cred.egid = gid /\ cred.sgid = gid

(* The inductive invariant. *)
IInv == TypeOK /\ ActsAsSession /\ NoRootAfterRevoke /\ CanReturn /\ OneIdentity

Switching == ~nonroot_daemon /\ ~dropped /\ ~disable_id_switching

(* Where brackets are plain, each is honoured, whatever brackets, logins   *)
(* and setups came before: in one of PRIVS_ROOT the process acts as root,  *)
(* in one of PRIVS_USER as the user who logged in, with the group of that  *)
(* user, and outside of all as the session's user, for "the last           *)
(* PRIVS_RELINQUISH call actually releases the privs" (privs.c).  The      *)
(* counters do not make this true of nested brackets.                      *)
BracketsHonoured ==
    plain =>
        /\ held = <<>> => cred.euid = uid
        /\ Switching /\ held = <<"root">> => cred.euid = Root
        /\ Switching /\ held = <<"user">> =>
              cred.euid = login_uid /\ cred.egid = login_gid

(* What makes it inductive: of plain brackets at most one is open, and the *)
(* counters and the credentials tell which.                                *)
Brackets ==
    plain =>
        /\ held \in {<<>>, <<"root">>, <<"user">>}
        /\ held # <<>> => ~disable_id_switching
        /\ ~nonroot_daemon /\ ~dropped =>
              /\ root_privs = IF held = <<"root">> THEN 1 ELSE 0
              /\ user_privs = IF held = <<"user">> THEN 1 ELSE 0
              /\ held = <<"root">> => cred.euid = Root
              /\ held = <<"user">> => /\ login_uid # Root
                                      /\ cred.euid = login_uid /\ cred.egid = login_gid
=============================================================================
