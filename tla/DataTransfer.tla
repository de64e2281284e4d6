---------------------------- MODULE DataTransfer ----------------------------
(***************************************************************************)
(* The data connection of one FTP session, and the commands that use it:   *)
(* src/data.c with PASV, EPSV, PORT and EPRT of mod_core, RETR, STOR,      *)
(* APPE, STOU and ABOR of mod_xfer, LIST of mod_ls and MLSD of mod_facts.  *)
(*                                                                         *)
(* One process carries out a command at a time, but a transfer is          *)
(* interrupted at any point by SIGURG (the urgent byte before an ABOR), by *)
(* TimeoutStalled, by the end of the session, or by an ABOR that is found  *)
(* on the control connection between two blocks of data.  All of them      *)
(* undo, in pieces, what the command in progress has set up.               *)
(*                                                                         *)
(* What the functions of data.c share is the record st; each function is   *)
(* an operator from the record before the call to the record after it.     *)
(***************************************************************************)
EXTENDS Integers

CONSTANTS
    MaxBlocks,        \* bound: blocks of data moved by one command
    HiddenStores,     \* the values of the directives HiddenStores,
    DeleteAborted,    \* DeleteAbortedStores ("unset", "on" or "off")
    RootRevoke        \* and RootRevoke that are considered

ASSUME ConfAssumption ==
    /\ MaxBlocks \in Nat
    /\ HiddenStores \subseteq BOOLEAN
    /\ DeleteAborted \subseteq {"unset", "on", "off"}
    /\ RootRevoke \subseteq BOOLEAN

VARIABLES
    conf,   \* the configuration: [hidden, delete, revoke]
    pc,     \* where the process is
    cmd,    \* the transfer command being carried out, or the last one
    res,    \* how moving data ended; in pr_data_abort, whether true_abort
    left,   \* blocks that may still be moved
    client, \* [abor: an ABOR sent and not read yet; oob: its urgent byte]
    st      \* the state shared by the functions below

vars == <<conf, pc, cmd, res, left, client, st>>

Uploads == {"STOR", "APPE", "STOU"}
FileCommands == Uploads \cup {"RETR"}
Commands == Uploads \cup {"RETR", "LIST", "MLSD"}
SF == {"PASSIVE", "ABORT", "XFER", "POST_ABORT", "EPSV_ALL"}

\* "end" is reached when no more data is to be moved, "aborting" and "closing"
\* last while the data connection lingers, in pr_data_abort and pr_data_close2.
Places == {"loop", "pre", "opening", "xfer", "polled", "end", "aborting",
           "closing", "closed"}

State == [d : {"none", "listen", "dead", "connecting", "open", "lingering"},
          sf : SUBSET SF,          \* session.sf_flags
          nstrm : BOOLEAN,         \* nstrm is set: the stream SIGURG aborts
          urg : BOOLEAN,           \* data_urgent is the handler of SIGURG
          stalled : BOOLEAN,       \* the timer PR_TIMER_STALLED exists
          fh : {"none", "stor", "retr"},
          p : BOOLEAN,             \* session.xfer.p, and so on
          dir : {"none", "RD", "WR"},
          type : {"DEFAULT", "APPEND", "HIDDEN", "UNIQUE"},
          path : BOOLEAN,
          path_hidden : BOOLEAN,
          rest : {"none", "REST", "RANG"}, \* session.restart_pos, range_len
          errs : BOOLEAN,          \* resp_err_list is not empty
          said : {"none", "ok", "failed", "twice"}, \* final replies sent
          file : {"absent", "old", "part", "new"},  \* the file named
          hid : BOOLEAN,           \* the hidden file exists
          torn : BOOLEAN]          \* a transfer was left open: InstallFails

-----------------------------------------------------------------------------
(* Replies *)

Say(s, reply) == [s EXCEPT !.said = IF @ = "none" THEN reply ELSE "twice"]
pr_response_add_err(s) == [s EXCEPT !.errs = TRUE]
pr_response_clear(s) == [s EXCEPT !.errs = FALSE]
FlushErr(s) == pr_response_clear(IF s.errs THEN Say(s, "failed") ELSE s)

-----------------------------------------------------------------------------
(* data.c *)

pr_data_clear_xfer_pool(s) ==
    [s EXCEPT !.p = FALSE, !.dir = "none", !.path = FALSE, !.path_hidden = FALSE]

pr_data_reset(s) == [s EXCEPT !.d = "none", !.sf = @ \ SF, !.torn = FALSE]

data_new_xfer(s, dir) ==
    [pr_data_clear_xfer_pool(s) EXCEPT !.p = TRUE, !.dir = dir]

pr_data_init(s, dir) ==
    IF s.p THEN [s EXCEPT !.dir = dir] ELSE data_new_xfer(s, dir)

\* (Mutant: the stream is forgotten once the connection has been closed)
LingerFirst(s) == [s EXCEPT !.d = IF @ = "none" THEN @ ELSE "lingering"]

\* Both of the functions that end a transfer first forget the stream, and then
\* wait for the connection to be closed.
Linger(s) == [s EXCEPT !.nstrm = FALSE,
                       !.d = IF @ = "none" THEN @ ELSE "lingering"]

pr_data_close2(s) ==
    [Linger(s) EXCEPT !.d = "none", !.urg = FALSE, !.stalled = FALSE,
                      !.sf = @ \ {"PASSIVE", "ABORT", "XFER"}, !.torn = FALSE]

pr_data_cleanup(s) ==
    [pr_data_clear_xfer_pool([s EXCEPT !.d = "none"]) EXCEPT !.type = "DEFAULT"]

TrueAbort(s) == "ABORT" \in s.sf

\* pr_data_abort up to the point where the connection lingers: a true abort
\* sends 426 at once if the connection has a stream to read from.
AbortBegins(s) ==
    Linger(IF TrueAbort(s) /\ s.d \in {"open", "listen"} THEN Say(s, "failed")
           ELSE s)

\* (Mutant: 426 is queued for a true abort too)
AbortQueues(s, quiet, true_abort) ==
    LET t == [s EXCEPT !.d = "none", !.stalled = FALSE, !.torn = FALSE,
                       !.sf = (@ \ {"XFER", "PASSIVE"})
                              \cup (IF true_abort THEN {"POST_ABORT"} ELSE {})]
    IN  IF ~quiet THEN pr_response_add_err(t) ELSE t

AbortEnds(s, quiet, true_abort) ==
    LET t == [s EXCEPT !.d = "none", !.stalled = FALSE, !.torn = FALSE,
                       !.sf = (@ \ {"XFER", "PASSIVE"})
                              \cup (IF true_abort THEN {"POST_ABORT"} ELSE {})]
    IN  IF ~quiet /\ ~true_abort THEN pr_response_add_err(t) ELSE t

pr_data_abort(s, quiet) == AbortEnds(AbortBegins(s), quiet, TrueAbort(s))

Aborts(s) == [s EXCEPT !.sf = @ \cup {"ABORT"}]

data_urgent(s) == IF "XFER" \in s.sf THEN Aborts(s) ELSE s

Passive(s) == s.sf \cap {"PASSIVE", "EPSV_ALL"} # {}

\* pr_data_open expects a connection in passive mode, and none in active mode;
\* an active one cannot be had with RootRevoke.  Neither failure is answered.
Expected(s) == Passive(s) <=> s.d # "none"
Revoked(s) == conf.revoke /\ ~Passive(s)
Connected(s) == Expected(s) /\ ~Revoked(s)

\* (Mutant: only an active connection is watched by the timer)
OpenUnwatched(s, dir) ==
    LET t == [s EXCEPT !.sf = @ \ {"ABORT", "POST_ABORT"}]
        u == IF t.p THEN [t EXCEPT !.dir = dir] ELSE data_new_xfer(t, dir)
    IN  [u EXCEPT !.stalled = ~Passive(s),
                  !.d = IF Passive(s) THEN @ ELSE "connecting"]

\* The part of pr_data_open before it waits for the client.
OpenBegins(s, dir) ==
    LET t == [s EXCEPT !.sf = @ \ {"ABORT", "POST_ABORT"}]
        u == IF t.p THEN [t EXCEPT !.dir = dir] ELSE data_new_xfer(t, dir)
    IN  [u EXCEPT !.stalled = TRUE,
                  !.d = IF Passive(s) THEN @ ELSE "connecting"]

\* 150 is sent, and SIGURG may interrupt from now on.
OpenEnds(s) == [s EXCEPT !.d = "open", !.nstrm = TRUE, !.urg = TRUE,
                         !.sf = @ \cup {"XFER"}, !.torn = FALSE]

-----------------------------------------------------------------------------
(* mod_xfer.c *)

RemovesHidden(s) == s.type = "HIDDEN" /\ conf.delete # "off" /\ s.path_hidden

retr_abort(s) == [s EXCEPT !.fh = "none"]

stor_abort(s) ==
    [s EXCEPT !.fh = "none",
              !.hid = @ /\ ~RemovesHidden(s),
              !.file = IF s.path /\ conf.delete = "on" THEN "absent" ELSE @]

\* Closes the file being written or read, whichever it is.
CloseFile(s) == CASE s.fh = "stor" -> stor_abort(s)
                  [] s.fh = "retr" -> retr_abort(s)
                  [] OTHER -> s

\* (Mutant: the restart position survives a transfer that failed)
ErrCleanupKeepsRest(s) ==
    [pr_data_clear_xfer_pool([s EXCEPT !.hid = @ /\ ~RemovesHidden(s)])
        EXCEPT !.type = "DEFAULT"]

xfer_err_cleanup(s) ==
    [pr_data_clear_xfer_pool([s EXCEPT !.hid = @ /\ ~RemovesHidden(s)])
        EXCEPT !.type = "DEFAULT", !.rest = "none"]

xfer_log_stor(s) == [pr_data_cleanup(s) EXCEPT !.rest = "none"]

facts_mlsd_cleanup(s) == [pr_data_clear_xfer_pool(s) EXCEPT !.type = "DEFAULT"]

\* LOG_CMD_ERR handlers
ErrCleanup(s) == CASE cmd = "LIST" -> pr_data_cleanup(s)
                   [] cmd = "MLSD" -> facts_mlsd_cleanup(s)
                   [] OTHER -> xfer_err_cleanup(s)

\* LOG_CMD handlers
LogCleanup(s) == CASE cmd = "LIST" -> pr_data_cleanup(s)
                   [] cmd = "MLSD" -> facts_mlsd_cleanup(s)
                   [] OTHER -> xfer_log_stor(s)

\* The command is over: its handler has failed, or has succeeded.
Failed(s) == FlushErr(ErrCleanup(s))
Succeeded(s) == Say(LogCleanup(s), "ok")

\* ABOR, with its LOG_CMD handler; its own replies are not counted.
xfer_abor(s) ==
    LET t == CASE s.dir = "RD" -> stor_abort(s)
               [] s.dir = "WR" -> retr_abort(s)
               [] OTHER -> s
        u == pr_data_cleanup(pr_data_reset(pr_data_abort(pr_response_clear(t), FALSE)))
    IN  [u EXCEPT !.said = s.said]

\* What is undone when the session ends (sess_cleanup, then xfer_exit_ev).
Exit(s) ==
    LET t == CloseFile([s EXCEPT !.d = "none"])
    IN  IF "XFER" \in t.sf THEN ErrCleanup(pr_data_abort(t, FALSE)) ELSE t

-----------------------------------------------------------------------------
Idle == [d |-> "none", sf |-> {}, nstrm |-> FALSE, urg |-> FALSE,
         stalled |-> FALSE, fh |-> "none", p |-> FALSE, dir |-> "none",
         type |-> "DEFAULT", path |-> FALSE, path_hidden |-> FALSE,
         rest |-> "none", errs |-> FALSE, said |-> "none", file |-> "absent", hid |-> FALSE,
         torn |-> FALSE]

Init ==
    /\ conf \in [hidden : HiddenStores, delete : DeleteAborted, revoke : RootRevoke]
    /\ pc = "loop"
    /\ cmd = "LIST"
    /\ res = "ok"
    /\ left = 0
    /\ client = [abor |-> "none", oob |-> FALSE]
    /\ st = Idle

Hidden == conf.hidden /\ cmd = "STOR"

-----------------------------------------------------------------------------
(* Between transfers.  The control connection is read in order: an ABOR    *)
(* that has been sent comes before what is sent after it.                  *)

Reads == pc = "loop" /\ client.abor = "none"
Stays == UNCHANGED <<conf, pc, cmd, res, left, client>>

\* PASV, and EPSV, which alone is served once EPSV ALL was sent.
core_pasv(epsv) ==
    /\ Reads
    /\ epsv \/ "EPSV_ALL" \notin st.sf
    /\ \/ st' = [st EXCEPT !.d = "listen", !.sf = @ \cup {"PASSIVE"}]
       \/ st' = [st EXCEPT !.d = "none"]  \* no socket could be made: 425
       \/ st' = [st EXCEPT !.d = "dead"]  \* it could not be listened to: 425
    /\ Stays

core_epsv_all ==
    /\ Reads
    /\ st' = [st EXCEPT !.sf = @ \cup {"EPSV_ALL"}]
    /\ Stays

\* PORT and EPRT
core_port ==
    /\ Reads
    /\ "EPSV_ALL" \notin st.sf
    /\ ~conf.revoke
    /\ st' = [st EXCEPT !.d = "none", !.sf = @ \ {"PASSIVE"}]
    /\ Stays

\* REST and RANG replace each other; "REST 0" and an empty range reset both.
SetRest(s, r) == [s EXCEPT !.rest = r]

xfer_rest(r) ==
    /\ Reads
    /\ st' = SetRest(st, r)
    /\ Stays

ReadAbor ==
    /\ pc = "loop"
    /\ client.abor = "queued"
    /\ ~client.oob
    /\ client' = [client EXCEPT !.abor = "none"]
    /\ st' = xfer_abor(st)
    /\ UNCHANGED <<conf, pc, cmd, res, left>>

\* A transfer command is read; it names a file that exists or does not.
Start(c, f) ==
    /\ Reads
    /\ pc' = "pre"
    /\ cmd' = c
    /\ left' = MaxBlocks
    /\ st' = [pr_response_clear(st) EXCEPT !.said = "none", !.file = f]
    /\ UNCHANGED <<conf, res, client>>

-----------------------------------------------------------------------------
(* The command up to the opening of the data connection *)

\* The type that the PRE_CMD handler of an upload sets
StoreType == CASE cmd = "APPE" -> "APPEND"
               [] cmd = "STOU" -> "UNIQUE"
               [] Hidden -> "HIDDEN"
               [] OTHER -> "DEFAULT"

\* A file is truncated unless it is appended to or resumed; the position of REST
\* is used up by the command that seeks there.
Opened(file, rest) ==
    IF Hidden \/ (file = "old" /\ (cmd = "APPE" \/ rest # "none"))
    THEN file ELSE "part"
Consumed(rest) == IF rest = "REST" THEN "none" ELSE rest

\* What may not be resumed: with HiddenStores no upload, though APPE itself is
\* then done as without.
Resumable == CASE cmd = "STOU" \/ (conf.hidden /\ cmd \in {"STOR", "APPE"})
                    -> st.rest = "none"
               [] cmd = "APPE" -> st.rest # "RANG"
               [] OTHER -> TRUE

\* (Mutant: the paths are not set again)
StoreLosesPath(s) ==
    LET opened == [s EXCEPT !.type = StoreType, !.fh = "stor", !.path = TRUE,
                            !.path_hidden = Hidden, !.hid = @ \/ Hidden,
                            !.file = Opened(@, s.rest), !.rest = Consumed(@)]
    IN  pr_data_init(opened, "RD")

\* xfer_stor opens the file it writes to; alarms are blocked while the pool is
\* made anew and the paths are set again.
StoreOpens(s) ==
    LET opened == [s EXCEPT !.type = StoreType, !.fh = "stor", !.path = TRUE,
                            !.path_hidden = Hidden, !.hid = @ \/ Hidden,
                            !.file = Opened(@, s.rest), !.rest = Consumed(@)]
    IN  [pr_data_init(opened, "RD") EXCEPT !.path = TRUE, !.path_hidden = Hidden]

RetrOpens(s) ==
    [pr_data_init([s EXCEPT !.fh = "retr", !.rest = Consumed(@)], "WR")
        EXCEPT !.path = TRUE]

FileOpens(s) == CASE cmd \in Uploads -> StoreOpens(s)
                  [] cmd = "RETR" -> RetrOpens(s)
                  [] OTHER -> s

\* A handler whose pr_data_open failed.  genericlist looks at the flags of the
\* session whatever its caller has returned.
OpenFailed(s) ==
    LET t == CASE cmd \in Uploads -> pr_data_abort(stor_abort(s), TRUE)
               [] cmd = "RETR" -> pr_data_abort(retr_abort(s), TRUE)
               [] cmd = "LIST" /\ TrueAbort(s) -> pr_data_abort(s, FALSE)
               [] cmd = "LIST" /\ ~TrueAbort(s) /\ "XFER" \in s.sf -> pr_data_close2(s)
               [] OTHER -> s
    IN  Failed(t)

\* Back in cmd_loop; what is local to the handler is gone.
Returns(s) ==
    /\ pc' = "loop"
    /\ st' = s
    /\ res' = "ok"
    /\ left' = 0
    /\ client' = [client EXCEPT !.abor = IF @ = "read" THEN "none" ELSE @]
    /\ UNCHANGED <<conf, cmd>>

\* The file cannot be had, or may not: the PRE_CMD handler, or opening it, fails.
Refuse == pc = "pre" /\ Returns(Failed(pr_response_add_err(st)))

\* The position is beyond the end of a file that was just made: 554
RefuseOffset ==
    /\ pc = "pre"
    /\ cmd \in {"STOR", "APPE"} /\ ~Hidden
    /\ st.file = "absent" /\ st.rest # "none" /\ Resumable
    /\ Returns(Failed(pr_response_add_err([st EXCEPT !.file = "part"])))

\* A hidden file of that name must not exist.
Handle ==
    /\ pc = "pre"
    /\ Hidden => ~st.hid
    /\ Resumable
    /\ cmd = "RETR" \/ (cmd \in Uploads /\ st.rest # "none") => st.file = "old"
    /\ LET s == FileOpens(st)
           t == OpenBegins(s, IF cmd \in Uploads THEN "RD" ELSE "WR")
           no_conn == [t EXCEPT !.d = "none", !.stalled = s.stalled]
       IN  \/ /\ ~Expected(s)
              /\ Returns(OpenFailed(s))
           \/ /\ Expected(s) /\ Revoked(s)
              /\ Returns(OpenFailed(no_conn))
           \/ /\ Connected(s) /\ ~Passive(s)  \* no socket could be made: 425
              /\ Returns(OpenFailed(pr_response_add_err(no_conn)))
           \/ /\ Connected(s)
              /\ pc' = "opening"
              /\ st' = t
              /\ UNCHANGED <<conf, cmd, res, left, client>>

Connects ==
    /\ pc = "opening"
    /\ st.d \in {"listen", "connecting"}
    /\ pc' = "xfer"
    /\ st' = OpenEnds(st)
    /\ UNCHANGED <<conf, cmd, res, left, client>>

ConnectFails ==
    /\ pc = "opening"
    /\ Returns(OpenFailed(pr_data_close2(pr_response_add_err(st))))

-----------------------------------------------------------------------------
(* Moving data *)

Goes(to, r, s) == pc' = to /\ res' = r /\ st' = s /\ UNCHANGED <<conf, cmd, left>>

\* poll_ctrl: uploads always look at the control connection; sendfile does not,
\* and a listing only does when its buffer is flushed.
SeesAbor == client.abor = "queued" /\ ~client.oob /\ ~TrueAbort(st)

PollNothing ==
    /\ pc = "xfer"
    /\ SeesAbor => cmd \notin Uploads
    /\ Goes("polled", res, st)
    /\ UNCHANGED client

\* The ABOR is recognised and left to be read later.
PollPeeks ==
    /\ pc = "xfer"
    /\ SeesAbor
    /\ Goes("polled", res, Aborts(st))
    /\ UNCHANGED client

\* It is not (something precedes it): it is read and carried out here.
PollDispatches ==
    /\ pc = "xfer"
    /\ SeesAbor
    /\ Goes("polled", res, xfer_abor(st))
    /\ client' = [client EXCEPT !.abor = "read"]

\* REST and RANG are served in the middle of a transfer.
PollRest ==
    /\ pc = "xfer"
    /\ client.abor = "none"
    /\ ~TrueAbort(st)
    /\ st.rest = "none"
    /\ \E r \in {"REST", "RANG"} : Goes("polled", res, SetRest(pr_response_clear(st), r))
    /\ UNCHANGED client

Block ==
    /\ pc = "polled"
    /\ st.d = "open"
    /\ ~TrueAbort(st)
    /\ left > 0
    /\ left' = left - 1
    /\ pc' = "xfer"
    /\ st' = [st EXCEPT !.file = IF cmd \in Uploads /\ ~Hidden THEN "part" ELSE @]
    /\ UNCHANGED <<conf, cmd, res, client>>

\* The end of the data, or an aborted stream, which looks like it
DataEnds ==
    /\ pc = "polled"
    /\ st.d = "open"
    /\ Goes("end", "ok", st)
    /\ UNCHANGED client

\* An error of the connection, of the file, or a limit that is exceeded
DataBreaks ==
    /\ pc = "polled"
    /\ st.d = "open"
    /\ Goes("end", "error", st)
    /\ UNCHANGED client

\* pr_data_xfer finds that the connection is gone.  mod_ls ignores the result
\* of some flushes, and may have nothing more to send.
DataGone ==
    /\ pc = "polled"
    /\ st.d = "none"
    /\ \/ Goes("end", "error", st)
       \/ cmd = "LIST" /\ Goes("end", "ok", st)
    /\ UNCHANGED client

-----------------------------------------------------------------------------
(* The end of a transfer *)

Abandons(s) == /\ Goes("aborting", IF TrueAbort(s) THEN "aborted" ELSE "error",
                       AbortBegins(s))
               /\ UNCHANGED client
Closes(r, s) == Goes("closing", r, Linger(s)) /\ UNCHANGED client

EndStore ==
    /\ pc = "end"
    /\ cmd \in Uploads
    /\ TrueAbort(st) \/ res = "error"
    /\ Abandons(stor_abort(st))

\* What stor_complete and the renaming make of the files
Completes(s) == [s EXCEPT !.fh = "none", !.file = "new",
                          !.hid = @ /\ ~s.path_hidden, !.path_hidden = FALSE]

Install ==
    /\ pc = "end"
    /\ cmd \in Uploads
    /\ ~TrueAbort(st) /\ res = "ok"
    /\ Closes("ok", Completes(st))

\* The file cannot be closed, or not be renamed: 550 or 552.  The data
\* connection is left as it is.
InstallFails ==
    /\ pc = "end"
    /\ cmd \in Uploads
    /\ ~TrueAbort(st) /\ res = "ok"
    /\ Returns(Failed(pr_response_add_err(
           [st EXCEPT !.fh = "none", !.hid = @ /\ ~st.path_hidden, !.torn = TRUE])))

EndRetr ==
    /\ pc = "end"
    /\ cmd = "RETR"
    /\ \/ /\ res = "ok" /\ ~TrueAbort(st)
          /\ Closes("ok", [st EXCEPT !.fh = "none"])
       \/ /\ TrueAbort(st) \/ (res = "error" /\ st.d # "none")
          /\ Abandons(retr_abort(st))
       \/ /\ res = "error" /\ st.d = "none"  \* aborted already
          /\ Returns(Failed(retr_abort(st)))

\* dolist, ls_terminate and genericlist
EndList ==
    /\ pc = "end"
    /\ cmd = "LIST"
    /\ \/ (TrueAbort(st) \/ res = "error") /\ Abandons(st)
       \/ ~TrueAbort(st) /\ res = "ok" /\ "XFER" \in st.sf /\ Closes("ok", st)
       \/ /\ ~TrueAbort(st) /\ res = "ok" /\ "XFER" \notin st.sf
          /\ Returns(LogCleanup(st))

\* An abort is noticed in the loop over the directory, after it, or not at all.
EndMlsd ==
    /\ pc = "end"
    /\ cmd = "MLSD"
    /\ \/ (TrueAbort(st) \/ res = "error") /\ Abandons(st)
       \/ TrueAbort(st) /\ res = "ok" /\ Closes("error", st)
       \/ res = "ok" /\ Closes("ok", st)

\* An abort that comes while the connection lingers is seen by the listings.
Abandoned ==
    /\ pc = "aborting"
    /\ LET s == AbortEnds(st, FALSE, res = "aborted")
           late == CASE cmd = "LIST" /\ TrueAbort(s) -> pr_data_abort(s, FALSE)
                     [] cmd = "MLSD" /\ TrueAbort(s) -> pr_data_close2(s)
                     [] OTHER -> s
       IN  Returns(Failed(late))

Closed ==
    /\ pc = "closing"
    /\ Returns(IF res = "ok" THEN Succeeded(pr_data_close2(st))
               ELSE Failed(pr_data_close2(st)))

-----------------------------------------------------------------------------
(* What comes at any time *)

\* At most one ABOR for each command, with an urgent byte before it or without
SendAbor(oob) ==
    /\ pc # "closed"
    /\ client.abor = "none"
    /\ client' = [abor |-> "queued", oob |-> oob]
    /\ UNCHANGED <<conf, pc, cmd, res, left, st>>

\* Aborting a stream that is gone may go unnoticed, or end the process.
Dangling(s) == s.urg /\ "XFER" \in s.sf /\ s.nstrm /\ s.d # "open"

SIGURG ==
    /\ pc # "closed"
    /\ client.oob
    /\ client' = [client EXCEPT !.oob = FALSE]
    /\ \/ /\ st' = IF st.urg THEN data_urgent(st) ELSE st
          /\ UNCHANGED pc
       \/ /\ Dangling(st)
          /\ st' = Exit(st)
          /\ pc' = "closed"
    /\ UNCHANGED <<conf, cmd, res, left>>

\* Where signals are handled and timers run
Handles == pc \in {"loop", "opening", "xfer", "polled", "aborting", "closing"}
Ends(s) == pc' = "closed" /\ st' = s /\ UNCHANGED <<conf, cmd, res, left, client>>

\* The client hangs up, an idle timeout, SIGTERM...
SessionEnds == Handles /\ Ends(Exit(st))

\* The event core.timeout-stalled is for a transfer that has not started yet.
stalled_timeout_cb ==
    /\ Handles
    /\ st.stalled
    /\ Ends(Exit(IF "XFER" \in st.sf THEN st ELSE CloseFile(st)))

-----------------------------------------------------------------------------
Control == \/ \E epsv \in BOOLEAN : core_pasv(epsv)
           \/ \E r \in {"none", "REST", "RANG"} : xfer_rest(r)
           \/ core_epsv_all \/ core_port \/ ReadAbor
           \/ \E c \in Commands, f \in {"absent", "old"} : Start(c, f)

\* The steps that the process takes without waiting for the client
Works == \/ Refuse \/ RefuseOffset \/ Handle
         \/ PollNothing \/ PollPeeks \/ PollDispatches \/ DataGone
         \/ EndStore \/ Install \/ InstallFails \/ EndRetr \/ EndList \/ EndMlsd
         \/ Abandoned \/ Closed

Next == \/ Control \/ Works
        \/ Connects \/ ConnectFails \/ PollRest \/ Block \/ DataEnds \/ DataBreaks
        \/ \E oob \in BOOLEAN : SendAbor(oob)
        \/ SIGURG \/ SessionEnds \/ stalled_timeout_cb

\* TimeoutStalled is not 0 (its default is an hour).
Fairness == WF_vars(Works) /\ WF_vars(stalled_timeout_cb)

Spec == Init /\ [][Next]_vars /\ Fairness

-----------------------------------------------------------------------------
(* Properties *)

TypeOK ==
    /\ conf \in [hidden : BOOLEAN, delete : {"unset", "on", "off"}, revoke : BOOLEAN]
    /\ pc \in Places
    /\ cmd \in Commands
    /\ res \in {"ok", "error", "aborted"}
    /\ left \in 0..MaxBlocks
    /\ client \in [abor : {"none", "queued", "read"}, oob : BOOLEAN]
    /\ st \in State

Phase == CASE pc = "loop" -> "idle"
           [] pc \in {"pre", "opening"} -> "asked"
           [] pc = "closed" -> "closed"
           [] OTHER -> "moving"

Kind == CASE cmd \notin Uploads -> "download"
          [] Hidden -> "hidden"
          [] OTHER -> "upload"

Ready == pc = "pre" => Connected(st)

Interrupted == /\ pc \notin {"loop", "pre", "closed"}
               /\ TrueAbort(st) \/ client.abor = "read"

\* The promise of module Transfer is kept: a transfer command gets at most one
\* final reply, 226 only once its data has moved and its file is in place, none
\* at all only if it was interrupted or had no data connection; and a hidden
\* upload does not touch the file before its end.
Promised == INSTANCE Transfer WITH
                phase <- Phase,
                kind <- Kind,
                ready <- Ready,
                aborted <- Interrupted,
                answer <- st.said,
                file <- st.file,
                purge <- (conf.delete = "on")

\* See Promised.
Promise == Promised!Spec

\* When SIGURG arrives, the stream that data_urgent aborts is one of a data
\* connection that has not begun to be closed (pr_netio_abort is given a stream
\* that still exists), unless the transfer was left open by a failed store.
SafeAbort == ~st.torn => ~Dangling(st)

Clean(s) ==
    /\ s.fh = "none" /\ ~s.p /\ s.dir = "none" /\ s.type = "DEFAULT"
    /\ ~s.path /\ ~s.path_hidden
    /\ ~s.torn => /\ "XFER" \notin s.sf
                  /\ ~s.nstrm /\ ~s.stalled
                  /\ s.d \in {"none", "listen", "dead"}

\* Whichever way a transfer ended, the next command starts from a clean
\* session.xfer, without an open file; and unless the transfer was left open, with
\* nothing that would still act on it: no timer, flag or stream.  A restart
\* position given with REST or RANG does not outlive the file transfer after it.
CleanLoop ==
    [][pc' = "loop" =>
          /\ Clean(st')
          /\ pc # "loop" /\ cmd \in FileCommands => st'.rest = "none"]_vars

\* The temporary file of a hidden upload does not outlive it, whether it is
\* renamed, aborted, or the session ends on it, unless DeleteAbortedStores is off.
HiddenGone ==
    pc \in {"loop", "closed"} /\ conf.delete # "off" => ~st.hid

\* A transfer command comes to an end, or the session does: TimeoutStalled
\* watches the data connection from the moment it is waited for.
TransferEnds == pc # "loop" ~> pc \in {"loop", "closed"}

\* When a hidden upload is aborted, the file it was to replace is not removed:
\* "remove only hidden file, not real one", says stor_abort.
KeepsRealFile ==
    [][Hidden /\ pc # "loop" /\ st.file = "old" => st'.file # "absent"]_vars

-----------------------------------------------------------------------------
(* The inductive invariant behind the safety properties *)

\* What the handler of the command has opened and noted in session.xfer
Held(s) ==
    IF cmd \in Uploads
    THEN /\ s.fh = "stor" /\ s.p /\ s.dir = "RD" /\ s.path
         /\ s.type = StoreType /\ s.path_hidden = Hidden
    ELSE s.fh = (IF cmd = "RETR" THEN "retr" ELSE "none") /\ s.dir = "WR"

\* A transfer in progress, and what an ABOR that was carried out within it has
\* left of it
Live(s) == /\ s.d = "open" /\ s.nstrm /\ "XFER" \in s.sf
           /\ ~s.errs /\ Held(s) /\ client.abor # "read"
Gone(s) == /\ s.d = "none" /\ ~s.nstrm /\ ~s.stalled /\ s.sf = {}
           /\ s.fh = "none" /\ ~s.path /\ s.type = "DEFAULT"
           /\ client.abor = "read"

Stages ==
    /\ pc \in {"loop", "pre"} => Clean(st)
    /\ pc = "opening" => /\ Held(st)
                         /\ ~st.torn => "XFER" \notin st.sf /\ ~st.nstrm
    /\ pc = "xfer" => Live(st)
    /\ pc = "polled" => Live(st) \/ Gone(st)
    /\ pc = "end" => Live(st) \/ (Gone(st) /\ (cmd = "LIST" \/ res = "error"))
    /\ pc \in {"xfer", "polled", "end", "aborting", "closing"} => ~st.torn
    /\ pc \in {"aborting", "closing"} => ~st.nstrm /\ st.fh = "none"
    /\ pc = "closed" => "XFER" \notin st.sf

Answers ==
    /\ st.said # "twice"
    /\ pc \in {"pre", "opening", "xfer", "polled", "end", "closing"} => st.said = "none"
    /\ pc \in {"pre", "opening", "closing"} => ~st.errs
    /\ pc = "aborting" => IF res = "aborted" THEN ~st.errs /\ TrueAbort(st)
                          ELSE st.said = "none"
    /\ pc = "closing" => (res = "ok" \/ TrueAbort(st))
    /\ client.abor = "read" => pc \in {"polled", "end", "aborting", "closed"}

StoredFiles ==
    /\ pc \in {"pre", "opening", "xfer", "polled", "end", "aborting"} => st.file # "new"
    /\ pc = "closing" => /\ cmd \in Uploads <=> st.file = "new"
                         /\ cmd \in Uploads => res = "ok"
    /\ st.hid /\ conf.delete # "off" =>
          Hidden /\ pc \in {"opening", "xfer", "polled", "end"} /\ st.fh = "stor"

IInv == TypeOK /\ Stages /\ Answers /\ StoredFiles
=============================================================================
