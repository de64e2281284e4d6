------------------------- MODULE DataTransferProofs -------------------------
(***************************************************************************)
(* Proofs about DataTransfer: its inductive invariant, the safety of the   *)
(* urgent data, the fate of hidden files, what a command leaves behind     *)
(* (SafeAbort, HiddenGone, CleanLoop), and that the data connection keeps  *)
(* the promise of module Transfer.                                         *)
(*                                                                         *)
(* The functions of data.c are operators on the record st.  The lemmas     *)
(* first say which record each of them returns (...Typed) and what it does *)
(* to the fields that the invariant speaks of (...Fields); then there is   *)
(* one lemma for each action (...Step), which says that it preserves the   *)
(* invariant and what it does to what the client sees; the refinement is   *)
(* proved from those (...Refines).                                         *)
(***************************************************************************)
EXTENDS DataTransfer, TLAPS

\* The states of the data connection, as State lists them
Connections == {"none", "listen", "dead", "connecting", "open", "lingering"}
USE DEF Connections

\* Replacing one field by a value of its type gives a state again.
LEMMA SetField ==
    ASSUME NEW s \in State
    PROVE  /\ \A v \in Connections : [s EXCEPT !.d = v] \in State
           /\ \A v \in SUBSET SF : [s EXCEPT !.sf = v] \in State
           /\ \A v \in BOOLEAN : /\ [s EXCEPT !.nstrm = v] \in State
                                 /\ [s EXCEPT !.urg = v] \in State
                                 /\ [s EXCEPT !.stalled = v] \in State
                                 /\ [s EXCEPT !.p = v] \in State
                                 /\ [s EXCEPT !.path = v] \in State
                                 /\ [s EXCEPT !.path_hidden = v] \in State
                                 /\ [s EXCEPT !.errs = v] \in State
                                 /\ [s EXCEPT !.hid = v] \in State
                                 /\ [s EXCEPT !.torn = v] \in State
           /\ \A v \in {"none", "stor", "retr"} : [s EXCEPT !.fh = v] \in State
           /\ \A v \in {"none", "RD", "WR"} : [s EXCEPT !.dir = v] \in State
           /\ \A v \in {"DEFAULT", "APPEND", "HIDDEN", "UNIQUE"} :
                 [s EXCEPT !.type = v] \in State
           /\ \A v \in {"none", "REST", "RANG"} : [s EXCEPT !.rest = v] \in State
           /\ \A v \in {"none", "ok", "failed", "twice"} : [s EXCEPT !.said = v] \in State
           /\ \A v \in {"absent", "old", "part", "new"} : [s EXCEPT !.file = v] \in State
<1>1. \A v \in Connections : [s EXCEPT !.d = v] \in State
  BY DEF State
<1>2. \A v \in SUBSET SF : [s EXCEPT !.sf = v] \in State
  BY DEF State
<1>3. ASSUME NEW v \in BOOLEAN
      PROVE  /\ [s EXCEPT !.nstrm = v] \in State
             /\ [s EXCEPT !.urg = v] \in State
             /\ [s EXCEPT !.stalled = v] \in State
             /\ [s EXCEPT !.p = v] \in State
  BY DEF State
<1>4. ASSUME NEW v \in BOOLEAN
      PROVE  /\ [s EXCEPT !.path = v] \in State
             /\ [s EXCEPT !.path_hidden = v] \in State
             /\ [s EXCEPT !.errs = v] \in State
             /\ [s EXCEPT !.hid = v] \in State
             /\ [s EXCEPT !.torn = v] \in State
  BY DEF State
<1>5. /\ \A v \in {"none", "stor", "retr"} : [s EXCEPT !.fh = v] \in State
      /\ \A v \in {"none", "RD", "WR"} : [s EXCEPT !.dir = v] \in State
  BY DEF State
<1>6. /\ \A v \in {"DEFAULT", "APPEND", "HIDDEN", "UNIQUE"} :
                 [s EXCEPT !.type = v] \in State
      /\ \A v \in {"none", "REST", "RANG"} : [s EXCEPT !.rest = v] \in State
  BY DEF State
<1>7. /\ \A v \in {"none", "ok", "failed", "twice"} : [s EXCEPT !.said = v] \in State
      /\ \A v \in {"absent", "old", "part", "new"} : [s EXCEPT !.file = v] \in State
  BY DEF State
<1> QED BY <1>1, <1>2, <1>3, <1>4, <1>5, <1>6, <1>7

\* The types of the fields that are read most.
LEMMA FlagsTyped ==
    ASSUME NEW s \in State
    PROVE  /\ s.sf \in SUBSET SF /\ s.stalled \in BOOLEAN
           /\ s.d \in Connections
           /\ s.file \in {"absent", "old", "part", "new"}
           /\ s.rest \in {"none", "REST", "RANG"}
BY DEF State

\* The functions that queue and send replies.
LEMMA ResponseTyped ==
    ASSUME NEW s \in State
    PROVE  /\ Say(s, "ok") \in State /\ Say(s, "failed") \in State
           /\ pr_response_add_err(s) \in State
           /\ pr_response_clear(s) \in State
           /\ FlushErr(s) \in State
<1>1. Say(s, "ok") \in State /\ Say(s, "failed") \in State
  BY SetField DEF Say
<1>2. pr_response_add_err(s) \in State
  BY SetField DEF pr_response_add_err
<1>3. \A t \in State : pr_response_clear(t) \in State
  BY SetField DEF pr_response_clear
<1>4. FlushErr(s) \in State
  BY <1>1, <1>3 DEF FlushErr
<1> QED BY <1>1, <1>2, <1>3, <1>4

\* The functions of data.c that set a transfer up and close it.
LEMMA DataTyped ==
    ASSUME NEW s \in State, NEW dir \in {"RD", "WR"}
    PROVE  /\ pr_data_clear_xfer_pool(s) \in State
           /\ pr_data_reset(s) \in State
           /\ data_new_xfer(s, dir) \in State
           /\ pr_data_init(s, dir) \in State
           /\ Linger(s) \in State
           /\ pr_data_close2(s) \in State
           /\ pr_data_cleanup(s) \in State
           /\ Aborts(s) \in State
           /\ OpenEnds(s) \in State
<1>1. \A t \in State : pr_data_clear_xfer_pool(t) \in State
  BY SetField DEF pr_data_clear_xfer_pool
<1>2. pr_data_reset(s) \in State
  BY SetField, FlagsTyped DEF pr_data_reset
<1>3. data_new_xfer(s, dir) \in State
  BY <1>1, SetField DEF data_new_xfer
<1>4. pr_data_init(s, dir) \in State
  BY <1>3, SetField DEF pr_data_init
<1>5. Linger(s) \in State
  BY SetField, FlagsTyped DEF Linger
<1>6. pr_data_close2(s) \in State
  <2>1. Linger(s).sf \ {"PASSIVE", "ABORT", "XFER"} \in SUBSET SF
    BY <1>5, FlagsTyped
  <2>2. QED
    BY <1>5, <2>1, SetField DEF pr_data_close2
<1>7. pr_data_cleanup(s) \in State
  BY <1>1, SetField DEF pr_data_cleanup
<1>8. Aborts(s) \in State
  BY SetField, FlagsTyped DEF Aborts, SF
<1>9. OpenEnds(s) \in State
  BY SetField, FlagsTyped DEF OpenEnds, SF
<1>10. QED
  BY <1>1, <1>2, <1>3, <1>4, <1>5, <1>6, <1>7, <1>8, <1>9

\* pr_data_abort, and its two halves.
LEMMA AbortTyped ==
    ASSUME NEW s \in State, NEW quiet \in BOOLEAN
    PROVE  /\ AbortBegins(s) \in State
           /\ \A true_abort \in BOOLEAN : AbortEnds(s, quiet, true_abort) \in State
           /\ pr_data_abort(s, quiet) \in State
<1>1. AbortBegins(s) \in State
  BY ResponseTyped, DataTyped DEF AbortBegins
<1>2. ASSUME NEW t \in State, NEW true_abort \in BOOLEAN
      PROVE  AbortEnds(t, quiet, true_abort) \in State
  <2> DEFINE flags == (t.sf \ {"XFER", "PASSIVE"})
                      \cup (IF true_abort THEN {"POST_ABORT"} ELSE {})
             u == [t EXCEPT !.d = "none", !.stalled = FALSE, !.torn = FALSE, !.sf = flags]
  <2>1. flags \in SUBSET SF
    BY FlagsTyped DEF SF
  <2>2. u \in State
    <3> HIDE DEF flags
    <3> QED BY <2>1, SetField
  <2>3. AbortEnds(t, quiet, true_abort) =
          IF ~quiet /\ ~true_abort THEN pr_response_add_err(u) ELSE u
    BY DEF AbortEnds
  <2> HIDE DEF u
  <2>4. QED
    BY <2>2, <2>3, ResponseTyped
<1>3. TrueAbort(s) \in BOOLEAN
  BY DEF TrueAbort
<1>4. pr_data_abort(s, quiet) \in State
  BY <1>1, <1>2, <1>3 DEF pr_data_abort
<1>5. QED
  BY <1>1, <1>2, <1>4

\* The functions that close the file of the command.
LEMMA FileTyped ==
    ASSUME NEW s \in State
    PROVE  /\ retr_abort(s) \in State
           /\ stor_abort(s) \in State
           /\ CloseFile(s) \in State
<1>1. retr_abort(s) \in State
  BY SetField DEF retr_abort
<1>2. stor_abort(s) \in State
  <2> DEFINE kept == s.hid /\ ~RemovesHidden(s)
             file == IF s.path /\ conf.delete = "on" THEN "absent" ELSE s.file
  <2>1. kept \in BOOLEAN /\ file \in {"absent", "old", "part", "new"}
    BY FlagsTyped
  <2>2. stor_abort(s) = [s EXCEPT !.fh = "none", !.hid = kept, !.file = file]
    BY DEF stor_abort
  <2>3. \A k \in BOOLEAN, f \in {"absent", "old", "part", "new"} :
            [s EXCEPT !.fh = "none", !.hid = k, !.file = f] \in State
    BY SetField
  <2> HIDE DEF kept, file
  <2>4. QED
    BY <2>1, <2>2, <2>3, Zenon
<1>3. CloseFile(s) \in State
  BY <1>1, <1>2 DEF CloseFile
<1>4. QED
  BY <1>1, <1>2, <1>3

\* The cleanup handlers, and the end of a command.
LEMMA CleanupTyped ==
    ASSUME NEW s \in State
    PROVE  /\ ErrCleanup(s) \in State
           /\ LogCleanup(s) \in State
           /\ Failed(s) \in State
           /\ Succeeded(s) \in State
<1>1. xfer_err_cleanup(s) \in State
  <2> DEFINE kept == s.hid /\ ~RemovesHidden(s)
  <2>1. xfer_err_cleanup(s) =
          [pr_data_clear_xfer_pool([s EXCEPT !.hid = kept]) EXCEPT
              !.type = "DEFAULT", !.rest = "none"]
    BY DEF xfer_err_cleanup
  <2>2. \A k \in BOOLEAN : [s EXCEPT !.hid = k] \in State
    BY SetField
  <2>3. kept \in BOOLEAN
    OBVIOUS
  <2> HIDE DEF kept
  <2>4. [s EXCEPT !.hid = kept] \in State
    BY <2>2, <2>3, Zenon
  <2>5. pr_data_clear_xfer_pool([s EXCEPT !.hid = kept]) \in State
    BY <2>4, DataTyped
  <2>6. \A t \in State : [t EXCEPT !.type = "DEFAULT", !.rest = "none"] \in State
    BY SetField
  <2>7. QED
    BY <2>1, <2>5, <2>6, Zenon
<1>2. xfer_log_stor(s) \in State /\ facts_mlsd_cleanup(s) \in State
  BY DataTyped, SetField DEF xfer_log_stor, facts_mlsd_cleanup
<1>3. ErrCleanup(s) \in State
  BY <1>1, <1>2, DataTyped DEF ErrCleanup
<1>4. LogCleanup(s) \in State
  BY <1>2, DataTyped DEF LogCleanup
<1>5. Failed(s) \in State
  BY <1>3, ResponseTyped DEF Failed
<1>6. Succeeded(s) \in State
  BY <1>4, ResponseTyped DEF Succeeded
<1>7. QED
  BY <1>3, <1>4, <1>5, <1>6

\* ABOR.
LEMMA AborTyped ==
    ASSUME NEW s \in State
    PROVE  xfer_abor(s) \in State
<1> DEFINE t == CASE s.dir = "RD" -> stor_abort(s)
                  [] s.dir = "WR" -> retr_abort(s)
                  [] OTHER -> s
           v == pr_data_abort(pr_response_clear(t), FALSE)
           u == pr_data_cleanup(pr_data_reset(v))
<1>1. t \in State
  BY FileTyped
<1>2. v \in State
  BY <1>1, ResponseTyped, AbortTyped
<1>3. u \in State
  BY <1>2, DataTyped
<1>4. s.said \in {"none", "ok", "failed", "twice"}
  BY DEF State
<1>5. xfer_abor(s) = [u EXCEPT !.said = s.said]
  BY DEF xfer_abor
<1> HIDE DEF t, u, v
<1>6. QED
  BY <1>3, <1>4, <1>5, SetField

\* The end of the session.
LEMMA ExitTyped ==
    ASSUME NEW s \in State
    PROVE  Exit(s) \in State
<1>1. CloseFile([s EXCEPT !.d = "none"]) \in State
  BY SetField, FileTyped
<1>2. QED
  BY <1>1, AbortTyped, CleanupTyped DEF Exit

\* The opening of the file and of the data connection, and its failure.
LEMMA OpenTyped ==
    ASSUME NEW s \in State, NEW dir \in {"RD", "WR"}, cmd \in Commands
    PROVE  /\ OpenBegins(s, dir) \in State
           /\ FileOpens(s) \in State
           /\ OpenFailed(s) \in State
<1>1. OpenBegins(s, dir) \in State
  <2> DEFINE t == [s EXCEPT !.sf = @ \ {"ABORT", "POST_ABORT"}]
             u == IF t.p THEN [t EXCEPT !.dir = dir] ELSE data_new_xfer(t, dir)
  <2>1. t \in State
    BY SetField, FlagsTyped
  <2>2. u \in State
    <3> HIDE DEF t
    <3> QED BY <2>1, SetField, DataTyped
  <2> DEFINE d == IF Passive(s) THEN u.d ELSE "connecting"
  <2>3. OpenBegins(s, dir) = [u EXCEPT !.stalled = TRUE, !.d = d]
    BY DEF OpenBegins
  <2>4. d \in Connections
    <3> HIDE DEF u
    <3> QED BY <2>2, FlagsTyped
  <2> HIDE DEF u, d
  <2>5. \A w \in State, e \in Connections :
            [w EXCEPT !.stalled = TRUE, !.d = e] \in State
    BY SetField
  <2>6. QED
    BY <2>2, <2>3, <2>4, <2>5
<1>2. StoreOpens(s) \in State
  <2> DEFINE was == s.hid \/ Hidden
             file == Opened(s.file, s.rest)
  <2>1. /\ StoreType \in {"DEFAULT", "APPEND", "HIDDEN", "UNIQUE"}
        /\ was \in BOOLEAN /\ Hidden \in BOOLEAN
        /\ file \in {"absent", "old", "part", "new"}
        /\ Consumed(s.rest) \in {"none", "REST", "RANG"}
    BY FlagsTyped DEF StoreType, Hidden, Opened, Consumed
  <2>2. \A k \in BOOLEAN, h \in BOOLEAN, f \in {"absent", "old", "part", "new"} :
            [pr_data_init([s EXCEPT !.type = StoreType, !.fh = "stor", !.path = TRUE,
                            !.path_hidden = h, !.hid = k,
                            !.file = f, !.rest = Consumed(@)], "RD")
               EXCEPT !.path = TRUE, !.path_hidden = h] \in State
    <3> SUFFICES ASSUME NEW k \in BOOLEAN, NEW h \in BOOLEAN,
                        NEW f \in {"absent", "old", "part", "new"}
                 PROVE  [pr_data_init([s EXCEPT !.type = StoreType, !.fh = "stor",
                            !.path = TRUE, !.path_hidden = h, !.hid = k,
                            !.file = f, !.rest = Consumed(@)], "RD")
                           EXCEPT !.path = TRUE, !.path_hidden = h] \in State
      OBVIOUS
    <3>1. [s EXCEPT !.type = StoreType, !.fh = "stor", !.path = TRUE,
                    !.path_hidden = h, !.hid = k, !.file = f] \in State
      BY <2>1, SetField
    <3>2. [s EXCEPT !.type = StoreType, !.fh = "stor", !.path = TRUE,
                    !.path_hidden = h, !.hid = k, !.file = f,
                    !.rest = Consumed(@)] \in State
      BY <2>1, <3>1, SetField
    <3>3. \A t \in State : [pr_data_init(t, "RD") EXCEPT !.path = TRUE,
                                                         !.path_hidden = h] \in State
      BY SetField, DataTyped
    <3>4. QED
      BY <3>2, <3>3
  <2>3. StoreOpens(s) =
            [pr_data_init([s EXCEPT !.type = StoreType, !.fh = "stor", !.path = TRUE,
                            !.path_hidden = Hidden, !.hid = was,
                            !.file = file, !.rest = Consumed(@)], "RD")
               EXCEPT !.path = TRUE, !.path_hidden = Hidden]
    BY DEF StoreOpens
  <2> HIDE DEF was, file
  <2>4. QED
    BY <2>1, <2>2, <2>3, Zenon
<1>3. RetrOpens(s) \in State
  <2>1. Consumed(s.rest) \in {"none", "REST", "RANG"}
    BY FlagsTyped DEF Consumed
  <2>2. pr_data_init([s EXCEPT !.fh = "retr", !.rest = Consumed(@)], "WR") \in State
    BY <2>1, SetField, DataTyped
  <2>3. QED
    BY <2>2, SetField DEF RetrOpens
<1>4. FileOpens(s) \in State
  BY <1>2, <1>3 DEF FileOpens
<1>5. OpenFailed(s) \in State
  BY AbortTyped, FileTyped, DataTyped, CleanupTyped DEF OpenFailed
<1>6. QED
  BY <1>1, <1>4, <1>5

-----------------------------------------------------------------------------
\* What the functions do to the fields that the invariant speaks of

\* stor_abort closes the file, and removes what it is told to.
LEMMA StorAbortFields ==
    ASSUME NEW s \in State
    PROVE  /\ stor_abort(s).fh = "none"
           /\ stor_abort(s).hid => s.hid /\ ~RemovesHidden(s)
           /\ stor_abort(s).file = IF s.path /\ conf.delete = "on" THEN "absent" ELSE s.file
           /\ stor_abort(s).d = s.d /\ stor_abort(s).sf = s.sf
           /\ stor_abort(s).nstrm = s.nstrm /\ stor_abort(s).stalled = s.stalled
           /\ stor_abort(s).errs = s.errs /\ stor_abort(s).said = s.said
           /\ stor_abort(s).torn = s.torn
BY DEF stor_abort, State

\* retr_abort closes the file.
LEMMA RetrAbortFields ==
    ASSUME NEW s \in State
    PROVE  /\ retr_abort(s).fh = "none"
           /\ retr_abort(s).hid = s.hid /\ retr_abort(s).file = s.file
           /\ retr_abort(s).d = s.d /\ retr_abort(s).sf = s.sf
           /\ retr_abort(s).nstrm = s.nstrm /\ retr_abort(s).stalled = s.stalled
           /\ retr_abort(s).errs = s.errs /\ retr_abort(s).said = s.said
           /\ retr_abort(s).torn = s.torn
BY DEF retr_abort, State

\* The stream is forgotten before the connection lingers.
LEMMA LingerFields ==
    ASSUME NEW s \in State
    PROVE  /\ Linger(s).nstrm = FALSE
           /\ Linger(s).d \in {"none", "lingering"}
           /\ Linger(s).fh = s.fh /\ Linger(s).hid = s.hid
           /\ Linger(s).file = s.file /\ Linger(s).sf = s.sf
           /\ Linger(s).stalled = s.stalled /\ Linger(s).errs = s.errs
           /\ Linger(s).said = s.said /\ Linger(s).torn = s.torn
BY DEF Linger, State

\* 426 is sent at once for a true abort, and only then.
LEMMA AbortBeginsFields ==
    ASSUME NEW s \in State
    PROVE  /\ AbortBegins(s).nstrm = FALSE
           /\ AbortBegins(s).d \in {"none", "lingering"}
           /\ AbortBegins(s).fh = s.fh /\ AbortBegins(s).hid = s.hid
           /\ AbortBegins(s).file = s.file /\ AbortBegins(s).sf = s.sf
           /\ AbortBegins(s).stalled = s.stalled /\ AbortBegins(s).errs = s.errs
           /\ AbortBegins(s).torn = s.torn
           /\ AbortBegins(s).said =
                 IF TrueAbort(s) /\ s.d \in {"open", "listen"}
                 THEN (IF s.said = "none" THEN "failed" ELSE "twice") ELSE s.said
BY DEF AbortBegins, Linger, Say, State

\* t is s after pr_data_abort or pr_data_close2
TakenDown(s, t) ==
    /\ t.d = "none" /\ t.stalled = FALSE /\ t.torn = FALSE
    /\ t.fh = s.fh /\ t.hid = s.hid /\ t.file = s.file
    /\ "XFER" \notin t.sf

\* The second half of pr_data_abort queues 426 unless it was sent.
LEMMA AbortEndsFields ==
    ASSUME NEW s \in State, NEW quiet \in BOOLEAN, NEW true_abort \in BOOLEAN
    PROVE  /\ TakenDown(s, AbortEnds(s, quiet, true_abort))
           /\ AbortEnds(s, quiet, true_abort).nstrm = s.nstrm
           /\ AbortEnds(s, quiet, true_abort).said = s.said
           /\ AbortEnds(s, quiet, true_abort).errs = (s.errs \/ (~quiet /\ ~true_abort))
           /\ "ABORT" \in AbortEnds(s, quiet, true_abort).sf <=> "ABORT" \in s.sf
BY DEF AbortEnds, pr_response_add_err, State, TakenDown

\* pr_data_abort replies at once or queues a reply, never both.
LEMMA AbortFields ==
    ASSUME NEW s \in State, NEW quiet \in BOOLEAN
    PROVE  /\ TakenDown(s, pr_data_abort(s, quiet))
           /\ pr_data_abort(s, quiet).nstrm = FALSE
           /\ pr_data_abort(s, quiet).errs = (s.errs \/ (~quiet /\ ~TrueAbort(s)))
           /\ pr_data_abort(s, quiet).said =
                 IF TrueAbort(s) /\ s.d \in {"open", "listen"}
                 THEN (IF s.said = "none" THEN "failed" ELSE "twice") ELSE s.said
<1> USE DEF pr_data_abort, AbortBegins, AbortEnds, Linger, Say, pr_response_add_err,
            TrueAbort, State
<1>1. TakenDown(s, pr_data_abort(s, quiet))
  BY DEF TakenDown
<1>2. pr_data_abort(s, quiet).nstrm = FALSE
  OBVIOUS
<1>3. pr_data_abort(s, quiet).errs = (s.errs \/ (~quiet /\ ~TrueAbort(s)))
  OBVIOUS
<1>4. pr_data_abort(s, quiet).said =
         IF TrueAbort(s) /\ s.d \in {"open", "listen"}
         THEN (IF s.said = "none" THEN "failed" ELSE "twice") ELSE s.said
  OBVIOUS
<1>5. QED
  BY <1>1, <1>2, <1>3, <1>4

\* pr_data_close2 says nothing.
LEMMA CloseFields ==
    ASSUME NEW s \in State
    PROVE  /\ TakenDown(s, pr_data_close2(s))
           /\ pr_data_close2(s).nstrm = FALSE
           /\ pr_data_close2(s).errs = s.errs /\ pr_data_close2(s).said = s.said
           /\ ~TrueAbort(pr_data_close2(s))
BY DEF pr_data_close2, Linger, State, TakenDown, TrueAbort

\* t is s after the cleanup handlers of the command
CleanedUp(s, t) ==
    /\ t.fh = s.fh /\ t.p = FALSE /\ t.dir = "none"
    /\ t.type = "DEFAULT" /\ t.path = FALSE /\ t.path_hidden = FALSE
    /\ t.torn = s.torn /\ t.sf = s.sf /\ t.nstrm = s.nstrm
    /\ t.stalled = s.stalled /\ t.file = s.file
    /\ t.d \in {"none", s.d}
    /\ t.hid => s.hid
    /\ cmd \in FileCommands => t.rest = "none"

\* Whatever the command, its LOG_CMD_ERR handler cleans up.
LEMMA ErrCleanupFields ==
    ASSUME NEW s \in State
    PROVE  /\ CleanedUp(s, ErrCleanup(s))
           /\ ErrCleanup(s).hid /\ cmd \in FileCommands => ~RemovesHidden(s)
           /\ ErrCleanup(s).said = s.said /\ ErrCleanup(s).errs = s.errs
<1> USE DEF CleanedUp, FileCommands, Uploads
<1>1. CASE cmd = "LIST"
  <2>1. ErrCleanup(s) = pr_data_cleanup(s)
    BY <1>1 DEF ErrCleanup
  <2>2. QED
    BY <1>1, <2>1 DEF pr_data_cleanup, pr_data_clear_xfer_pool, State
<1>2. CASE cmd = "MLSD"
  <2>1. ErrCleanup(s) = facts_mlsd_cleanup(s)
    BY <1>2 DEF ErrCleanup
  <2>2. QED
    BY <1>2, <2>1 DEF facts_mlsd_cleanup, pr_data_clear_xfer_pool, State
<1>3. CASE cmd \notin {"LIST", "MLSD"}
  <2>1. ErrCleanup(s) = xfer_err_cleanup(s)
    BY <1>3 DEF ErrCleanup
  <2>2. QED
    BY <2>1 DEF xfer_err_cleanup, pr_data_clear_xfer_pool, State
<1>4. QED
  BY <1>1, <1>2, <1>3

\* Whatever the command, its LOG_CMD handler cleans up.
LEMMA LogCleanupFields ==
    ASSUME NEW s \in State
    PROVE  CleanedUp(s, LogCleanup(s)) /\ LogCleanup(s).said = s.said
<1> USE DEF CleanedUp, FileCommands, Uploads
<1>1. CASE cmd = "LIST"
  <2>1. LogCleanup(s) = pr_data_cleanup(s)
    BY <1>1 DEF LogCleanup
  <2>2. QED
    BY <1>1, <2>1 DEF pr_data_cleanup, pr_data_clear_xfer_pool, State
<1>2. CASE cmd = "MLSD"
  <2>1. LogCleanup(s) = facts_mlsd_cleanup(s)
    BY <1>2 DEF LogCleanup
  <2>2. QED
    BY <1>2, <2>1 DEF facts_mlsd_cleanup, pr_data_clear_xfer_pool, State
<1>3. CASE cmd \notin {"LIST", "MLSD"}
  <2>1. LogCleanup(s) = xfer_log_stor(s)
    BY <1>3 DEF LogCleanup
  <2>2. QED
    BY <2>1 DEF xfer_log_stor, pr_data_cleanup, pr_data_clear_xfer_pool, State
<1>4. QED
  BY <1>1, <1>2, <1>3

\* Sending the replies changes nothing else.
LEMMA FlushErrFields ==
    ASSUME NEW s \in State, NEW t \in State, CleanedUp(s, t)
    PROVE  /\ CleanedUp(s, FlushErr(t)) /\ CleanedUp(s, Say(t, "ok"))
           /\ FlushErr(t).hid = t.hid
           /\ FlushErr(t).said =
                 IF t.errs THEN (IF t.said = "none" THEN "failed" ELSE "twice") ELSE t.said
           /\ Say(t, "ok").said = IF t.said = "none" THEN "ok" ELSE "twice"
BY DEF FlushErr, pr_response_clear, Say, State, CleanedUp

\* A command that failed sends the reply that is queued, if any.
LEMMA FailedFields ==
    ASSUME NEW s \in State
    PROVE  /\ CleanedUp(s, Failed(s))
           /\ Failed(s).hid /\ cmd \in FileCommands => ~RemovesHidden(s)
           /\ Failed(s).said =
                 IF s.errs THEN (IF s.said = "none" THEN "failed" ELSE "twice") ELSE s.said
<1>1. PICK t \in State : t = ErrCleanup(s)
  BY CleanupTyped
<1>2. Failed(s) = FlushErr(t)
  BY <1>1 DEF Failed
<1>3. QED
  BY <1>1, <1>2, ErrCleanupFields, FlushErrFields

\* A command that succeeded sends 226.
LEMMA SucceededFields ==
    ASSUME NEW s \in State
    PROVE  /\ CleanedUp(s, Succeeded(s))
           /\ Succeeded(s).said = IF s.said = "none" THEN "ok" ELSE "twice"
<1>1. PICK t \in State : t = LogCleanup(s)
  BY CleanupTyped
<1>2. Succeeded(s) = Say(t, "ok")
  BY <1>1 DEF Succeeded
<1>3. QED
  BY <1>1, <1>2, LogCleanupFields, FlushErrFields

\* t is s after ABOR
Cancelled(s, t) ==
    /\ t.d = "none" /\ t.nstrm = FALSE /\ t.stalled = FALSE /\ t.sf = {}
    /\ t.path = FALSE /\ t.path_hidden = FALSE /\ t.type = "DEFAULT"
    /\ t.p = FALSE /\ t.dir = "none" /\ t.torn = FALSE
    /\ t.said = s.said
    /\ t.fh = IF s.dir = "none" THEN s.fh ELSE "none"
    /\ t.file = IF s.dir = "RD" /\ s.path /\ conf.delete = "on" THEN "absent" ELSE s.file
    /\ t.hid => s.hid /\ ~(s.dir = "RD" /\ RemovesHidden(s))

\* An ABOR closes the file of the transfer it finds.
LEMMA AborFields ==
    ASSUME NEW s \in State
    PROVE  Cancelled(s, xfer_abor(s))
<1>1. PICK t \in State : t = CASE s.dir = "RD" -> stor_abort(s)
                               [] s.dir = "WR" -> retr_abort(s)
                               [] OTHER -> s
  BY FileTyped
<1>2. /\ t.fh = IF s.dir = "none" THEN s.fh ELSE "none"
      /\ t.file = IF s.dir = "RD" /\ s.path /\ conf.delete = "on" THEN "absent" ELSE s.file
      /\ t.hid => s.hid /\ ~(s.dir = "RD" /\ RemovesHidden(s))
  <2>1. s.dir \in {"none", "RD", "WR"}
    BY DEF State
  <2>2. QED
    BY <1>1, <2>1, StorAbortFields, RetrAbortFields
<1>3. PICK u \in State : u = pr_response_clear(t)
  BY ResponseTyped
<1>4. u.fh = t.fh /\ u.file = t.file /\ u.hid = t.hid
  BY <1>3 DEF pr_response_clear, State
<1>5. PICK v \in State : v = pr_data_abort(u, FALSE)
  BY AbortTyped
<1>6. v.fh = t.fh /\ v.file = t.file /\ v.hid = t.hid /\ v.nstrm = FALSE /\ v.stalled = FALSE
  BY <1>4, <1>5, AbortFields DEF TakenDown
<1>7. xfer_abor(s) = [pr_data_cleanup(pr_data_reset(v)) EXCEPT !.said = s.said]
  BY <1>1, <1>3, <1>5 DEF xfer_abor
<1> DEFINE w == [pr_data_cleanup(pr_data_reset(v)) EXCEPT !.said = s.said]
<1>8. /\ w.d = "none" /\ w.nstrm = FALSE /\ w.stalled = FALSE /\ w.sf = {}
      /\ w.path = FALSE /\ w.path_hidden = FALSE /\ w.type = "DEFAULT"
      /\ w.p = FALSE /\ w.dir = "none" /\ w.torn = FALSE
  BY <1>6 DEF pr_data_cleanup, pr_data_reset, pr_data_clear_xfer_pool, State
<1>9. w.said = s.said /\ w.fh = v.fh /\ w.file = v.file /\ w.hid = v.hid
  BY DEF pr_data_cleanup, pr_data_reset, pr_data_clear_xfer_pool, State
<1> HIDE DEF w
<1>10. QED
  BY <1>2, <1>6, <1>7, <1>8, <1>9 DEF Cancelled, w

\* Whichever file is open, it is closed.
LEMMA CloseFileFields ==
    ASSUME NEW s \in State
    PROVE  /\ CloseFile(s).fh = "none"
           /\ CloseFile(s).hid => s.hid /\ ~(s.fh = "stor" /\ RemovesHidden(s))
           /\ CloseFile(s).file = IF s.fh = "stor" /\ s.path /\ conf.delete = "on"
                                  THEN "absent" ELSE s.file
           /\ CloseFile(s).sf = s.sf /\ CloseFile(s).said = s.said
           /\ CloseFile(s).d = s.d /\ CloseFile(s).path = s.path
<1>1. s.fh \in {"none", "stor", "retr"}
  BY DEF State
<1>2. stor_abort(s).path = s.path /\ retr_abort(s).path = s.path
  BY DEF stor_abort, retr_abort, State
<1>3. QED
  BY <1>1, <1>2, StorAbortFields, RetrAbortFields DEF CloseFile

\* t is s after the session has ended
Exited(s, t) ==
    /\ "XFER" \notin t.sf
    /\ t.said = s.said
    /\ t.hid => s.hid /\ ~(s.fh = "stor" /\ RemovesHidden(s))
    /\ t.file = IF s.fh = "stor" /\ s.path /\ conf.delete = "on" THEN "absent" ELSE s.file

\* The end of the session closes the file, and says nothing.
LEMMA ExitFields ==
    ASSUME NEW s \in State
    PROVE  Exited(s, Exit(s))
<1>1. PICK r \in State : r = [s EXCEPT !.d = "none"]
  BY SetField
<1>2. /\ r.d = "none" /\ r.fh = s.fh /\ r.hid = s.hid /\ r.file = s.file
      /\ r.path = s.path /\ r.said = s.said /\ r.sf = s.sf
      /\ RemovesHidden(r) <=> RemovesHidden(s)
  BY <1>1 DEF State, RemovesHidden
<1>3. PICK t \in State : t = CloseFile(r)
  BY FileTyped
<1>4. /\ t.hid => s.hid /\ ~(s.fh = "stor" /\ RemovesHidden(s))
      /\ t.file = IF s.fh = "stor" /\ s.path /\ conf.delete = "on" THEN "absent" ELSE s.file
      /\ t.d = "none" /\ t.said = s.said
  BY <1>2, <1>3, CloseFileFields
<1>5. Exit(s) = IF "XFER" \in t.sf THEN ErrCleanup(pr_data_abort(t, FALSE)) ELSE t
  BY <1>1, <1>3 DEF Exit
<1>6. PICK v \in State : v = pr_data_abort(t, FALSE)
  BY AbortTyped
<1>7. /\ v.hid = t.hid /\ v.file = t.file /\ v.said = t.said /\ "XFER" \notin v.sf
  BY <1>4, <1>6, AbortFields DEF TakenDown
<1>8. Exit(s) = IF "XFER" \in t.sf THEN ErrCleanup(v) ELSE t
  BY <1>5, <1>6
<1>9. Exited(s, ErrCleanup(v))
  BY <1>4, <1>7, ErrCleanupFields DEF CleanedUp, Exited
<1>10. QED
  BY <1>4, <1>8, <1>9 DEF Exited

-----------------------------------------------------------------------------
Quiet(s) == ~s.torn => /\ "XFER" \notin s.sf
                       /\ ~s.nstrm /\ ~s.stalled
                       /\ s.d \in {"none", "listen", "dead"}

\* Cleaning up after a transfer that was taken down leaves a clean state.
LEMMA CleanedUpClean ==
    ASSUME NEW s \in State, NEW t \in State, CleanedUp(s, t), s.fh = "none", Quiet(s)
    PROVE  /\ Clean(t) /\ (cmd \in FileCommands => t.rest = "none") /\ t.file = s.file
           /\ t.hid => s.hid
BY DEF CleanedUp, Clean, Quiet, State

\* Nothing acts on a transfer that was taken down.
LEMMA TakenDownQuiet ==
    ASSUME NEW s \in State, NEW t \in State, TakenDown(s, t), t.nstrm = FALSE
    PROVE  Quiet(t) /\ t.fh = s.fh /\ t.hid = s.hid /\ t.file = s.file
BY DEF TakenDown, Quiet, State

\* t is what the command has left when it is over, of what it had in s
Finished(s, t) ==
    /\ Clean(t)
    /\ cmd \in FileCommands => t.rest = "none"
    /\ conf.delete # "off" => ~t.hid
    /\ \/ t.file = s.file
       \/ conf.delete = "on" /\ cmd \in Uploads /\ t.file = "absent"

\* A command that fails once its file is closed leaves a clean state.
LEMMA FailedFinished ==
    ASSUME NEW s \in State, s.fh = "none", Quiet(s), conf.delete # "off" => ~s.hid
    PROVE  Finished(s, Failed(s))
<1>1. Failed(s) \in State /\ CleanedUp(s, Failed(s))
  BY CleanupTyped, FailedFields
<1>2. QED
  BY <1>1, CleanedUpClean DEF Finished

\* t is s with the file of the command open, if it has one
FileOpened(s, t) ==
    /\ t.d = s.d /\ t.sf = s.sf /\ t.nstrm = s.nstrm /\ t.stalled = s.stalled
    /\ t.torn = s.torn /\ t.errs = s.errs /\ t.said = s.said
    /\ cmd \in FileCommands => Held(t)
    /\ cmd \notin FileCommands => t = s
    /\ t.file # s.file => cmd \in Uploads /\ ~Hidden /\ t.file = "part"
    /\ t.hid => s.hid \/ (Hidden /\ cmd \in Uploads)

\* Opening the file makes the handler hold what it needs to undo it.
LEMMA FileOpensFields ==
    ASSUME NEW s \in State, cmd \in Commands
    PROVE  FileOpened(s, FileOpens(s))
<1>1. CASE cmd \in Uploads
  <2> DEFINE t == StoreOpens(s)
  <2>1. FileOpens(s) = t
    BY <1>1 DEF FileOpens, Uploads
  <2> USE DEF StoreOpens, pr_data_init, data_new_xfer, pr_data_clear_xfer_pool, State
  <2>2. /\ t.d = s.d /\ t.sf = s.sf /\ t.nstrm = s.nstrm /\ t.stalled = s.stalled
        /\ t.torn = s.torn /\ t.errs = s.errs /\ t.said = s.said
    OBVIOUS
  <2>3. /\ t.fh = "stor" /\ t.p = TRUE /\ t.dir = "RD" /\ t.path = TRUE
        /\ t.type = StoreType
    OBVIOUS
  <2>4. t.path_hidden = Hidden
    OBVIOUS
  <2>5. t.file = Opened(s.file, s.rest)
    OBVIOUS
  <2>6. t.hid = (s.hid \/ Hidden)
    OBVIOUS
  <2>7. t.file # s.file => ~Hidden /\ t.file = "part"
    BY <2>5 DEF Opened
  <2> HIDE DEF t
  <2>8. Held(t)
    BY <1>1, <2>3, <2>4 DEF Held
  <2>9. QED
    BY <1>1, <2>1, <2>2, <2>6, <2>7, <2>8 DEF FileOpened, FileCommands
<1>2. CASE cmd = "RETR"
  <2> DEFINE t == RetrOpens(s)
  <2>1. FileOpens(s) = t
    BY <1>2 DEF FileOpens, Uploads
  <2> USE DEF RetrOpens, pr_data_init, data_new_xfer, pr_data_clear_xfer_pool, State
  <2>2. /\ t.d = s.d /\ t.sf = s.sf /\ t.nstrm = s.nstrm /\ t.stalled = s.stalled
        /\ t.torn = s.torn /\ t.errs = s.errs /\ t.said = s.said
    OBVIOUS
  <2>3. t.fh = "retr" /\ t.dir = "WR" /\ t.file = s.file /\ t.hid = s.hid
    OBVIOUS
  <2> HIDE DEF t
  <2>4. QED
    BY <1>2, <2>1, <2>2, <2>3 DEF FileOpened, FileCommands, Held, Uploads
<1>3. CASE cmd \in {"LIST", "MLSD"}
  <2>1. FileOpens(s) = s
    BY <1>3 DEF FileOpens, Uploads
  <2>2. QED
    BY <1>3, <2>1 DEF FileOpened, FileCommands, Uploads
<1>4. QED
  BY <1>1, <1>2, <1>3 DEF Commands

Direction == IF cmd \in Uploads THEN "RD" ELSE "WR"

\* t is s while pr_data_open waits for the client
Opening(s, t) ==
    /\ t.sf = s.sf \ {"ABORT", "POST_ABORT"}
    /\ t.nstrm = s.nstrm /\ t.torn = s.torn /\ t.errs = s.errs /\ t.said = s.said
    /\ t.file = s.file /\ t.hid = s.hid /\ t.fh = s.fh
    /\ Held(t)

\* It still does while the data connection is being opened.
LEMMA OpenBeginsFields ==
    ASSUME NEW s \in State, cmd \in Commands,
           IF cmd \in FileCommands THEN Held(s) ELSE s.fh = "none"
    PROVE  Opening(s, OpenBegins(s, Direction))
<1> DEFINE t == OpenBegins(s, Direction)
<1> USE DEF OpenBegins, data_new_xfer, pr_data_clear_xfer_pool, State
<1>1. /\ t.sf = s.sf \ {"ABORT", "POST_ABORT"}
      /\ t.nstrm = s.nstrm /\ t.torn = s.torn
  OBVIOUS
<1>2. /\ t.errs = s.errs /\ t.said = s.said
      /\ t.file = s.file /\ t.hid = s.hid /\ t.fh = s.fh
  OBVIOUS
<1>3. t.dir = Direction /\ t.type = s.type
  OBVIOUS
<1>4. s.p => t.p = s.p /\ t.path = s.path /\ t.path_hidden = s.path_hidden
  OBVIOUS
<1> HIDE DEF t
<1>5. Held(t)
  <2>1. CASE cmd \in Uploads
    <3>1. Held(s) /\ Direction = "RD"
      BY <2>1 DEF FileCommands, Direction
    <3>2. /\ s.fh = "stor" /\ s.p /\ s.dir = "RD" /\ s.path
          /\ s.type = StoreType /\ s.path_hidden = Hidden
      BY <2>1, <3>1, Zenon DEF Held
    <3>3. /\ t.fh = "stor" /\ t.p /\ t.dir = "RD" /\ t.path
          /\ t.type = StoreType /\ t.path_hidden = Hidden
      BY <1>2, <1>3, <1>4, <3>1, <3>2, Zenon
    <3>4. QED
      BY <2>1, <3>3, Zenon DEF Held
  <2>2. CASE cmd \notin Uploads
    BY <2>2, <1>2, <1>3 DEF Held, Direction, FileCommands, Uploads, Commands
  <2>3. QED
    BY <2>1, <2>2
<1> HIDE DEF OpenBegins, State
<1>6. QED
  BY <1>1, <1>2, <1>5 DEF Opening, t

\* The data connection is open, and SIGURG may abort its stream.
LEMMA OpenEndsFields ==
    ASSUME NEW s \in State
    PROVE  /\ OpenEnds(s).d = "open" /\ OpenEnds(s).nstrm = TRUE
           /\ OpenEnds(s).sf = s.sf \cup {"XFER"} /\ OpenEnds(s).torn = FALSE
           /\ OpenEnds(s).errs = s.errs /\ OpenEnds(s).said = s.said
           /\ OpenEnds(s).file = s.file /\ OpenEnds(s).hid = s.hid
           /\ OpenEnds(s).fh = s.fh
           /\ Held(s) => Held(OpenEnds(s))
BY DEF OpenEnds, Held, State

\* A handler whose pr_data_open failed has undone what it did, and replied
\* at most once.
LEMMA OpenFailedFields ==
    ASSUME NEW s \in State, cmd \in Commands,
           s.said = "none", TrueAbort(s) => ~s.errs,
           IF cmd \in FileCommands THEN Held(s) ELSE s.fh = "none" /\ Quiet(s),
           s.hid /\ conf.delete # "off" => cmd \in Uploads /\ RemovesHidden(s)
    PROVE  /\ Finished(s, OpenFailed(s))
           /\ OpenFailed(s).said \in {"none", "failed"}
           /\ s.errs => OpenFailed(s).said = "failed"
<1>1. ASSUME NEW t \in State, OpenFailed(s) = Failed(t),
             t.fh = "none", Quiet(t), conf.delete # "off" => ~t.hid,
             \/ t.file = s.file
             \/ conf.delete = "on" /\ cmd \in Uploads /\ t.file = "absent",
             t.said \in {"none", "failed"}, s.errs => t.errs,
             t.said = "failed" => ~t.errs
      PROVE  /\ Finished(s, OpenFailed(s))
             /\ OpenFailed(s).said \in {"none", "failed"}
             /\ s.errs => OpenFailed(s).said = "failed"
  <2>1. Finished(t, Failed(t))
    BY <1>1, FailedFinished
  <2>2. Failed(t).said =
          IF t.errs THEN (IF t.said = "none" THEN "failed" ELSE "twice") ELSE t.said
    BY FailedFields
  <2>3. QED
    BY <1>1, <2>1, <2>2 DEF Finished
<1>2. CASE cmd \in Uploads
  <2>1. PICK u \in State : u = stor_abort(s)
    BY FileTyped
  <2>2. PICK t \in State : t = pr_data_abort(u, TRUE)
    BY AbortTyped
  <2>3. OpenFailed(s) = Failed(t)
    BY <1>2, <2>1, <2>2 DEF OpenFailed, Uploads
  <2>4. /\ u.fh = "none" /\ (conf.delete # "off" => ~u.hid)
        /\ u.file = s.file \/ (conf.delete = "on" /\ u.file = "absent")
        /\ u.said = "none" /\ u.errs = s.errs /\ u.sf = s.sf
    BY <2>1, StorAbortFields
  <2>5. /\ TakenDown(u, t) /\ t.nstrm = FALSE
        /\ t.errs = s.errs
        /\ t.said = IF TrueAbort(u) /\ u.d \in {"open", "listen"} THEN "failed" ELSE "none"
    <3>1. s.errs \in BOOLEAN
      BY DEF State
    <3>2. QED
      BY <3>1, <2>2, <2>4, AbortFields
  <2>6. QED
    BY <1>1, <1>2, <2>3, <2>4, <2>5, TakenDownQuiet DEF TrueAbort
<1>3. CASE cmd = "RETR"
  <2>1. PICK u \in State : u = retr_abort(s)
    BY FileTyped
  <2>2. PICK t \in State : t = pr_data_abort(u, TRUE)
    BY AbortTyped
  <2>3. OpenFailed(s) = Failed(t)
    BY <1>3, <2>1, <2>2 DEF OpenFailed, Uploads
  <2>4. /\ u.fh = "none" /\ u.hid = s.hid /\ u.file = s.file
        /\ u.said = "none" /\ u.errs = s.errs /\ u.sf = s.sf
    BY <2>1, RetrAbortFields
  <2>5. /\ TakenDown(u, t) /\ t.nstrm = FALSE
        /\ t.errs = s.errs
        /\ t.said = IF TrueAbort(u) /\ u.d \in {"open", "listen"} THEN "failed" ELSE "none"
    <3>1. s.errs \in BOOLEAN
      BY DEF State
    <3>2. QED
      BY <3>1, <2>2, <2>4, AbortFields
  <2>6. QED
    BY <1>1, <1>3, <2>3, <2>4, <2>5, TakenDownQuiet DEF TrueAbort, Uploads
<1>4. CASE cmd = "LIST" /\ TrueAbort(s)
  <2>2. PICK t \in State : t = pr_data_abort(s, FALSE)
    BY AbortTyped
  <2>3. OpenFailed(s) = Failed(t)
    BY <1>4, <2>2 DEF OpenFailed, Uploads
  <2>5. /\ TakenDown(s, t) /\ t.nstrm = FALSE
        /\ t.errs = s.errs
        /\ t.said = IF s.d \in {"open", "listen"} THEN "failed" ELSE "none"
    <3>1. s.errs \in BOOLEAN
      BY DEF State
    <3>2. QED
      BY <3>1, <1>4, <2>2, AbortFields
  <2>6. QED
    BY <1>1, <1>4, <2>3, <2>5, TakenDownQuiet DEF Uploads, FileCommands
<1>5. CASE cmd = "LIST" /\ ~TrueAbort(s) /\ "XFER" \in s.sf
  <2>2. PICK t \in State : t = pr_data_close2(s)
    BY DataTyped
  <2>3. OpenFailed(s) = Failed(t)
    BY <1>5, <2>2 DEF OpenFailed, Uploads
  <2>5. /\ TakenDown(s, t) /\ t.nstrm = FALSE
        /\ t.errs = s.errs /\ t.said = "none"
    BY <2>2, CloseFields
  <2>6. QED
    BY <1>1, <1>5, <2>3, <2>5, TakenDownQuiet DEF Uploads, FileCommands
<1>6. CASE cmd = "MLSD" \/ (cmd = "LIST" /\ ~TrueAbort(s) /\ "XFER" \notin s.sf)
  <2>1. OpenFailed(s) = Failed(s)
    BY <1>6 DEF OpenFailed, Uploads
  <2>2. QED
    BY <1>1, <1>6, <2>1 DEF Uploads, FileCommands
<1>7. QED
  BY <1>2, <1>3, <1>4, <1>5, <1>6 DEF Commands

\* A command that is over and has left a clean state preserves the invariant.
LEMMA ReturnsKeeps ==
    ASSUME IInv, NEW s \in State, Returns(s), Clean(s), s.said # "twice",
           conf.delete # "off" => ~s.hid
    PROVE  IInv'
<1>1. TypeOK'
  BY ConfAssumption DEF IInv, TypeOK, Returns, Places
<1>2. Stages' /\ Answers' /\ StoredFiles'
  BY DEF IInv, Stages, Answers, StoredFiles, Returns, Clean, TypeOK
<1>3. QED
  BY <1>1, <1>2 DEF IInv

\* So does a command that uses no data connection.
LEMMA IdleKeeps ==
    ASSUME IInv, pc = "loop", st' \in State, Clean(st'), st'.said = st.said,
           st'.hid => st.hid, UNCHANGED <<conf, pc, cmd, res, left>>,
           client' = client \/ client' = [client EXCEPT !.abor = "none"]
    PROVE  IInv'
BY DEF Stays, IInv, TypeOK, Stages, Answers, StoredFiles

\* PASV, PORT, REST, ABOR between transfers, and the start of a command.
LEMMA ControlKeeps ==
    ASSUME IInv, Control
    PROVE  IInv'
<1> USE DEF Reads, Stays
<1>1. st \in State /\ (pc = "loop" => Clean(st))
  BY DEF IInv, TypeOK, Stages
<1>2. ASSUME NEW epsv \in BOOLEAN, core_pasv(epsv)
      PROVE  IInv'
  <2>1. ASSUME NEW d \in {"none", "dead"}, st' = [st EXCEPT !.d = d]
        PROVE  IInv'
    <3>1. st' \in State
      BY <1>1, <2>1, SetField
    <3>2. Clean(st') /\ st'.said = st.said /\ st'.hid = st.hid
      BY <1>1, <1>2, <2>1 DEF core_pasv, Clean, State
    <3>3. QED
      BY <1>2, <3>1, <3>2, IdleKeeps DEF core_pasv
  <2>2. CASE st' = [st EXCEPT !.d = "listen", !.sf = @ \cup {"PASSIVE"}]
    <3>1. st' \in State
      BY <1>1, <2>2, SetField, FlagsTyped DEF SF
    <3>2. Clean(st') /\ st'.said = st.said /\ st'.hid = st.hid
      BY <1>1, <1>2, <2>2 DEF core_pasv, Clean, State
    <3>3. QED
      BY <1>2, <3>1, <3>2, IdleKeeps DEF core_pasv
  <2>3. QED
    BY <1>2, <2>1, <2>2 DEF core_pasv
<1>3. ASSUME NEW r \in {"none", "REST", "RANG"}, xfer_rest(r)
      PROVE  IInv'
  <2>1. st' \in State
    BY <1>1, <1>3, SetField DEF xfer_rest, SetRest
  <2>2. Clean(st') /\ st'.said = st.said /\ st'.hid = st.hid
    BY <1>1, <1>3 DEF xfer_rest, SetRest, Clean, State
  <2>3. QED
    BY <1>3, <2>1, <2>2, IdleKeeps DEF xfer_rest
<1>4. CASE core_epsv_all
  <2>1. st' \in State
    BY <1>1, <1>4, SetField, FlagsTyped DEF core_epsv_all, SF
  <2>2. Clean(st') /\ st'.said = st.said /\ st'.hid = st.hid
    BY <1>1, <1>4 DEF core_epsv_all, Clean, State
  <2>3. QED
    BY <1>4, <2>1, <2>2, IdleKeeps DEF core_epsv_all
<1>5. CASE core_port
  <2>1. st' \in State
    BY <1>1, <1>5, SetField, FlagsTyped DEF core_port
  <2>2. Clean(st') /\ st'.said = st.said /\ st'.hid = st.hid
    BY <1>1, <1>5 DEF core_port, Clean, State
  <2>3. QED
    BY <1>5, <2>1, <2>2, IdleKeeps DEF core_port
<1>6. CASE ReadAbor
  <2>1. st' \in State
    BY <1>1, <1>6, AborTyped DEF ReadAbor
  <2>2. Cancelled(st, st') /\ Clean(st)
    BY <1>1, <1>6, AborFields DEF ReadAbor
  <2>3. Clean(st') /\ st'.said = st.said /\ (st'.hid => st.hid)
    BY <2>2 DEF Cancelled, Clean
  <2>4. QED
    BY <1>6, <2>1, <2>3, IdleKeeps DEF ReadAbor
<1>7. ASSUME NEW c \in Commands, NEW f \in {"absent", "old"}, Start(c, f)
      PROVE  IInv'
  <2>1. st' \in State
    BY <1>1, <1>7, SetField DEF Start, pr_response_clear
  <2>2. /\ Clean(st') /\ st'.said = "none" /\ st'.hid = st.hid
        /\ ~st'.errs /\ st'.file \in {"absent", "old"}
    BY <1>1, <1>7 DEF Start, pr_response_clear, Clean, State
  <2>3. TypeOK'
    BY <1>7, <2>1, ConfAssumption DEF Start, IInv, TypeOK, Places
  <2>4. Stages' /\ Answers' /\ StoredFiles'
    BY <1>7, <2>2 DEF Start, IInv, Stages, Answers, StoredFiles
  <2>5. QED
    BY <2>3, <2>4 DEF IInv
<1>8. QED
  BY <1>2, <1>3, <1>4, <1>5, <1>6, <1>7 DEF Control

\* What the handler of a command has when it opens the data connection.
LEMMA BeforeOpening ==
    ASSUME IInv, pc = "pre"
    PROVE  /\ FileOpened(st, FileOpens(st)) /\ FileOpens(st) \in State
           /\ cmd \notin FileCommands => FileOpens(st).fh = "none" /\ Quiet(FileOpens(st))
           /\ FileOpens(st).said = "none" /\ ~FileOpens(st).errs
           /\ FileOpens(st).hid /\ conf.delete # "off" =>
                 cmd \in Uploads /\ RemovesHidden(FileOpens(st))
           /\ FileOpens(st).file # "new"
<1>1. st \in State /\ cmd \in Commands
  BY DEF IInv, TypeOK
<1>2. PICK s \in State : s = FileOpens(st)
  BY <1>1, OpenTyped
<1>3. FileOpened(st, s)
  BY <1>1, <1>2, FileOpensFields
<1>4. Clean(st) /\ st.said = "none" /\ ~st.errs /\ st.file # "new"
  BY DEF IInv, Stages, Answers, StoredFiles
<1>5. s.said = "none" /\ ~s.errs /\ s.file # "new"
  BY <1>3, <1>4 DEF FileOpened
<1>6. cmd \notin FileCommands => s.fh = "none" /\ Quiet(s)
  BY <1>3, <1>4 DEF FileOpened, Clean, Quiet
<1>7. s.hid /\ conf.delete # "off" => cmd \in Uploads /\ RemovesHidden(s)
  <2>1. st.hid /\ conf.delete # "off" => FALSE
    BY DEF IInv, StoredFiles
  <2>2. SUFFICES ASSUME s.hid, conf.delete # "off"
                 PROVE  cmd \in Uploads /\ RemovesHidden(s)
    OBVIOUS
  <2>3. Hidden /\ cmd \in Uploads
    BY <1>3, <2>1, <2>2 DEF FileOpened
  <2>4. Held(s)
    BY <1>3, <2>3 DEF FileOpened, FileCommands
  <2>5. s.type = "HIDDEN" /\ s.path_hidden
    BY <2>3, <2>4 DEF Held, StoreType, Hidden
  <2>6. QED
    BY <2>2, <2>3, <2>5 DEF RemovesHidden
<1>8. QED
  BY <1>2, <1>3, <1>5, <1>6, <1>7

\* What a step that ends a command without success does
FileLeft ==
    \/ st'.file = st.file
    \/ cmd \in Uploads /\ ~Hidden /\ st'.file = "part"
    \/ conf.delete = "on" /\ cmd \in Uploads /\ st'.file = "absent"

Ended == IInv' /\ pc' = "loop" /\ (cmd \in FileCommands => st'.rest = "none")

GivesUp == Ended /\ FileLeft /\ UNCHANGED <<conf, cmd>>

\* A command that returns a finished state.
LEMMA FinishedGivesUp ==
    ASSUME IInv, NEW s \in State, Returns(s), NEW t \in State, Finished(t, s),
           s.said # "twice",
           t.file = st.file \/ (cmd \in Uploads /\ ~Hidden /\ t.file = "part")
    PROVE  GivesUp /\ st' = s
<1>1. IInv'
  BY ReturnsKeeps DEF Finished
<1>2. QED
  BY <1>1 DEF GivesUp, Ended, FileLeft, Finished, Returns

\* A command that fails sends at most one reply.
LEMMA FailedGivesUp ==
    ASSUME IInv, NEW s \in State, Returns(Failed(s)), s.fh = "none", Quiet(s),
           conf.delete # "off" => ~s.hid,
           s.errs => s.said = "none", s.said # "twice",
           \/ s.file = st.file
           \/ cmd \in Uploads /\ ~Hidden /\ s.file = "part"
    PROVE  /\ GivesUp
           /\ st'.said = IF s.errs THEN "failed" ELSE s.said
<1>1. PICK t \in State : t = Failed(s)
  BY CleanupTyped
<1>2. Finished(s, t)
  BY <1>1, FailedFinished
<1>3. t.said = IF s.errs THEN "failed" ELSE s.said
  BY <1>1, FailedFields
<1>4. Returns(t)
  BY <1>1
<1>5. QED
  BY <1>2, <1>3, <1>4, FinishedGivesUp

\* The file cannot be had.
LEMMA RefuseStep ==
    ASSUME IInv, Refuse
    PROVE  GivesUp /\ st'.said = "failed"
<1>1. st \in State /\ Clean(st) /\ st.said = "none" /\ (conf.delete # "off" => ~st.hid)
  BY DEF Refuse, IInv, TypeOK, Stages, Answers, StoredFiles
<1>2. PICK s \in State : s = pr_response_add_err(st)
  BY <1>1, ResponseTyped
<1>3. /\ s.fh = "none" /\ Quiet(s) /\ s.hid = st.hid /\ s.errs = TRUE
      /\ s.said = "none" /\ s.file = st.file
  BY <1>1, <1>2 DEF pr_response_add_err, Clean, Quiet, State
<1>4. QED
  BY <1>1, <1>2, <1>3, FailedGivesUp DEF Refuse

\* The position is beyond the end of the file.
LEMMA RefuseOffsetStep ==
    ASSUME IInv, RefuseOffset
    PROVE  GivesUp /\ st'.said = "failed"
<1>1. st \in State /\ Clean(st) /\ st.said = "none" /\ (conf.delete # "off" => ~st.hid)
  BY DEF RefuseOffset, IInv, TypeOK, Stages, Answers, StoredFiles
<1>2. PICK s \in State : s = pr_response_add_err([st EXCEPT !.file = "part"])
  BY <1>1, ResponseTyped, SetField
<1>3. /\ s.fh = "none" /\ Quiet(s) /\ s.hid = st.hid /\ s.errs = TRUE
      /\ s.said = "none" /\ s.file = "part"
  BY <1>1, <1>2 DEF pr_response_add_err, Clean, Quiet, State
<1>4. QED
  BY <1>1, <1>2, <1>3, FailedGivesUp DEF RefuseOffset, Uploads

\* pr_data_open failed.
LEMMA OpenFailedGivesUp ==
    ASSUME IInv, NEW s \in State, Returns(OpenFailed(s)),
           s.said = "none", TrueAbort(s) => ~s.errs,
           IF cmd \in FileCommands THEN Held(s) ELSE s.fh = "none" /\ Quiet(s),
           s.hid /\ conf.delete # "off" => cmd \in Uploads /\ RemovesHidden(s),
           \/ s.file = st.file
           \/ cmd \in Uploads /\ ~Hidden /\ s.file = "part"
    PROVE  /\ GivesUp /\ st'.said \in {"none", "failed"}
           /\ s.errs => st'.said = "failed"
<1>1. cmd \in Commands
  BY DEF IInv, TypeOK
<1>2. PICK t \in State : t = OpenFailed(s)
  BY <1>1, OpenTyped
<1>3. /\ Finished(s, t) /\ t.said \in {"none", "failed"}
      /\ s.errs => t.said = "failed"
  BY <1>1, <1>2, OpenFailedFields
<1>4. Returns(t)
  BY <1>2
<1>5. QED
  BY <1>3, <1>4, FinishedGivesUp

\* The client does not connect.
LEMMA ConnectFailsStep ==
    ASSUME IInv, ConnectFails
    PROVE  GivesUp /\ st'.said = "failed"
<1>1. /\ st \in State /\ cmd \in Commands /\ Held(st) /\ st.said = "none"
      /\ st.hid /\ conf.delete # "off" => Hidden
  BY DEF ConnectFails, IInv, TypeOK, Stages, Answers, StoredFiles
<1>2. PICK r \in State : r = pr_response_add_err(st)
  BY <1>1, ResponseTyped
<1>3. r.fh = st.fh /\ r.hid = st.hid /\ r.errs = TRUE /\ r.said = "none" /\ r.file = st.file
  BY <1>1, <1>2 DEF pr_response_add_err, State
<1>4. PICK s \in State : s = pr_data_close2(r)
  BY DataTyped
<1>5. /\ TakenDown(r, s) /\ s.nstrm = FALSE /\ s.errs = TRUE /\ s.said = "none"
      /\ ~TrueAbort(s)
  BY <1>3, <1>4, CloseFields
<1>6. Quiet(s) /\ s.fh = st.fh /\ s.hid = st.hid /\ s.file = st.file
  BY <1>3, <1>5, TakenDownQuiet
<1>7. /\ s.p = st.p /\ s.dir = st.dir /\ s.path = st.path /\ s.type = st.type
      /\ s.path_hidden = st.path_hidden
  BY <1>1, <1>2, <1>4 DEF pr_response_add_err, pr_data_close2, Linger, State
<1>8. Held(s)
  BY <1>1, <1>6, <1>7, Zenon DEF Held
<1>9. s.hid /\ conf.delete # "off" => cmd \in Uploads /\ RemovesHidden(s)
  <2>1. SUFFICES ASSUME s.hid, conf.delete # "off" PROVE cmd \in Uploads /\ RemovesHidden(s)
    OBVIOUS
  <2>2. Hidden /\ cmd \in Uploads
    BY <1>1, <1>6, <2>1 DEF Hidden, Uploads
  <2>3. s.type = "HIDDEN" /\ s.path_hidden
    BY <1>8, <2>2 DEF Held, StoreType, Hidden
  <2>4. QED
    BY <2>1, <2>2, <2>3 DEF RemovesHidden
<1>10. cmd \notin FileCommands => s.fh = "none"
  BY <1>1, <1>8 DEF Held, FileCommands, Uploads, Commands
<1>11. Returns(OpenFailed(s))
  BY <1>2, <1>4 DEF ConnectFails
<1>12. QED
  BY <1>5, <1>6, <1>8, <1>9, <1>10, <1>11, OpenFailedGivesUp

\* The handler opens the file and the data connection, or fails.
LEMMA HandleStep ==
    ASSUME IInv, Handle
    PROVE  \/ /\ GivesUp /\ st'.said \in {"none", "failed"}
              /\ Connected(st) => st'.said = "failed"
           \/ /\ IInv' /\ pc' = "opening" /\ Connected(st)
              /\ st'.said = st.said
              /\ st'.file = st.file \/ (cmd \in Uploads /\ ~Hidden /\ st'.file = "part")
              /\ UNCHANGED <<conf, cmd, client>>
              /\ "ABORT" \notin st'.sf
<1>1. st \in State /\ cmd \in Commands /\ pc = "pre" /\ Clean(st)
  BY DEF IInv, TypeOK, Handle, Stages
<1>2. PICK s \in State : s = FileOpens(st)
  BY <1>1, OpenTyped
<1>3. /\ FileOpened(st, s)
      /\ cmd \notin FileCommands => s.fh = "none" /\ Quiet(s)
      /\ s.said = "none" /\ ~s.errs
      /\ s.hid /\ conf.delete # "off" => cmd \in Uploads /\ RemovesHidden(s)
      /\ s.file # "new"
  BY <1>1, <1>2, BeforeOpening
<1>4. PICK t \in State : t = OpenBegins(s, Direction)
  BY <1>1, OpenTyped DEF Direction
<1>5. Opening(s, t)
  <2>1. IF cmd \in FileCommands THEN Held(s) ELSE s.fh = "none"
    BY <1>3 DEF FileOpened
  <2>2. QED
    BY <1>1, <1>4, <2>1, OpenBeginsFields
<1>6. PICK n \in State : n = [t EXCEPT !.d = "none", !.stalled = s.stalled]
  BY FlagsTyped, SetField
<1>7. /\ n.d = "none" /\ n.stalled = s.stalled /\ n.sf = t.sf /\ n.nstrm = t.nstrm
      /\ n.torn = t.torn /\ n.errs = t.errs /\ n.said = t.said /\ n.file = t.file
      /\ n.hid = t.hid /\ n.fh = t.fh
  BY <1>6 DEF State
<1>8. /\ n.p = t.p /\ n.dir = t.dir /\ n.path = t.path
      /\ n.type = t.type /\ n.path_hidden = t.path_hidden
  BY <1>6 DEF State
<1>9. Held(t) /\ Held(n)
  BY <1>5, <1>7, <1>8, Zenon DEF Held, Opening
<1>10. \/ ~Expected(s) /\ Returns(OpenFailed(s))
       \/ Expected(s) /\ Revoked(s) /\ Returns(OpenFailed(n))
       \/ Connected(s) /\ ~Passive(s) /\ Returns(OpenFailed(pr_response_add_err(n)))
       \/ /\ Connected(s)
          /\ pc' = "opening"
          /\ st' = t
          /\ UNCHANGED <<conf, cmd, res, left, client>>
  BY <1>2, <1>4, <1>6 DEF Handle, Direction
<1>11. Connected(st) <=> Connected(s)
  BY <1>3 DEF FileOpened, Connected, Expected, Revoked, Passive
<1>12. s.file = st.file \/ (cmd \in Uploads /\ ~Hidden /\ s.file = "part")
  BY <1>3 DEF FileOpened
<1>13. CASE ~Expected(s) /\ Returns(OpenFailed(s))
  <2>1. IF cmd \in FileCommands THEN Held(s) ELSE s.fh = "none" /\ Quiet(s)
    BY <1>3 DEF FileOpened
  <2>2. GivesUp /\ st'.said \in {"none", "failed"}
    BY <1>3, <1>12, <1>13, <2>1, OpenFailedGivesUp
  <2>3. QED
    BY <1>11, <1>13, <2>2 DEF Connected
<1>14. IF cmd \in FileCommands THEN Held(n) ELSE n.fh = "none" /\ Quiet(n)
  BY <1>3, <1>5, <1>7, <1>9 DEF Opening, Quiet
<1>15. n.hid /\ conf.delete # "off" => cmd \in Uploads /\ RemovesHidden(n)
  <2>1. SUFFICES ASSUME n.hid, conf.delete # "off" PROVE cmd \in Uploads /\ RemovesHidden(n)
    OBVIOUS
  <2>2. cmd \in Uploads /\ s.type = "HIDDEN" /\ s.path_hidden
    BY <1>3, <1>5, <1>7, <2>1 DEF Opening, RemovesHidden
  <2>3. Held(s)
    BY <1>3, <2>2 DEF FileOpened, FileCommands
  <2>4. n.type = "HIDDEN" /\ n.path_hidden
    BY <1>9, <2>2, <2>3, Zenon DEF Held
  <2>5. QED
    BY <2>1, <2>2, <2>4 DEF RemovesHidden
<1>16. /\ n.said = "none" /\ ~n.errs /\ ~TrueAbort(n) /\ n.file = s.file
  BY <1>3, <1>5, <1>7 DEF Opening, TrueAbort
<1>17. CASE Expected(s) /\ Revoked(s) /\ Returns(OpenFailed(n))
  <2>1. GivesUp /\ st'.said \in {"none", "failed"}
    BY <1>12, <1>14, <1>15, <1>16, <1>17, OpenFailedGivesUp
  <2>2. QED
    BY <1>11, <1>17, <2>1 DEF Connected
<1>18. CASE Connected(s) /\ ~Passive(s) /\ Returns(OpenFailed(pr_response_add_err(n)))
  <2>1. PICK m \in State : m = pr_response_add_err(n)
    BY ResponseTyped
  <2>2. /\ m.d = n.d /\ m.stalled = n.stalled /\ m.sf = n.sf /\ m.nstrm = n.nstrm
        /\ m.torn = n.torn /\ m.errs = TRUE /\ m.said = n.said /\ m.file = n.file
        /\ m.hid = n.hid /\ m.fh = n.fh
    BY <2>1 DEF pr_response_add_err, State
  <2>3. /\ m.p = n.p /\ m.dir = n.dir /\ m.path = n.path
        /\ m.type = n.type /\ m.path_hidden = n.path_hidden
    BY <2>1 DEF pr_response_add_err, State
  <2>4. Held(m) /\ (RemovesHidden(m) <=> RemovesHidden(n)) /\ (Quiet(n) => Quiet(m))
    <3>1. Held(m)
      BY <1>9, <2>2, <2>3, Zenon DEF Held
    <3>2. QED
      BY <2>2, <2>3, <3>1 DEF RemovesHidden, Quiet
  <2>5. Returns(OpenFailed(m)) /\ ~TrueAbort(m)
    BY <1>16, <1>18, <2>1, <2>2 DEF TrueAbort
  <2>6. GivesUp /\ st'.said = "failed"
    BY <1>12, <1>14, <1>15, <1>16, <2>2, <2>4, <2>5, OpenFailedGivesUp
  <2>7. QED
    BY <2>6
<1>19. CASE /\ Connected(s)
            /\ pc' = "opening"
            /\ st' = t
            /\ UNCHANGED <<conf, cmd, res, left, client>>
  <2>1. /\ st'.said = "none" /\ ~st'.errs /\ Held(st') /\ st'.file = s.file
        /\ st'.hid = s.hid /\ st'.fh = s.fh
    BY <1>3, <1>5, <1>9, <1>19 DEF Opening
  <2>2. ~st'.torn => "XFER" \notin st'.sf /\ ~st'.nstrm
    BY <1>1, <1>3, <1>5, <1>19 DEF Opening, FileOpened, Clean
  <2>3. Held(st)'
    BY <2>1, <1>19, Zenon DEF Held, StoreType, Hidden
  <2>4. st'.hid /\ conf.delete # "off" => Hidden /\ st'.fh = "stor"
    <3>1. SUFFICES ASSUME st'.hid, conf.delete # "off" PROVE Hidden /\ st'.fh = "stor"
      OBVIOUS
    <3>2. cmd \in Uploads /\ s.type = "HIDDEN"
      BY <1>3, <2>1, <3>1 DEF RemovesHidden
    <3>3. Held(s)
      BY <1>3, <3>2 DEF FileOpened, FileCommands
    <3>4. QED
      BY <2>1, <3>2, <3>3 DEF Held, StoreType, Hidden
  <2>5. TypeOK'
    BY <1>19 DEF IInv, TypeOK, Places
  <2>6. Stages'
    BY <1>19, <2>2, <2>3 DEF Stages
  <2>7. Answers' /\ StoredFiles'
    BY <1>1, <1>3, <1>19, <2>1, <2>4 DEF IInv, Answers, StoredFiles, Hidden
  <2>8. "ABORT" \notin st'.sf
    BY <1>5, <1>19 DEF Opening
  <2>9. st.said = "none"
    BY <1>1 DEF IInv, Answers
  <2>10. QED
    BY <1>11, <1>12, <1>19, <2>1, <2>5, <2>6, <2>7, <2>8, <2>9 DEF IInv
<1>20. QED
  BY <1>10, <1>13, <1>17, <1>18, <1>19

\* The client connects.
LEMMA ConnectsStep ==
    ASSUME IInv, Connects
    PROVE  /\ IInv' /\ pc' = "xfer" /\ UNCHANGED <<conf, cmd, client>>
           /\ st'.said = st.said /\ st'.file = st.file
           /\ TrueAbort(st') <=> TrueAbort(st)
<1>1. /\ st \in State /\ pc = "opening" /\ Held(st) /\ st.said = "none" /\ ~st.errs
      /\ client.abor # "read" /\ st.file # "new"
      /\ st.hid /\ conf.delete # "off" => Hidden /\ st.fh = "stor"
  BY DEF Connects, IInv, TypeOK, Stages, Answers, StoredFiles
<1>2. st' \in State
  BY <1>1, DataTyped DEF Connects
<1>3. /\ st'.d = "open" /\ st'.nstrm = TRUE
      /\ st'.sf = st.sf \cup {"XFER"} /\ st'.torn = FALSE
      /\ st'.errs = st.errs /\ st'.said = st.said
      /\ st'.file = st.file /\ st'.hid = st.hid /\ st'.fh = st.fh
      /\ Held(st')
  BY <1>1, OpenEndsFields DEF Connects
<1>4. /\ conf' = conf /\ cmd' = cmd /\ client' = client
      /\ pc' = "xfer" /\ res' = res /\ left' = left
  BY DEF Connects
<1>5. Held(st)'
  BY <1>3, <1>4, Zenon DEF Held, StoreType, Hidden
<1>6. TypeOK'
  BY <1>2, <1>4 DEF IInv, TypeOK, Places
<1>7. Stages'
  BY <1>1, <1>3, <1>4, <1>5 DEF Stages, Live
<1>8. Answers' /\ StoredFiles'
  BY <1>1, <1>3, <1>4 DEF Answers, StoredFiles, Hidden, IInv
<1>9. QED
  BY <1>3, <1>4, <1>6, <1>7, <1>8 DEF IInv, TrueAbort

\* A live transfer that stays alive preserves the invariant.
LEMMA LiveKeeps ==
    ASSUME IInv, pc \in {"xfer", "polled"}, Live(st), pc' \in {"xfer", "polled", "end"},
           UNCHANGED <<conf, cmd, client>>, st' \in State,
           res' \in {"ok", "error", "aborted"}, left' \in 0..MaxBlocks,
           st'.d = st.d, st'.nstrm = st.nstrm, "XFER" \in st'.sf, st'.errs => st.errs,
           Held(st'), st'.said = st.said, st'.torn = st.torn, st'.file # "new",
           st'.hid = st.hid, st'.fh = st.fh
    PROVE  IInv'
<1>1. Held(st)'
  BY Zenon DEF Held, StoreType, Hidden
<1>2. TypeOK'
  BY DEF IInv, TypeOK, Places
<1>3. Live(st)'
  BY <1>1 DEF Live
<1>4. Stages'
  BY <1>3 DEF Stages, IInv
<1>5. Answers' /\ StoredFiles'
  BY DEF IInv, Answers, StoredFiles, Hidden, Live
<1>6. QED
  BY <1>2, <1>4, <1>5 DEF IInv

\* What holds while data is moved.
LEMMA Transferring ==
    ASSUME IInv, pc \in {"xfer", "polled"}
    PROVE  /\ st \in State /\ cmd \in Commands /\ st.said = "none" /\ ~st.torn
           /\ st.file # "new" /\ res \in {"ok", "error", "aborted"}
           /\ left \in 0..MaxBlocks
           /\ Live(st) \/ (pc = "polled" /\ Gone(st))
BY DEF IInv, TypeOK, Stages, Answers, StoredFiles

\* The control connection is looked at, and the transfer goes on.
LEMMA PollQuietlyStep ==
    ASSUME IInv, PollNothing \/ PollPeeks \/ PollRest
    PROVE  /\ IInv' /\ pc' = "polled" /\ UNCHANGED <<conf, cmd, client>>
           /\ st'.said = st.said /\ st'.file = st.file
           /\ TrueAbort(st) => TrueAbort(st')
<1>1. /\ pc = "xfer" /\ pc' = "polled" /\ UNCHANGED <<conf, cmd, client>>
      /\ res' = res /\ left' = left
  BY DEF PollNothing, PollPeeks, PollRest, Goes
<1>2. /\ st \in State /\ st.file # "new" /\ res \in {"ok", "error", "aborted"}
      /\ left \in 0..MaxBlocks /\ Live(st)
  BY <1>1, Transferring
<1>3. /\ st' \in State
      /\ st'.d = st.d /\ st'.nstrm = st.nstrm /\ "XFER" \in st'.sf /\ (st'.errs => st.errs)
      /\ st'.said = st.said /\ st'.torn = st.torn /\ st'.file = st.file
      /\ st'.hid = st.hid /\ st'.fh = st.fh
      /\ st'.p = st.p /\ st'.dir = st.dir /\ st'.path = st.path
      /\ st'.type = st.type /\ st'.path_hidden = st.path_hidden
      /\ "ABORT" \in st.sf => "ABORT" \in st'.sf
  <2>1. CASE PollNothing
    BY <1>2, <2>1 DEF PollNothing, Goes, Live
  <2>2. CASE PollPeeks
    <3>1. st' = Aborts(st) /\ st' \in State /\ "XFER" \in st.sf
      BY <1>2, <2>2, DataTyped DEF PollPeeks, Goes, Live
    <3>2. QED
      BY <1>2, <3>1 DEF Aborts, State
  <2>3. CASE PollRest
    <3>1. PICK r \in {"REST", "RANG"} : st' = SetRest(pr_response_clear(st), r)
      BY <2>3 DEF PollRest, Goes
    <3>2. st' \in State /\ "XFER" \in st.sf
      BY <1>2, <3>1, ResponseTyped, SetField DEF SetRest, Live
    <3>3. QED
      BY <1>2, <3>1, <3>2 DEF SetRest, pr_response_clear, State
  <2>4. QED
    BY <2>1, <2>2, <2>3
<1>4. Held(st')
  BY <1>2, <1>3, Zenon DEF Held, Live
<1>5. IInv'
  BY <1>1, <1>2, <1>3, <1>4, LiveKeeps
<1>6. QED
  BY <1>1, <1>3, <1>5 DEF TrueAbort

\* An ABOR is carried out in the middle of the transfer.
LEMMA PollDispatchesStep ==
    ASSUME IInv, PollDispatches
    PROVE  /\ IInv' /\ pc' = "polled" /\ UNCHANGED <<conf, cmd>> /\ FileLeft
           /\ st'.said = st.said /\ client'.abor = "read" /\ st.file # "new"
<1>1. /\ pc = "xfer" /\ pc' = "polled" /\ UNCHANGED <<conf, cmd>>
      /\ client' = [client EXCEPT !.abor = "read"]
      /\ res' = res /\ left' = left /\ st' = xfer_abor(st)
  BY DEF PollDispatches, Goes
<1>2. /\ st \in State /\ st.file # "new" /\ Live(st) /\ st.said = "none"
      /\ cmd \in Commands
  BY <1>1, Transferring
<1>3. st' \in State /\ Cancelled(st, st')
  BY <1>1, <1>2, AborTyped, AborFields
<1>4. st.dir = IF cmd \in Uploads THEN "RD" ELSE "WR"
  BY <1>2 DEF Live, Held
<1>5. client' \in [abor : {"none", "queued", "read"}, oob : BOOLEAN] /\ client'.abor = "read"
  BY <1>1 DEF IInv, TypeOK
<1>6. TypeOK'
  BY <1>1, <1>3, <1>5 DEF IInv, TypeOK, Places
<1>7. Gone(st)'
  BY <1>3, <1>4, <1>5 DEF Gone, Cancelled
<1>8. Stages'
  BY <1>1, <1>3, <1>7 DEF Stages, Cancelled
<1>9. Answers'
  BY <1>1, <1>2, <1>3, <1>5 DEF Answers, Cancelled
<1>10. FileLeft /\ st'.file # "new"
  BY <1>1, <1>2, <1>3, <1>4 DEF FileLeft, Cancelled
<1>11. conf.delete # "off" => ~st'.hid
  <2>1. SUFFICES ASSUME st'.hid, conf.delete # "off" PROVE FALSE
    OBVIOUS
  <2>2. st.hid /\ Hidden
    BY <1>3, <2>1 DEF Cancelled, IInv, StoredFiles
  <2>3. RemovesHidden(st) /\ cmd \in Uploads
    BY <1>2, <2>1, <2>2 DEF Live, Held, RemovesHidden, StoreType, Hidden, Uploads
  <2>4. QED
    BY <1>3, <1>4, <2>1, <2>3 DEF Cancelled
<1>12. StoredFiles'
  BY <1>1, <1>10, <1>11 DEF StoredFiles
<1>13. QED
  BY <1>1, <1>2, <1>3, <1>5, <1>6, <1>8, <1>9, <1>10, <1>12 DEF IInv, Cancelled

\* A block of data is moved.
LEMMA BlockStep ==
    ASSUME IInv, Block
    PROVE  /\ IInv' /\ pc = "polled" /\ pc' = "xfer" /\ UNCHANGED <<conf, cmd, client>>
           /\ st'.said = st.said
           /\ st'.file = IF cmd \in Uploads /\ ~Hidden THEN "part" ELSE st.file
           /\ TrueAbort(st') <=> TrueAbort(st)
<1>1. /\ pc = "polled" /\ pc' = "xfer" /\ UNCHANGED <<conf, cmd, client, res>>
      /\ st.d = "open" /\ left > 0 /\ left' = left - 1
      /\ st' = [st EXCEPT !.file = IF cmd \in Uploads /\ ~Hidden THEN "part" ELSE @]
  BY DEF Block
<1>2. /\ st \in State /\ st.file # "new" /\ res \in {"ok", "error", "aborted"}
      /\ left \in 0..MaxBlocks /\ Live(st)
  BY <1>1, Transferring DEF Gone
<1>3. st' \in State
  BY <1>1, <1>2, SetField, FlagsTyped
<1>4. left' \in 0..MaxBlocks
  BY <1>1, <1>2, ConfAssumption
<1>5. /\ st'.d = st.d /\ st'.nstrm = st.nstrm /\ st'.sf = st.sf /\ st'.errs = st.errs
      /\ st'.said = st.said /\ st'.torn = st.torn
      /\ st'.hid = st.hid /\ st'.fh = st.fh
      /\ st'.p = st.p /\ st'.dir = st.dir /\ st'.path = st.path
      /\ st'.type = st.type /\ st'.path_hidden = st.path_hidden
      /\ st'.file = IF cmd \in Uploads /\ ~Hidden THEN "part" ELSE st.file
  BY <1>1, <1>2 DEF State
<1>6. Held(st')
  BY <1>2, <1>5, Zenon DEF Held, Live
<1>7. IInv'
  BY <1>1, <1>2, <1>3, <1>4, <1>5, <1>6, LiveKeeps DEF Live
<1>8. QED
  BY <1>1, <1>5, <1>7 DEF TrueAbort

\* There is no more data to be moved.
LEMMA DataEndsStep ==
    ASSUME IInv, DataEnds \/ DataBreaks \/ DataGone
    PROVE  IInv' /\ pc = "polled" /\ pc' = "end" /\ UNCHANGED <<conf, cmd, client, st>>
<1>1. /\ pc = "polled" /\ pc' = "end" /\ UNCHANGED <<conf, cmd, client, st, left>>
      /\ res' \in {"ok", "error"}
      /\ st.d = "open" \/ (st.d = "none" /\ (cmd = "LIST" \/ res' = "error"))
  BY DEF DataEnds, DataBreaks, DataGone, Goes
<1>2. /\ st \in State /\ st.file # "new" /\ ~st.torn /\ st.said = "none"
      /\ Live(st) \/ Gone(st)
  BY <1>1, Transferring
<1>3. TypeOK'
  BY <1>1 DEF IInv, TypeOK, Places
<1>4. (Live(st) => Live(st)') /\ (Gone(st) => Gone(st)')
  BY <1>1 DEF Live, Gone, Held, StoreType, Hidden
<1>5. Stages'
  BY <1>1, <1>2, <1>4 DEF Stages, Live, Gone
<1>6. Answers' /\ StoredFiles'
  BY <1>1, <1>2 DEF IInv, Answers, StoredFiles, Hidden
<1>7. QED
  BY <1>1, <1>3, <1>5, <1>6 DEF IInv

\* What holds when no more data is to be moved.
LEMMA AtTheEnd ==
    ASSUME IInv, pc = "end"
    PROVE  /\ st \in State /\ cmd \in Commands /\ res \in {"ok", "error", "aborted"}
           /\ st.said = "none" /\ ~st.torn /\ st.file # "new"
           /\ st.hid /\ conf.delete # "off" => Hidden /\ st.fh = "stor"
           /\ Live(st) \/ (Gone(st) /\ (cmd = "LIST" \/ res = "error"))
           /\ cmd \notin FileCommands => st.fh = "none"
<1>1. /\ st \in State /\ cmd \in Commands /\ res \in {"ok", "error", "aborted"}
      /\ st.said = "none" /\ ~st.torn /\ st.file # "new"
      /\ st.hid /\ conf.delete # "off" => Hidden /\ st.fh = "stor"
      /\ Live(st) \/ (Gone(st) /\ (cmd = "LIST" \/ res = "error"))
  BY DEF IInv, TypeOK, Stages, Answers, StoredFiles
<1>2. cmd \notin FileCommands => st.fh = "none"
  BY <1>1 DEF Live, Gone, Held, FileCommands
<1>3. QED
  BY <1>1, <1>2

\* pr_data_abort is called, and the connection lingers.
LEMMA AbandonsStep ==
    ASSUME IInv, pc = "end", NEW s \in State, Abandons(s),
           s.fh = "none", s.sf = st.sf, s.said = "none", s.d = st.d,
           ~s.torn, s.errs = st.errs, conf.delete # "off" => ~s.hid,
           s.file = st.file \/ (conf.delete = "on" /\ cmd \in Uploads /\ s.file = "absent")
    PROVE  /\ IInv' /\ pc' = "aborting" /\ UNCHANGED <<conf, cmd, client>> /\ FileLeft
           /\ st.said = "none" /\ st.file # "new"
           /\ st'.said \in {"none", "failed"}
           /\ st'.said = "failed" => TrueAbort(st)
           /\ TrueAbort(st') <=> TrueAbort(st)
<1>1. /\ st \in State /\ st.said = "none" /\ st.file # "new" /\ cmd \in Commands
      /\ Live(st) \/ Gone(st)
  BY AtTheEnd
<1>2. /\ pc' = "aborting" /\ UNCHANGED <<conf, cmd, left, client>>
      /\ res' = (IF TrueAbort(s) THEN "aborted" ELSE "error")
      /\ st' = AbortBegins(s)
  BY DEF Abandons, Goes
<1>3. st' \in State
  BY <1>2, AbortTyped
<1>4. /\ st'.nstrm = FALSE /\ st'.fh = "none" /\ st'.hid = s.hid
      /\ st'.file = s.file /\ st'.sf = s.sf /\ st'.errs = s.errs /\ st'.torn = s.torn
      /\ st'.said = IF TrueAbort(s) /\ s.d \in {"open", "listen"} THEN "failed" ELSE "none"
  BY <1>2, AbortBeginsFields
<1>5. TrueAbort(st') <=> TrueAbort(s)
  BY <1>4 DEF TrueAbort
<1>6. TrueAbort(s) <=> TrueAbort(st)
  BY DEF TrueAbort
<1>7. TrueAbort(st) => ~st.errs
  BY <1>1 DEF Live, Gone, TrueAbort
<1>8. TypeOK'
  BY <1>2, <1>3 DEF IInv, TypeOK, Places
<1>9. Stages'
  BY <1>2, <1>4 DEF Stages
<1>10. Answers'
  BY <1>2, <1>4, <1>5, <1>6, <1>7 DEF Answers, TrueAbort
<1>11. StoredFiles' /\ FileLeft
  BY <1>1, <1>2, <1>4 DEF StoredFiles, FileLeft
<1>12. QED
  BY <1>1, <1>2, <1>4, <1>5, <1>6, <1>8, <1>9, <1>10, <1>11 DEF IInv

\* pr_data_close2 is called, and the connection lingers.
LEMMA ClosesStep ==
    ASSUME IInv, pc = "end", Live(st), NEW r \in {"ok", "error"}, NEW s \in State, Closes(r, s),
           s.fh = "none", s.sf = st.sf, s.said = "none", ~s.errs, ~s.torn,
           conf.delete # "off" => ~s.hid,
           r = "ok" \/ TrueAbort(st), cmd \in Uploads => r = "ok",
           s.file = IF cmd \in Uploads THEN "new" ELSE st.file
    PROVE  /\ IInv' /\ pc' = "closing" /\ UNCHANGED <<conf, cmd, client>>
           /\ st'.said = st.said /\ st'.file = s.file
           /\ TrueAbort(st') <=> TrueAbort(st)
<1>1. st \in State /\ st.said = "none" /\ st.file # "new" /\ cmd \in Commands
  BY AtTheEnd
<1>2. /\ pc' = "closing" /\ UNCHANGED <<conf, cmd, left, client>>
      /\ res' = r /\ st' = Linger(s)
  BY DEF Closes, Goes
<1>3. st' \in State
  BY <1>2, DataTyped
<1>4. /\ st'.nstrm = FALSE /\ st'.fh = "none" /\ st'.hid = s.hid
      /\ st'.file = s.file /\ st'.sf = st.sf /\ st'.errs = s.errs /\ st'.torn = s.torn
      /\ st'.said = "none"
  BY <1>2, LingerFields
<1>5. client.abor # "read"
  BY DEF Live
<1>6. TrueAbort(st') <=> TrueAbort(st)
  BY <1>4 DEF TrueAbort
<1>7. TypeOK'
  BY <1>2, <1>3 DEF IInv, TypeOK, Places
<1>8. Stages'
  BY <1>2, <1>4 DEF Stages
<1>9. Answers'
  BY <1>2, <1>4, <1>5, <1>6 DEF Answers, TrueAbort
<1>10. StoredFiles'
  BY <1>1, <1>2, <1>4 DEF StoredFiles
<1>11. QED
  BY <1>1, <1>2, <1>4, <1>6, <1>7, <1>8, <1>9, <1>10 DEF IInv

\* An upload that is not over can remove its hidden file.
LEMMA HoldsHidden ==
    ASSUME NEW s \in State, Held(s), Hidden, conf.delete # "off"
    PROVE  RemovesHidden(s) /\ s.path_hidden
BY DEF Held, RemovesHidden, StoreType, Hidden, Uploads

\* An upload is aborted.
LEMMA EndStoreStep ==
    ASSUME IInv, EndStore
    PROVE  /\ IInv' /\ pc' = "aborting" /\ UNCHANGED <<conf, cmd, client>> /\ FileLeft
           /\ st.said = "none" /\ st.file # "new"
           /\ st'.said \in {"none", "failed"}
           /\ st'.said = "failed" => TrueAbort(st)
           /\ TrueAbort(st') <=> TrueAbort(st)
<1>1. /\ st \in State /\ cmd \in Uploads /\ pc = "end" /\ st.said = "none" /\ ~st.torn
      /\ st.hid /\ conf.delete # "off" => Hidden /\ st.fh = "stor"
      /\ Live(st) \/ Gone(st)
  BY AtTheEnd DEF EndStore
<1>2. PICK s \in State : s = stor_abort(st)
  BY <1>1, FileTyped
<1>3. Abandons(s)
  BY <1>2 DEF EndStore
<1>4. conf.delete # "off" => ~s.hid
  BY <1>1, <1>2, StorAbortFields, HoldsHidden DEF Live, Gone
<1>5. /\ s.fh = "none" /\ s.sf = st.sf /\ s.said = "none" /\ s.d = st.d
      /\ ~s.torn /\ s.errs = st.errs
      /\ s.file = st.file \/ (conf.delete = "on" /\ cmd \in Uploads /\ s.file = "absent")
  BY <1>1, <1>2, StorAbortFields
<1>6. QED
  BY <1>1, <1>3, <1>4, <1>5, AbandonsStep

\* An upload is complete.
LEMMA InstallStep ==
    ASSUME IInv, Install
    PROVE  /\ IInv' /\ pc = "end" /\ pc' = "closing" /\ UNCHANGED <<conf, cmd, client>>
           /\ cmd \in Uploads /\ st.said = "none" /\ st'.said = st.said /\ st'.file = "new"
           /\ TrueAbort(st') <=> TrueAbort(st)
<1>1. /\ st \in State /\ cmd \in Uploads /\ pc = "end" /\ st.said = "none" /\ ~st.torn
      /\ st.hid /\ conf.delete # "off" => Hidden /\ st.fh = "stor"
      /\ Live(st)
  BY AtTheEnd DEF Install, Uploads
<1>2. Completes(st) \in State
  <2> DEFINE kept == st.hid /\ ~st.path_hidden
  <2>1. Completes(st) = [st EXCEPT !.fh = "none", !.file = "new", !.hid = kept,
                                   !.path_hidden = FALSE]
    BY DEF Completes
  <2>2. kept \in BOOLEAN
    OBVIOUS
  <2>3. \A k \in BOOLEAN : [st EXCEPT !.fh = "none", !.file = "new", !.hid = k,
                                      !.path_hidden = FALSE] \in State
    BY <1>1, SetField
  <2> HIDE DEF kept
  <2>4. QED
    BY <2>1, <2>2, <2>3, Zenon
<1>3. PICK s \in State : s = Completes(st)
  BY <1>2
<1>4. /\ s.fh = "none" /\ s.sf = st.sf /\ s.said = "none" /\ s.errs = st.errs
      /\ ~s.torn /\ s.file = "new" /\ (s.hid => st.hid /\ ~st.path_hidden)
  BY <1>1, <1>3 DEF Completes, State
<1>5. conf.delete # "off" => ~s.hid
  BY <1>1, <1>4, HoldsHidden DEF Live
<1>6. Closes("ok", s)
  BY <1>3 DEF Install
<1>7. QED
  BY <1>1, <1>4, <1>5, <1>6, ClosesStep DEF Live

\* The file cannot be closed, or not be renamed.
LEMMA InstallFailsStep ==
    ASSUME IInv, InstallFails
    PROVE  GivesUp /\ st'.said = "failed"
<1>1. /\ st \in State /\ cmd \in Uploads /\ pc = "end" /\ st.said = "none" /\ ~st.torn
      /\ st.hid /\ conf.delete # "off" => Hidden /\ st.fh = "stor"
      /\ Live(st)
  BY AtTheEnd DEF InstallFails, Uploads
<1> DEFINE kept == st.hid /\ ~st.path_hidden
           left_open == [st EXCEPT !.fh = "none", !.hid = kept, !.torn = TRUE]
<1>2. left_open \in State
  <2>1. kept \in BOOLEAN
    OBVIOUS
  <2>2. \A k \in BOOLEAN : [st EXCEPT !.fh = "none", !.hid = k, !.torn = TRUE] \in State
    BY <1>1, SetField
  <2> HIDE DEF kept
  <2>3. QED
    BY <2>1, <2>2, Zenon
<1>3. /\ left_open.fh = "none" /\ (left_open.hid => st.hid /\ ~st.path_hidden)
      /\ left_open.torn = TRUE /\ left_open.said = "none" /\ left_open.file = st.file
  BY <1>1 DEF State
<1>4. Returns(Failed(pr_response_add_err(left_open)))
  BY DEF InstallFails
<1> HIDE DEF left_open
<1>5. PICK s \in State : s = pr_response_add_err(left_open)
  BY <1>2, ResponseTyped
<1>6. /\ s.fh = "none" /\ (s.hid => st.hid /\ ~st.path_hidden)
      /\ s.torn = TRUE /\ s.said = "none" /\ s.file = st.file /\ s.errs = TRUE
  BY <1>2, <1>3, <1>5 DEF pr_response_add_err, State
<1>7. Quiet(s) /\ (conf.delete # "off" => ~s.hid)
  BY <1>1, <1>6, HoldsHidden DEF Quiet, Live
<1>8. QED
  BY <1>4, <1>5, <1>6, <1>7, FailedGivesUp

\* The end of a download: it is closed, it is abandoned, or it was aborted before.
DownloadEnds ==
    \/ /\ IInv' /\ pc' = "closing" /\ UNCHANGED <<conf, cmd, client>>
       /\ st'.said = st.said /\ st'.file = st.file
       /\ TrueAbort(st') <=> TrueAbort(st)
    \/ /\ IInv' /\ pc' = "aborting" /\ UNCHANGED <<conf, cmd, client>> /\ FileLeft
       /\ st.said = "none" /\ st.file # "new"
       /\ st'.said \in {"none", "failed"}
       /\ st'.said = "failed" => TrueAbort(st)
       /\ TrueAbort(st') <=> TrueAbort(st)
    \/ /\ GivesUp /\ st.file # "new" /\ client.abor = "read"
       /\ st'.said \in {"none", "failed"} /\ st.said = "none"

\* The end of RETR.
LEMMA EndRetrStep ==
    ASSUME IInv, EndRetr
    PROVE  DownloadEnds
<1>1. /\ st \in State /\ cmd = "RETR" /\ pc = "end" /\ st.said = "none" /\ ~st.torn
      /\ st.file # "new"
      /\ Live(st) \/ (Gone(st) /\ res = "error")
      /\ conf.delete # "off" => ~st.hid
  BY AtTheEnd DEF EndRetr, Hidden
<1>2. PICK s \in State : s = retr_abort(st)
  BY <1>1, FileTyped
<1>3. /\ s.fh = "none" /\ s.hid = st.hid /\ s.file = st.file
      /\ s.d = st.d /\ s.sf = st.sf /\ s.nstrm = st.nstrm /\ s.stalled = st.stalled
      /\ s.errs = st.errs /\ s.said = st.said /\ s.torn = st.torn
  BY <1>1, <1>2, RetrAbortFields
<1>4. s = [st EXCEPT !.fh = "none"]
  BY <1>2 DEF retr_abort
<1>5. CASE res = "ok" /\ ~TrueAbort(st) /\ Closes("ok", s)
  <2>1. Live(st)
    BY <1>1, <1>5
  <2>2. QED
    BY <1>1, <1>3, <1>5, <2>1, ClosesStep DEF DownloadEnds, Live, Uploads
<1>6. CASE Abandons(s)
  BY <1>1, <1>3, <1>6, AbandonsStep DEF DownloadEnds
<1>7. CASE st.d = "none" /\ Returns(Failed(s))
  <2>1. Gone(st)
    BY <1>1, <1>7 DEF Live
  <2>2. Quiet(s)
    BY <1>3, <2>1 DEF Gone, Quiet
  <2>3. GivesUp /\ st'.said = IF s.errs THEN "failed" ELSE s.said
    BY <1>1, <1>3, <1>7, <2>2, FailedGivesUp
  <2>4. QED
    BY <1>1, <1>3, <2>1, <2>3 DEF DownloadEnds, Gone
<1>8. QED
  BY <1>2, <1>4, <1>5, <1>6, <1>7 DEF EndRetr

\* The end of LIST.
LEMMA EndListStep ==
    ASSUME IInv, EndList
    PROVE  DownloadEnds
<1>1. /\ st \in State /\ cmd = "LIST" /\ pc = "end" /\ st.said = "none" /\ ~st.torn
      /\ st.file # "new" /\ st.fh = "none"
      /\ Live(st) \/ Gone(st)
      /\ conf.delete # "off" => ~st.hid
  BY AtTheEnd DEF EndList, Hidden, FileCommands, Uploads
<1>2. CASE Abandons(st)
  BY <1>1, <1>2, AbandonsStep DEF DownloadEnds
<1>3. CASE "XFER" \in st.sf /\ Closes("ok", st)
  <2>1. Live(st)
    BY <1>1, <1>3 DEF Gone
  <2>2. QED
    BY <1>1, <1>3, <2>1, ClosesStep DEF DownloadEnds, Live, Uploads
<1>4. CASE "XFER" \notin st.sf /\ Returns(LogCleanup(st))
  <2>1. Gone(st)
    BY <1>1, <1>4 DEF Live
  <2>2. PICK t \in State : t = LogCleanup(st)
    BY <1>1, CleanupTyped
  <2>3. CleanedUp(st, t) /\ t.said = st.said
    BY <1>1, <2>2, LogCleanupFields
  <2>4. Quiet(st)
    BY <2>1 DEF Gone, Quiet
  <2>5. Finished(st, t)
    BY <1>1, <2>3, <2>4, CleanedUpClean DEF Finished
  <2>6. Returns(t)
    BY <1>4, <2>2
  <2>7. GivesUp /\ st' = t
    BY <1>1, <2>3, <2>5, <2>6, FinishedGivesUp
  <2>8. QED
    BY <1>1, <2>1, <2>3, <2>7 DEF DownloadEnds, Gone
<1>5. QED
  BY <1>2, <1>3, <1>4 DEF EndList

\* The end of MLSD.
LEMMA EndMlsdStep ==
    ASSUME IInv, EndMlsd
    PROVE  DownloadEnds
<1>1. /\ st \in State /\ cmd = "MLSD" /\ pc = "end" /\ st.said = "none" /\ ~st.torn
      /\ st.file # "new" /\ st.fh = "none"
      /\ Live(st) \/ (Gone(st) /\ res = "error")
      /\ conf.delete # "off" => ~st.hid
  BY AtTheEnd DEF EndMlsd, Hidden, FileCommands, Uploads
<1>2. CASE Abandons(st)
  BY <1>1, <1>2, AbandonsStep DEF DownloadEnds
<1>3. ASSUME NEW r \in {"ok", "error"}, r = "ok" \/ TrueAbort(st), res = "ok", Closes(r, st)
      PROVE  DownloadEnds
  <2>1. Live(st)
    BY <1>1, <1>3
  <2>2. QED
    BY <1>1, <1>3, <2>1, ClosesStep DEF DownloadEnds, Live, Uploads
<1>4. QED
  BY <1>2, <1>3 DEF EndMlsd

\* The connection of an aborted transfer is gone.
LEMMA AbandonedStep ==
    ASSUME IInv, Abandoned
    PROVE  /\ GivesUp /\ st.file # "new"
           /\ st'.said = "failed" \/ (st'.said = st.said /\ TrueAbort(st))
<1>1. /\ st \in State /\ pc = "aborting" /\ ~st.nstrm /\ st.fh = "none" /\ st.file # "new"
      /\ IF res = "aborted" THEN ~st.errs /\ TrueAbort(st) ELSE st.said = "none"
      /\ st.said # "twice" /\ (conf.delete # "off" => ~st.hid)
  BY DEF Abandoned, IInv, TypeOK, Stages, Answers, StoredFiles
<1>2. (res = "aborted") \in BOOLEAN
  OBVIOUS
<1>3. PICK s \in State : s = AbortEnds(st, FALSE, res = "aborted")
  BY <1>1, <1>2, AbortTyped, Zenon
<1>4. /\ TakenDown(st, s) /\ s.nstrm = st.nstrm /\ s.said = st.said
      /\ s.errs = (st.errs \/ res # "aborted")
  BY <1>1, <1>2, <1>3, AbortEndsFields
<1>5. /\ Quiet(s) /\ s.fh = "none" /\ s.hid = st.hid /\ s.file = st.file
      /\ s.d = "none"
  <2>1. s.nstrm = FALSE
    BY <1>1, <1>4 DEF State
  <2>2. QED
    BY <1>1, <1>4, <2>1, TakenDownQuiet DEF TakenDown
<1>6. s.errs <=> res # "aborted"
  BY <1>1, <1>4
<1>7. PICK t \in State :
          /\ Returns(Failed(t))
          /\ Quiet(t) /\ t.fh = "none" /\ t.hid = st.hid /\ t.file = st.file
          /\ t.said = s.said /\ t.errs = s.errs
  <2>1. CASE cmd = "LIST" /\ TrueAbort(s)
    <3>1. PICK t \in State : t = pr_data_abort(s, FALSE)
      BY AbortTyped
    <3>2. TakenDown(s, t) /\ t.nstrm = FALSE /\ t.said = s.said /\ t.errs = s.errs
      <4>1. s.errs \in BOOLEAN
        BY DEF State
      <4>2. QED
        BY <1>5, <2>1, <3>1, <4>1, AbortFields
    <3>3. Returns(Failed(t))
      BY <1>3, <2>1, <3>1 DEF Abandoned
    <3>4. QED
      BY <1>5, <3>2, <3>3, TakenDownQuiet
  <2>2. CASE cmd = "MLSD" /\ TrueAbort(s)
    <3>1. PICK t \in State : t = pr_data_close2(s)
      BY DataTyped
    <3>2. TakenDown(s, t) /\ t.nstrm = FALSE /\ t.said = s.said /\ t.errs = s.errs
      BY <3>1, CloseFields
    <3>3. Returns(Failed(t))
      BY <1>3, <2>2, <3>1 DEF Abandoned
    <3>4. QED
      BY <1>5, <3>2, <3>3, TakenDownQuiet
  <2>3. CASE ~(cmd = "LIST" /\ TrueAbort(s)) /\ ~(cmd = "MLSD" /\ TrueAbort(s))
    <3>1. Returns(Failed(s))
      BY <1>3, <2>3 DEF Abandoned
    <3>2. QED
      BY <1>5, <3>1
  <2>4. QED
    BY <2>1, <2>2, <2>3
<1>8. GivesUp /\ st'.said = IF t.errs THEN "failed" ELSE t.said
  BY <1>1, <1>4, <1>6, <1>7, FailedGivesUp
<1>9. QED
  BY <1>1, <1>4, <1>6, <1>7, <1>8

\* The connection of a complete transfer is gone.
LEMMA ClosedStep ==
    ASSUME IInv, Closed
    PROVE  \/ /\ Ended /\ UNCHANGED <<conf, cmd>> /\ st'.file = st.file
              /\ st.said = "none" /\ st'.said = "ok"
              /\ cmd \in Uploads => st.file = "new"
           \/ /\ GivesUp /\ st.file # "new"
              /\ st.said = "none" /\ st'.said = "none" /\ TrueAbort(st)
<1>1. /\ st \in State /\ pc = "closing" /\ st.fh = "none"
      /\ st.said = "none" /\ ~st.errs /\ (res = "ok" \/ TrueAbort(st))
      /\ cmd \in Uploads <=> st.file = "new"
      /\ cmd \in Uploads => res = "ok"
      /\ conf.delete # "off" => ~st.hid
  BY DEF Closed, IInv, TypeOK, Stages, Answers, StoredFiles
<1>2. PICK s \in State : s = pr_data_close2(st)
  BY <1>1, DataTyped
<1>3. /\ TakenDown(st, s) /\ s.nstrm = FALSE /\ s.errs = st.errs /\ s.said = "none"
  BY <1>1, <1>2, CloseFields
<1>4. Quiet(s) /\ s.fh = "none" /\ s.hid = st.hid /\ s.file = st.file
  BY <1>1, <1>3, TakenDownQuiet
<1>5. CASE res = "ok"
  <2>1. PICK t \in State : t = Succeeded(s)
    BY CleanupTyped
  <2>2. CleanedUp(s, t) /\ t.said = "ok"
    BY <1>3, <2>1, SucceededFields
  <2>3. /\ Clean(t) /\ (cmd \in FileCommands => t.rest = "none") /\ t.file = st.file
        /\ conf.delete # "off" => ~t.hid
    BY <1>1, <1>4, <2>2, CleanedUpClean
  <2>4. Returns(t)
    BY <1>2, <1>5, <2>1 DEF Closed
  <2>5. IInv'
    BY <2>2, <2>3, <2>4, ReturnsKeeps
  <2>6. QED
    BY <1>1, <2>2, <2>3, <2>4, <2>5 DEF Ended, Returns
<1>6. CASE res # "ok"
  <2>1. Returns(Failed(s))
    BY <1>2, <1>6 DEF Closed
  <2>2. GivesUp /\ st'.said = "none"
    BY <1>1, <1>3, <1>4, <2>1, FailedGivesUp
  <2>3. QED
    BY <1>1, <1>6, <2>2
<1>7. QED
  BY <1>5, <1>6

\* The client sends ABOR.
LEMMA SendAborStep ==
    ASSUME IInv, NEW oob \in BOOLEAN, SendAbor(oob)
    PROVE  IInv'
<1>1. /\ UNCHANGED <<conf, pc, cmd, res, left, st>>
      /\ client.abor = "none" /\ client' = [abor |-> "queued", oob |-> oob]
  BY DEF SendAbor
<1>2. client'.abor = "queued"
  BY <1>1
<1>3. TypeOK'
  BY <1>1 DEF IInv, TypeOK
<1>4. (Held(st) => Held(st)') /\ (Clean(st) => Clean(st)')
  BY <1>1 DEF Held, StoreType, Hidden, Clean
<1>5. (Live(st) => Live(st)') /\ ~Gone(st)
  BY <1>1, <1>2, <1>4 DEF Live, Gone
<1>6. Stages'
  BY <1>1, <1>4, <1>5 DEF IInv, Stages
<1>7. Answers' /\ StoredFiles'
  BY <1>1, <1>2 DEF IInv, Answers, StoredFiles, TrueAbort, Hidden
<1>8. QED
  BY <1>3, <1>6, <1>7 DEF IInv

\* The session ends, whether or not the file was closed before.
LEMMA ExitKeeps ==
    ASSUME IInv, pc # "closed", pc' = "closed", UNCHANGED <<conf, cmd, res, left>>,
           client' \in [abor : {"none", "queued", "read"}, oob : BOOLEAN],
           client'.abor = client.abor,
           st' \in State, Exited(st, st')
    PROVE  /\ IInv' /\ FileLeft /\ st'.said = st.said
           /\ st'.file = st.file \/ st.file # "new"
<1>1. TypeOK'
  BY DEF IInv, TypeOK, Places
<1>2. Stages'
  BY DEF Stages, Exited
<1>3. Answers'
  BY DEF IInv, Answers, Exited
<1>4. conf.delete # "off" => ~st'.hid
  <2>1. SUFFICES ASSUME st'.hid, conf.delete # "off" PROVE FALSE
    OBVIOUS
  <2>2. st.hid /\ Hidden /\ pc \in {"opening", "xfer", "polled", "end"} /\ st.fh = "stor"
    BY <2>1 DEF Exited, IInv, StoredFiles
  <2>3. st \in State /\ Held(st)
    BY <2>2 DEF IInv, TypeOK, Stages, Live, Gone
  <2>4. QED
    BY <2>1, <2>2, <2>3, HoldsHidden DEF Exited
<1>5. StoredFiles'
  BY <1>4 DEF StoredFiles
<1>6. FileLeft
  <2>1. st.fh = "stor" => cmd \in Uploads
    BY DEF IInv, Stages, Clean, Live, Gone, Held, TypeOK, Places
  <2>2. QED
    BY <2>1 DEF Exited, FileLeft
<1>7. st'.file = st.file \/ st.file # "new"
  <2>1. st.fh = "stor" => pc \in {"opening", "xfer", "polled", "end"}
    BY DEF IInv, Stages, Clean, TypeOK, Places
  <2>2. QED
    BY <2>1 DEF Exited, IInv, StoredFiles
<1>8. QED
  BY <1>1, <1>2, <1>3, <1>5, <1>6, <1>7 DEF IInv, Exited

\* The handler of SIGURG only sets the flag SF_ABORT.
LEMMA UrgentFields ==
    ASSUME NEW s \in State
    PROVE  /\ data_urgent(s) \in State
           /\ \A f \in {"d", "nstrm", "urg", "stalled", "fh", "p", "dir", "type", "path",
                        "path_hidden", "rest", "errs", "said", "file", "hid", "torn"} :
                 data_urgent(s)[f] = s[f]
           /\ \A f \in SF \ {"ABORT"} : f \in data_urgent(s).sf <=> f \in s.sf
           /\ \/ data_urgent(s).sf = s.sf
              \/ "XFER" \in s.sf /\ data_urgent(s).sf = s.sf \cup {"ABORT"}
<1>1. data_urgent(s) \in State
  BY DataTyped DEF data_urgent
<1>2. CASE "XFER" \in s.sf
  BY <1>1, <1>2 DEF data_urgent, Aborts, State, SF
<1>3. CASE "XFER" \notin s.sf
  BY <1>1, <1>3 DEF data_urgent
<1>4. QED
  BY <1>1, <1>2, <1>3

\* SIGURG, wherever it interrupts.
LEMMA SIGURGStep ==
    ASSUME IInv, SIGURG
    PROVE  /\ IInv' /\ UNCHANGED <<conf, cmd>> /\ client'.abor = client.abor
           /\ st'.said = st.said
           /\ \/ /\ pc' = pc /\ st'.file = st.file /\ st'.d = st.d
                 /\ Passive(st') <=> Passive(st)
                 /\ TrueAbort(st) => TrueAbort(st')
              \/ /\ pc # "closed" /\ pc' = "closed" /\ FileLeft
                 /\ st'.file = st.file \/ st.file # "new"
<1>1. /\ pc # "closed" /\ UNCHANGED <<conf, cmd, res, left>>
      /\ client' = [client EXCEPT !.oob = FALSE] /\ st \in State
      /\ client \in [abor : {"none", "queued", "read"}, oob : BOOLEAN]
  BY DEF SIGURG, IInv, TypeOK
<1>2. /\ client'.abor = client.abor
      /\ client' \in [abor : {"none", "queued", "read"}, oob : BOOLEAN]
  BY <1>1
<1>3. CASE pc' = "closed" /\ st' = Exit(st)
  <2>1. st' \in State /\ Exited(st, st')
    BY <1>1, <1>3, ExitTyped, ExitFields
  <2>2. QED
    BY <1>1, <1>2, <1>3, <2>1, ExitKeeps
<1>4. CASE pc' = pc /\ st' \in {st, data_urgent(st)}
  <2>1. /\ st' \in State
        /\ st'.d = st.d /\ st'.nstrm = st.nstrm /\ st'.stalled = st.stalled
        /\ st'.fh = st.fh /\ st'.p = st.p /\ st'.dir = st.dir /\ st'.type = st.type
        /\ st'.path = st.path /\ st'.path_hidden = st.path_hidden
        /\ st'.errs = st.errs /\ st'.said = st.said /\ st'.file = st.file
        /\ st'.hid = st.hid /\ st'.torn = st.torn
    BY <1>1, <1>4, UrgentFields
  <2>2. \A f \in SF \ {"ABORT"} : f \in st'.sf <=> f \in st.sf
    BY <1>1, <1>4, UrgentFields
  <2>3. st'.sf = st.sf \/ ("XFER" \in st.sf /\ st'.sf = st.sf \cup {"ABORT"})
    BY <1>1, <1>4, UrgentFields
  <2>4. "XFER" \in st'.sf <=> "XFER" \in st.sf
    BY <2>2 DEF SF
  <2>5. Held(st) => Held(st)'
    BY <1>1, <2>1, Zenon DEF Held, StoreType, Hidden
  <2>6. (Live(st) => Live(st)') /\ (Gone(st) => Gone(st)')
    BY <1>2, <2>1, <2>3, <2>4, <2>5 DEF Live, Gone
  <2>7. Clean(st) => Clean(st)'
    BY <2>1, <2>4 DEF Clean
  <2>8. TrueAbort(st) => TrueAbort(st')
    BY <2>3 DEF TrueAbort
  <2>9. TypeOK'
    BY <1>1, <1>2, <1>4, <2>1 DEF IInv, TypeOK
  <2>10. Stages'
    BY <1>1, <1>4, <2>1, <2>4, <2>5, <2>6, <2>7 DEF IInv, Stages
  <2>11. Answers'
    BY <1>1, <1>2, <1>4, <2>1, <2>8 DEF IInv, Answers, TrueAbort
  <2>12. StoredFiles'
    BY <1>1, <1>4, <2>1 DEF IInv, StoredFiles, Hidden
  <2>13. Passive(st') <=> Passive(st)
    BY <2>2 DEF Passive, SF
  <2>14. QED
    BY <1>1, <1>2, <1>4, <2>1, <2>8, <2>9, <2>10, <2>11, <2>12, <2>13 DEF IInv
<1>5. QED
  BY <1>3, <1>4 DEF SIGURG

\* The session ends, by itself or by TimeoutStalled.
LEMMA EndsStep ==
    ASSUME IInv, SessionEnds \/ stalled_timeout_cb
    PROVE  /\ IInv' /\ UNCHANGED <<conf, cmd>> /\ pc # "closed" /\ pc' = "closed"
           /\ FileLeft /\ st'.said = st.said
           /\ st'.file = st.file \/ st.file # "new"
<1>1. /\ pc # "closed" /\ pc' = "closed" /\ UNCHANGED <<conf, cmd, res, left, client>>
      /\ st' = Exit(st) \/ ("XFER" \notin st.sf /\ st' = Exit(CloseFile(st)))
      /\ st \in State /\ client \in [abor : {"none", "queued", "read"}, oob : BOOLEAN]
  BY DEF SessionEnds, stalled_timeout_cb, Handles, Ends, IInv, TypeOK
<1>2. CASE st' = Exit(st)
  <2>1. st' \in State /\ Exited(st, st')
    BY <1>1, <1>2, ExitTyped, ExitFields
  <2>2. QED
    BY <1>1, <2>1, ExitKeeps
<1>3. CASE st' = Exit(CloseFile(st))
  <2>1. PICK s \in State : s = CloseFile(st)
    BY <1>1, FileTyped
  <2>2. /\ s.fh = "none" /\ (s.hid => st.hid /\ ~(st.fh = "stor" /\ RemovesHidden(st)))
        /\ s.file = IF st.fh = "stor" /\ st.path /\ conf.delete = "on"
                    THEN "absent" ELSE st.file
        /\ s.said = st.said
    BY <1>1, <2>1, CloseFileFields
  <2>3. st' \in State /\ Exited(s, st')
    BY <1>3, <2>1, ExitTyped, ExitFields
  <2>4. Exited(st, st')
    BY <2>2, <2>3 DEF Exited
  <2>5. QED
    BY <1>1, <2>3, <2>4, ExitKeeps
<1>4. QED
  BY <1>1, <1>2, <1>3

\* The invariant holds when the session begins.
LEMMA Initially ==
    ASSUME Init PROVE IInv
<1>1. TypeOK
  <2>1. Idle \in State
    BY DEF Idle, State, SF
  <2>2. conf \in [hidden : BOOLEAN, delete : {"unset", "on", "off"}, revoke : BOOLEAN]
    BY ConfAssumption DEF Init
  <2>3. left \in 0..MaxBlocks
    BY ConfAssumption DEF Init
  <2>4. QED
    BY <2>1, <2>2, <2>3 DEF Init, TypeOK, Places, Commands
<1>2. Stages /\ Answers /\ StoredFiles
  BY DEF Init, Idle, Stages, Answers, StoredFiles, Clean
<1>3. QED
  BY <1>1, <1>2 DEF IInv

\* Every step preserves the invariant.
LEMMA StepKeeps ==
    ASSUME IInv, [Next]_vars
    PROVE  IInv'
<1>1. CASE Control
  BY <1>1, ControlKeeps
<1>2. CASE Works
  BY <1>2, RefuseStep, RefuseOffsetStep, HandleStep, PollQuietlyStep, PollDispatchesStep,
     DataEndsStep, EndStoreStep, InstallStep, InstallFailsStep, EndRetrStep, EndListStep,
     EndMlsdStep, AbandonedStep, ClosedStep
  DEF Works, GivesUp, Ended, DownloadEnds
<1>3. CASE Connects \/ ConnectFails \/ PollRest \/ Block \/ DataEnds \/ DataBreaks
  BY <1>3, ConnectsStep, ConnectFailsStep, PollQuietlyStep, BlockStep, DataEndsStep
  DEF GivesUp, Ended
<1>4. CASE (\E oob \in BOOLEAN : SendAbor(oob)) \/ SIGURG \/ SessionEnds \/ stalled_timeout_cb
  BY <1>4, SendAborStep, SIGURGStep, EndsStep
<1>5. CASE UNCHANGED vars
  BY <1>5 DEF vars, IInv, TypeOK, Stages, Answers, StoredFiles, Clean, Held, Live, Gone,
              StoreType, Hidden, TrueAbort
<1>6. QED
  BY <1>1, <1>2, <1>3, <1>4, <1>5 DEF Next

\* The inductive invariant of the data connection.
THEOREM Inductive == Spec => []IInv
BY Initially, StepKeeps, PTL DEF Spec

\* Every variable keeps its type: the operators of data.c, mod_xfer, mod_ls and
\* mod_facts return a state of the session, whatever they are given.
THEOREM TypeCorrect == Spec => []TypeOK
BY Inductive, PTL DEF IInv

\* SafeAbort for every configuration and any number of blocks: when SIGURG comes,
\* data_urgent aborts a stream that exists, unless a failed store left it open.
THEOREM UrgentDataSafe == Spec => []SafeAbort
<1>1. IInv => SafeAbort
  BY DEF IInv, SafeAbort, Dangling, Stages, Clean, Live, Gone, TypeOK, Places
<1>2. QED
  BY <1>1, Inductive, PTL

\* HiddenGone: no temporary file of HiddenStores outlives its upload or the
\* session, however these end, unless DeleteAbortedStores is off.
THEOREM NoHiddenFileLeft == Spec => []HiddenGone
<1>1. IInv => HiddenGone
  BY DEF IInv, HiddenGone, StoredFiles
<1>2. QED
  BY <1>1, Inductive, PTL

\* CleanLoop: whichever of its ends a transfer comes to, the next command finds
\* no file, pool, path, timer, flag or stream of it, and no restart position.
THEOREM NextCommandClean == Spec => CleanLoop
<1>1. ASSUME IInv, IInv', [Next]_vars
      PROVE  [pc' = "loop" =>
                /\ Clean(st')
                /\ pc # "loop" /\ cmd \in FileCommands => st'.rest = "none"]_vars
  <2>1. pc' = "loop" => Clean(st')
    BY <1>1 DEF IInv, Stages, Clean
  <2>2. CASE Control
    BY <2>1, <2>2 DEF Control, core_pasv, xfer_rest, core_epsv_all, core_port,
                      ReadAbor, Start, Reads
  <2>3. CASE Works
    BY <1>1, <2>1, <2>3, RefuseStep, RefuseOffsetStep, HandleStep, PollQuietlyStep,
       PollDispatchesStep, DataEndsStep, EndStoreStep, InstallStep, InstallFailsStep, EndRetrStep, EndListStep,
       EndMlsdStep, AbandonedStep, ClosedStep
    DEF Works, GivesUp, Ended, DownloadEnds
  <2>4. CASE Connects \/ ConnectFails \/ PollRest \/ Block \/ DataEnds \/ DataBreaks
    BY <1>1, <2>1, <2>4, ConnectsStep, ConnectFailsStep, PollQuietlyStep,
       BlockStep, DataEndsStep
    DEF GivesUp, Ended
  <2>5. CASE (\E oob \in BOOLEAN : SendAbor(oob)) \/ SIGURG \/ SessionEnds \/ stalled_timeout_cb
    BY <1>1, <2>1, <2>5, SIGURGStep, EndsStep DEF SendAbor
  <2>6. QED
    BY <1>1, <2>2, <2>3, <2>4, <2>5 DEF Next
<1>2. QED
  BY <1>1, Inductive, PTL DEF Spec, CleanLoop

\* The kind of the transfer is that of its command.
LEMMA SameKind ==
    ASSUME UNCHANGED <<conf, cmd>>
    PROVE  Kind' = Kind /\ (conf.delete = "on")' = (conf.delete = "on")
BY DEF Kind, Hidden

\* What the kinds are.
LEMMA KindFields ==
    /\ Kind \in {"download", "upload", "hidden"}
    /\ Kind = "download" <=> cmd \notin Uploads
    /\ Kind = "upload" <=> cmd \in Uploads /\ ~Hidden
BY DEF Kind, Hidden, Uploads

\* The initial states.
LEMMA InitRefines ==
    ASSUME Init PROVE Promised!Init
<1>1. Phase = "idle" /\ Interrupted = FALSE /\ Ready = TRUE /\ Kind = "download"
  BY DEF Init, Phase, Interrupted, Ready, Kind, Uploads, Hidden
<1>2. st.said = "none" /\ st.file = "absent"
  BY DEF Init, Idle
<1>3. (conf.delete = "on") \in BOOLEAN
  OBVIOUS
<1>4. QED
  BY <1>1, <1>2, <1>3 DEF Promised!Init

\* What may be left of the file.
LEMMA GivenUpRefines ==
    ASSUME FileLeft, st'.file = st.file \/ st.file # "new"
    PROVE  Promised!GivenUp
BY KindFields DEF FileLeft, Promised!GivenUp

\* The phase of a transfer in progress.
LEMMA MovingPhase ==
    ASSUME pc \in {"xfer", "polled", "end", "aborting", "closing"}
    PROVE  /\ Phase = "moving" /\ Ready = TRUE
           /\ Interrupted = (TrueAbort(st) \/ client.abor = "read")
BY DEF Phase, Ready, Interrupted

\* The phase of a command that has not opened its file.
LEMMA AskedPhase ==
    ASSUME pc = "pre"
    PROVE  Phase = "asked" /\ (Ready <=> Connected(st)) /\ Interrupted = FALSE
BY DEF Phase, Ready, Interrupted

\* A command that gives up fails.
LEMMA FailRefines ==
    ASSUME IInv, pc \in {"pre", "opening", "xfer", "polled", "end", "aborting", "closing"},
           GivesUp, st.file # "new",
           \/ st'.said = "failed"
           \/ /\ st'.said = st.said
              /\ (Phase = "asked" => ~Ready) /\ (Phase = "moving" => Interrupted)
    PROVE  Promised!Fail
<1>1. Phase \in {"asked", "moving"}
  BY DEF Phase
<1>2. Phase' = "idle" /\ Ready' = TRUE /\ Interrupted' = FALSE
  BY DEF GivesUp, Ended, Phase, Ready, Interrupted
<1>3. Promised!GivenUp
  BY GivenUpRefines DEF GivesUp
<1>4. Kind' = Kind /\ (conf.delete = "on")' = (conf.delete = "on")
  BY SameKind DEF GivesUp
<1>5. QED
  BY <1>1, <1>2, <1>3, <1>4 DEF Promised!Fail

\* A step that the client does not see.
LEMMA StutterRefines ==
    ASSUME UNCHANGED <<conf, cmd>>, Phase' = Phase, Ready' = Ready,
           Interrupted' = Interrupted, st'.said = st.said, st'.file = st.file
    PROVE  UNCHANGED Promised!vars
BY SameKind DEF Promised!vars

\* An interruption.
LEMMA AbortRefines ==
    ASSUME UNCHANGED <<conf, cmd>>, Phase \in {"asked", "moving"}, Phase' = Phase,
           Ready' = Ready, Interrupted' = TRUE, st'.said = st.said,
           FileLeft, st'.file = st.file \/ st.file # "new"
    PROVE  Promised!Abort
BY SameKind, GivenUpRefines DEF Promised!Abort

\* pr_data_abort begins.
LEMMA GiveUpRefines ==
    ASSUME pc = "end", pc' = "aborting", UNCHANGED <<conf, cmd, client>>, FileLeft,
           st.said = "none", st.file # "new", st'.said \in {"none", "failed"},
           st'.said = "failed" => TrueAbort(st),
           TrueAbort(st') <=> TrueAbort(st)
    PROVE  Promised!GiveUp
<1>1. Phase = "moving" /\ Phase' = "moving" /\ Ready = TRUE /\ Ready' = TRUE
  BY DEF Phase, Ready
<1>2. Interrupted' = Interrupted /\ (TrueAbort(st) => Interrupted)
  BY DEF Interrupted, TrueAbort
<1>3. Promised!GivenUp
  BY GivenUpRefines
<1>4. QED
  BY <1>1, <1>2, <1>3, SameKind DEF Promised!GiveUp

\* Between transfers, only the start of a command is seen.
LEMMA ControlRefines ==
    ASSUME IInv, Control
    PROVE  Promised!Ask \/ UNCHANGED Promised!vars
<1>1. st \in State
  BY DEF IInv, TypeOK
<1>2. ASSUME pc = "loop", pc' = "loop", UNCHANGED <<conf, cmd>>,
             st'.said = st.said, st'.file = st.file
      PROVE  UNCHANGED Promised!vars
  <2>1. Phase' = Phase /\ Ready' = Ready /\ Interrupted' = Interrupted
    BY <1>2 DEF Phase, Ready, Interrupted
  <2>2. QED
    BY <1>2, <2>1, StutterRefines
<1>3. ASSUME NEW epsv \in BOOLEAN, core_pasv(epsv)
      PROVE  UNCHANGED Promised!vars
  <2>1. st'.said = st.said /\ st'.file = st.file
    BY <1>1, <1>3 DEF core_pasv, State
  <2>2. QED
    BY <1>2, <1>3, <2>1 DEF core_pasv, Reads, Stays
<1>4. ASSUME NEW r \in {"none", "REST", "RANG"}, xfer_rest(r)
      PROVE  UNCHANGED Promised!vars
  <2>1. st'.said = st.said /\ st'.file = st.file
    BY <1>1, <1>4 DEF xfer_rest, SetRest, State
  <2>2. QED
    BY <1>2, <1>4, <2>1 DEF xfer_rest, Reads, Stays
<1>5. CASE core_epsv_all \/ core_port
  <2>1. st'.said = st.said /\ st'.file = st.file
    BY <1>1, <1>5 DEF core_epsv_all, core_port, State
  <2>2. QED
    BY <1>2, <1>5, <2>1 DEF core_epsv_all, core_port, Reads, Stays
<1>6. CASE ReadAbor
  <2>1. Cancelled(st, st') /\ st.dir = "none"
    BY <1>1, <1>6, AborFields DEF ReadAbor, IInv, Stages, Clean
  <2>2. QED
    BY <1>2, <1>6, <2>1 DEF ReadAbor, Cancelled
<1>7. ASSUME NEW c \in Commands, NEW f \in {"absent", "old"}, Start(c, f)
      PROVE  Promised!Ask
  <2>1. st'.said = "none" /\ st'.file = f
    BY <1>1, <1>7 DEF Start, pr_response_clear, State
  <2>2. Phase = "idle" /\ Phase' = "asked" /\ Interrupted' = FALSE
    BY <1>7 DEF Start, Reads, Phase, Interrupted
  <2>3. Ready' \in BOOLEAN
    BY DEF Ready
  <2>4. Kind' \in {"download", "upload", "hidden"}
    BY DEF Kind
  <2>5. (conf.delete = "on")' = (conf.delete = "on")
    BY <1>7 DEF Start
  <2>6. QED
    BY <2>1, <2>2, <2>3, <2>4, <2>5 DEF Promised!Ask, Promised!Kinds
<1>8. QED
  BY <1>3, <1>4, <1>5, <1>6, <1>7 DEF Control

\* The handler opens the file, or fails.
LEMMA HandleRefines ==
    ASSUME IInv, Handle
    PROVE  Promised!Open \/ Promised!Fail \/ UNCHANGED Promised!vars
<1>1. pc = "pre" /\ st.said = "none" /\ st.file # "new"
  BY DEF Handle, IInv, Answers, StoredFiles
<1>2. Phase = "asked" /\ (Ready <=> Connected(st)) /\ Interrupted = FALSE
  BY <1>1, AskedPhase
<1>3. CASE /\ GivesUp /\ st'.said \in {"none", "failed"}
           /\ Connected(st) => st'.said = "failed"
  BY <1>1, <1>2, <1>3, FailRefines
<1>4. CASE /\ IInv' /\ pc' = "opening" /\ Connected(st)
           /\ st'.said = st.said
           /\ st'.file = st.file \/ (cmd \in Uploads /\ ~Hidden /\ st'.file = "part")
           /\ UNCHANGED <<conf, cmd, client>>
           /\ "ABORT" \notin st'.sf
  <2>1. Ready = TRUE
    BY <1>2, <1>4 DEF Ready
  <2>2. client'.abor # "read"
    BY <1>4 DEF IInv, Answers
  <2>3. Phase' = "asked" /\ Ready' = TRUE /\ Interrupted' = FALSE
    BY <1>4, <2>2 DEF Phase, Ready, Interrupted, TrueAbort
  <2>4. CASE st'.file = st.file
    BY <1>2, <1>4, <2>1, <2>3, <2>4, StutterRefines
  <2>5. CASE cmd \in Uploads /\ ~Hidden /\ st'.file = "part"
    BY <1>2, <1>4, <2>1, <2>3, <2>5, SameKind, KindFields DEF Promised!Open
  <2>6. QED
    BY <1>4, <2>4, <2>5
<1>5. QED
  BY <1>3, <1>4, HandleStep

\* A look at the control connection may interrupt the transfer.
LEMMA PollRefines ==
    ASSUME IInv, PollNothing \/ PollPeeks \/ PollRest \/ PollDispatches
    PROVE  Promised!Abort \/ UNCHANGED Promised!vars
<1>1. pc = "xfer"
  BY DEF PollNothing, PollPeeks, PollRest, PollDispatches
<1>2. st.file # "new" /\ client.abor # "read"
  BY <1>1, Transferring DEF Live
<1>3. /\ Phase = "moving" /\ Ready = TRUE
      /\ Interrupted = (TrueAbort(st) \/ client.abor = "read")
  BY <1>1, MovingPhase
<1>4. CASE PollDispatches
  <2>1. /\ pc' = "polled" /\ UNCHANGED <<conf, cmd>> /\ FileLeft
        /\ st'.said = st.said /\ client'.abor = "read"
    BY <1>4, PollDispatchesStep
  <2>2. Phase' = "moving" /\ Ready' = TRUE /\ Interrupted' = TRUE
    BY <2>1 DEF Phase, Ready, Interrupted
  <2>3. QED
    BY <1>2, <1>3, <2>1, <2>2, AbortRefines
<1>5. CASE PollNothing \/ PollPeeks \/ PollRest
  <2>1. /\ pc' = "polled" /\ UNCHANGED <<conf, cmd, client>>
        /\ st'.said = st.said /\ st'.file = st.file
        /\ TrueAbort(st) => TrueAbort(st')
    BY <1>5, PollQuietlyStep
  <2>2. Phase' = "moving" /\ Ready' = TRUE /\ Interrupted' \in BOOLEAN
        /\ (Interrupted => Interrupted')
    BY <1>1, <2>1 DEF Phase, Ready, Interrupted, TrueAbort
  <2>3. CASE Interrupted' = TRUE
    BY <1>2, <1>3, <2>1, <2>2, <2>3, AbortRefines DEF FileLeft
  <2>4. CASE Interrupted' = FALSE
    <3>1. Interrupted = FALSE
      BY <2>2, <2>4 DEF Interrupted
    <3>2. QED
      BY <1>3, <2>1, <2>2, <2>4, <3>1, StutterRefines
  <2>5. QED
    BY <2>2, <2>3, <2>4
<1>6. QED
  BY <1>4, <1>5

\* Opening, moving data, and installing the file.
LEMMA MovesRefine ==
    ASSUME IInv, Connects \/ Block \/ DataEnds \/ DataBreaks \/ DataGone \/ Install
    PROVE  Promised!Begin \/ Promised!Move \/ Promised!Install \/ UNCHANGED Promised!vars
<1>1. CASE Connects
  <2>1. /\ pc = "opening" /\ pc' = "xfer" /\ UNCHANGED <<conf, cmd, client>>
        /\ st'.said = st.said /\ st'.file = st.file
        /\ TrueAbort(st') <=> TrueAbort(st)
    BY <1>1, ConnectsStep DEF Connects
  <2>2. /\ Phase = "asked" /\ Phase' = "moving" /\ Ready = TRUE /\ Ready' = TRUE
        /\ Interrupted' = Interrupted
    BY <2>1 DEF Phase, Ready, Interrupted, TrueAbort
  <2>3. QED
    BY <2>1, <2>2, SameKind DEF Promised!Begin
<1>2. CASE Block
  <2>1. /\ pc = "polled" /\ pc' = "xfer" /\ UNCHANGED <<conf, cmd, client>>
        /\ st'.said = st.said
        /\ st'.file = IF cmd \in Uploads /\ ~Hidden THEN "part" ELSE st.file
        /\ TrueAbort(st') <=> TrueAbort(st)
    BY <1>2, BlockStep
  <2>2. /\ Phase = "moving" /\ Phase' = "moving" /\ Ready = TRUE /\ Ready' = TRUE
        /\ Interrupted' = Interrupted
    BY <2>1 DEF Phase, Ready, Interrupted, TrueAbort
  <2>3. CASE cmd \in Uploads /\ ~Hidden
    BY <2>1, <2>2, <2>3, SameKind, KindFields DEF Promised!Move
  <2>4. CASE ~(cmd \in Uploads /\ ~Hidden)
    <3>1. st'.file = st.file
      BY <2>1, <2>4
    <3>2. QED
      BY <2>1, <2>2, <3>1, StutterRefines
  <2>5. QED
    BY <2>3, <2>4
<1>3. CASE DataEnds \/ DataBreaks \/ DataGone
  <2>1. pc = "polled" /\ pc' = "end" /\ UNCHANGED <<conf, cmd, client, st>>
    BY <1>3, DataEndsStep
  <2>2. Phase' = Phase /\ Ready' = Ready /\ Interrupted' = Interrupted
    BY <2>1 DEF Phase, Ready, Interrupted, TrueAbort
  <2>3. QED
    BY <2>1, <2>2, StutterRefines
<1>4. CASE Install
  <2>1. /\ pc = "end" /\ pc' = "closing" /\ UNCHANGED <<conf, cmd, client>>
        /\ cmd \in Uploads /\ st.said = "none" /\ st'.said = st.said /\ st'.file = "new"
        /\ TrueAbort(st') <=> TrueAbort(st)
    BY <1>4, InstallStep
  <2>2. /\ Phase = "moving" /\ Phase' = "moving" /\ Ready = TRUE /\ Ready' = TRUE
        /\ Interrupted' = Interrupted
    BY <2>1 DEF Phase, Ready, Interrupted, TrueAbort
  <2>3. QED
    BY <2>1, <2>2, SameKind, KindFields DEF Promised!Install
<1>5. QED
  BY <1>1, <1>2, <1>3, <1>4

\* The end of the data.
LEMMA EndsRefine ==
    ASSUME IInv, EndStore \/ EndRetr \/ EndList \/ EndMlsd
    PROVE  Promised!GiveUp \/ Promised!Fail \/ UNCHANGED Promised!vars
<1>1. pc = "end"
  BY DEF EndStore, EndRetr, EndList, EndMlsd
<1>2. CASE EndStore
  BY <1>1, <1>2, EndStoreStep, GiveUpRefines
<1>3. CASE DownloadEnds
  <2>1. CASE /\ IInv' /\ pc' = "closing" /\ UNCHANGED <<conf, cmd, client>>
             /\ st'.said = st.said /\ st'.file = st.file
             /\ TrueAbort(st') <=> TrueAbort(st)
    <3>1. Phase' = Phase /\ Ready' = Ready /\ Interrupted' = Interrupted
      BY <1>1, <2>1 DEF Phase, Ready, Interrupted, TrueAbort
    <3>2. QED
      BY <2>1, <3>1, StutterRefines
  <2>2. CASE /\ IInv' /\ pc' = "aborting" /\ UNCHANGED <<conf, cmd, client>> /\ FileLeft
             /\ st.said = "none" /\ st.file # "new"
             /\ st'.said \in {"none", "failed"}
             /\ st'.said = "failed" => TrueAbort(st)
             /\ TrueAbort(st') <=> TrueAbort(st)
    BY <1>1, <2>2, GiveUpRefines
  <2>3. CASE /\ GivesUp /\ st.file # "new" /\ client.abor = "read"
             /\ st'.said \in {"none", "failed"} /\ st.said = "none"
    <3>1. Phase = "moving" /\ Interrupted
      BY <1>1, <2>3 DEF Phase, Interrupted
    <3>2. QED
      BY <1>1, <2>3, <3>1, FailRefines
  <2>4. QED
    BY <1>3, <2>1, <2>2, <2>3 DEF DownloadEnds
<1>4. QED
  BY <1>2, <1>3, EndRetrStep, EndListStep, EndMlsdStep

\* A command that fails, and one that succeeds.
LEMMA ReturnsRefine ==
    ASSUME IInv, Refuse \/ RefuseOffset \/ ConnectFails \/ InstallFails \/ Abandoned \/ Closed
    PROVE  Promised!Succeed \/ Promised!Fail
<1>1. CASE Refuse \/ RefuseOffset \/ ConnectFails \/ InstallFails
  <2>1. pc \in {"pre", "opening", "end"} /\ st.file # "new"
    BY <1>1 DEF Refuse, RefuseOffset, ConnectFails, InstallFails, IInv, StoredFiles
  <2>2. GivesUp /\ st'.said = "failed"
    BY <1>1, RefuseStep, RefuseOffsetStep, ConnectFailsStep, InstallFailsStep
  <2>3. QED
    BY <2>1, <2>2, FailRefines
<1>2. CASE Abandoned
  <2>1. pc = "aborting"
    BY <1>2 DEF Abandoned
  <2>2. Phase = "moving" /\ (TrueAbort(st) => Interrupted)
    BY <2>1 DEF Phase, Interrupted
  <2>3. QED
    BY <1>2, <2>1, <2>2, AbandonedStep, FailRefines
<1>3. CASE Closed
  <2>1. pc = "closing"
    BY <1>3 DEF Closed
  <2>2. Phase = "moving" /\ (TrueAbort(st) => Interrupted)
    BY <2>1 DEF Phase, Interrupted
  <2>3. CASE /\ Ended /\ UNCHANGED <<conf, cmd>> /\ st'.file = st.file
             /\ st.said = "none" /\ st'.said = "ok"
             /\ cmd \in Uploads => st.file = "new"
    <3>1. Phase' = "idle" /\ Ready' = TRUE /\ Interrupted' = FALSE
      BY <2>3 DEF Ended, Phase, Ready, Interrupted
    <3>2. QED
      BY <2>2, <2>3, <3>1, SameKind, KindFields DEF Promised!Succeed
  <2>4. CASE /\ GivesUp /\ st.file # "new"
             /\ st.said = "none" /\ st'.said = "none" /\ TrueAbort(st)
    BY <2>1, <2>2, <2>4, FailRefines
  <2>5. QED
    BY <1>3, <2>3, <2>4, ClosedStep
<1>4. QED
  BY <1>1, <1>2, <1>3

\* The end of the session.
LEMMA HangupRefines ==
    ASSUME pc # "closed", pc' = "closed", UNCHANGED <<conf, cmd>>, FileLeft,
           st'.said = st.said, st'.file = st.file \/ st.file # "new"
    PROVE  Promised!Hangup
<1>1. Phase # "closed" /\ Phase' = "closed" /\ Ready' = TRUE /\ Interrupted' = FALSE
  BY DEF Phase, Ready, Interrupted
<1>2. QED
  BY <1>1, SameKind, GivenUpRefines DEF Promised!Hangup

\* What comes at any time.
LEMMA InterruptsRefine ==
    ASSUME IInv,
           (\E oob \in BOOLEAN : SendAbor(oob)) \/ SIGURG \/ SessionEnds \/ stalled_timeout_cb
    PROVE  Promised!Abort \/ Promised!Hangup \/ UNCHANGED Promised!vars
<1>1. CASE SessionEnds \/ stalled_timeout_cb
  BY <1>1, EndsStep, HangupRefines
<1>2. ASSUME NEW oob \in BOOLEAN, SendAbor(oob)
      PROVE  UNCHANGED Promised!vars
  <2>1. UNCHANGED <<conf, pc, cmd, st>> /\ client.abor = "none" /\ client'.abor = "queued"
    BY <1>2 DEF SendAbor
  <2>2. Phase' = Phase /\ Ready' = Ready /\ Interrupted' = Interrupted
    BY <2>1 DEF Phase, Ready, Connected, Expected, Revoked, Passive, Interrupted, TrueAbort
  <2>3. QED
    BY <2>1, <2>2, StutterRefines
<1>3. CASE SIGURG
  <2>1. CASE pc # "closed" /\ pc' = "closed"
    BY <1>3, <2>1, SIGURGStep, HangupRefines
  <2>2. CASE ~(pc # "closed" /\ pc' = "closed")
    <3>1. /\ UNCHANGED <<conf, cmd>> /\ client'.abor = client.abor /\ st'.said = st.said
          /\ pc' = pc /\ st'.file = st.file /\ st'.d = st.d
          /\ Passive(st') <=> Passive(st)
          /\ TrueAbort(st) => TrueAbort(st')
      BY <1>3, <2>2, SIGURGStep
    <3>2. Phase' = Phase
      BY <3>1 DEF Phase
    <3>3. Ready' = Ready
      BY <3>1 DEF Ready, Connected, Expected, Revoked, Passive
    <3>4. Interrupted' \in BOOLEAN /\ Interrupted \in BOOLEAN /\ (Interrupted => Interrupted')
      BY <3>1 DEF Interrupted, TrueAbort
    <3>5. CASE Interrupted' = Interrupted
      BY <3>1, <3>2, <3>3, <3>5, StutterRefines
    <3>6. CASE Interrupted' # Interrupted
      <4>1. Interrupted' = TRUE /\ ~Interrupted
        BY <3>4, <3>6
      <4>2. Phase \in {"asked", "moving"}
        <5>1. pc \notin {"loop", "pre", "closed"}
          BY <3>1, <4>1 DEF Interrupted
        <5>2. QED
          BY <5>1 DEF Phase
      <4>3. FileLeft
        BY <3>1 DEF FileLeft
      <4>4. QED
        BY <3>1, <3>2, <3>3, <4>1, <4>2, <4>3, AbortRefines
    <3>7. QED
      BY <3>5, <3>6
  <2>3. QED
    BY <2>1, <2>2
<1>4. QED
  BY <1>1, <1>2, <1>3

\* Every step is one that module Transfer allows.
LEMMA StepRefines ==
    ASSUME IInv, [Next]_vars
    PROVE  [Promised!Next]_(Promised!vars)
<1> USE DEF Promised!Next
<1>1. CASE Control
  BY <1>1, ControlRefines
<1>2. CASE Works
  BY <1>2, HandleRefines, PollRefines, MovesRefine, EndsRefine, ReturnsRefine DEF Works
<1>3. CASE Connects \/ ConnectFails \/ PollRest \/ Block \/ DataEnds \/ DataBreaks
  BY <1>3, PollRefines, MovesRefine, ReturnsRefine
<1>4. CASE (\E oob \in BOOLEAN : SendAbor(oob)) \/ SIGURG \/ SessionEnds \/ stalled_timeout_cb
  BY <1>4, InterruptsRefine
<1>5. CASE UNCHANGED vars
  <2>1. Phase' = Phase /\ Ready' = Ready /\ Interrupted' = Interrupted
    BY <1>5 DEF vars, Phase, Ready, Connected, Expected, Revoked, Passive, Interrupted,
                TrueAbort
  <2>2. UNCHANGED Promised!vars
    BY <1>5, <2>1, StutterRefines DEF vars
  <2>3. QED
    BY <2>2
<1>6. QED
  BY <1>1, <1>2, <1>3, <1>4, <1>5 DEF Next

\* Promise: data.c and the transfer commands implement module Transfer. A command
\* gets at most one final reply, 226 only for a transfer that was carried out.
THEOREM KeepsPromise == Spec => Promise
<1>1. Init => Promised!Init
  BY InitRefines
<1>2. IInv /\ [Next]_vars => [Promised!Next]_(Promised!vars)
  BY StepRefines
<1>3. QED
  BY <1>1, <1>2, Inductive, PTL DEF Spec, Promise, Promised!Spec
=============================================================================
