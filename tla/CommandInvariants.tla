-------------------------- MODULE CommandInvariants -------------------------
(***************************************************************************)
(* What the proofs about CommandDispatch assume of the handlers, and their *)
(* inductive invariants.  TLC evaluates the assumptions on the tables of   *)
(* the modules.                                                            *)
(***************************************************************************)
EXTENDS CommandDispatch

\* A table is a list of handlers, and what a handler does a list of calls.
IsList(s) == s \in Seq(Range(s))

ASSUME TableAssumption ==
    /\ IsList(Table)
    /\ \A i \in DOMAIN Table : \A b \in Table[i].does :
          IsList(b.calls) /\ b.returns \in {"HANDLED", "DECLINED", "ERROR"}

\* A log handler for all commands needs no login, and leaves the command to the
\* next one: it declines, or fails, which counts as declining.
ASSUME LogAssumption ==
    \A i \in DOMAIN Table : Table[i].cmd = ANY /\ IsLog(Table[i].phase) =>
        /\ ~Table[i].requires_auth
        /\ \A b \in Table[i].does : b.returns # "HANDLED"

\* How far a command is.  Once it has failed it is in the phases for that, and
\* the log handlers for all commands have been called up to the current row.
FrameFields == {"cmd", "client", "saved", "phase", "scope", "row", "todo",
                "returns", "num", "result", "failed", "logged"}
Phases == {"PRE_CMD", "CMD", "POST_CMD", "POST_CMD_ERR", "LOG_CMD", "LOG_CMD_ERR", "END"}

Framed(f) ==
    /\ DOMAIN f = FrameFields /\ IsList(f.todo) /\ f.phase \in Phases
    /\ f.scope \in {"ANY", "OWN"} /\ f.row \in Nat
    /\ f.returns \in {"NONE", "HANDLED", "DECLINED", "ERROR"}
    /\ f.failed \in {"NO", "PRE_CMD", "CMD"}

PhaseOfOutcome(f) ==
    /\ f.phase \in {"PRE_CMD", "CMD", "POST_CMD"} => f.failed = "NO"
    /\ f.phase = "POST_CMD_ERR" => f.failed # "NO"
    /\ IsLog(f.phase) => f.phase = LogPhase(f)

LoggedSoFar(f) ==
    \A i \in DOMAIN Table :
        /\ Table[i].cmd = ANY /\ Table[i].phase = LogPhase(f)
        /\ (IsLog(f.phase) /\ (f.scope = "ANY" => i <= f.row)) \/ f.phase = "END"
        => i \in f.logged

LogGoesOn(f) == IsLog(f.phase) /\ f.scope = "ANY" => f.returns # "HANDLED"

EndsIdle(f) == (f.phase = "END" => ~Running(f)) /\ (~Running(f) => f.todo = <<>>)

GoodFrame(f) ==
    Framed(f) /\ PhaseOfOutcome(f) /\ LoggedSoFar(f) /\ LogGoesOn(f) /\ EndsIdle(f)

Responses(list) ==
    IsList(list) /\ \A i \in DOMAIN list : DOMAIN list[i] = {"num", "by", "pool"}

\* All but the innermost command are in a call that has dispatched a command.
Waits(f) == f.todo # <<>> /\ Head(f.todo).op \in {"sub", "subres", "poll"}
GoodStack(s) ==
    IsList(s) /\ \A i \in DOMAIN s : GoodFrame(s[i]) /\ (i < Len(s) => Waits(s[i]))

IInv ==
    /\ GoodStack(stack)
    /\ Responses(resp_list) /\ Responses(resp_err_list) /\ nread \in Nat

\* Commands dispatched while another is in progress, by poll_ctrl or a handler.
InnerCommands ==
    LET calls == UNION {Range(b.calls) : b \in UNION {Table[i].does : i \in DOMAIN Table}}
    IN  (XferCommands \ (Busy \cup {"NOOP"})) \cup
        {c.arg : c \in {d \in calls : d.op \in {"sub", "subres"}}}

\* Where a handler that will return r may add to the list of the successful
\* responses, and where to that of the errors.
MayAdd(phase, r) == (phase = "CMD" /\ r = "HANDLED") \/ phase \in {"POST_CMD", "LOG_CMD"}
MayAddErr(phase, r) ==
    (phase \in {"PRE_CMD", "CMD"} /\ r = "ERROR") \/ phase \in {"POST_CMD_ERR", "LOG_CMD_ERR"}

OneSided(calls, phase, r) ==
    \A k \in DOMAIN calls :
        /\ calls[k].op = "add" => MayAdd(phase, r)
        /\ calls[k].op = "err" => MayAddErr(phase, r)
        /\ calls[k].op = "subres" => \A j \in DOMAIN calls : calls[j].op # "add"

\* What PoolsLive depends on: the handlers of those commands add responses to
\* the list that will be flushed, given what they return.  Those of STAT and
\* SITE HELP do not.
OneSidedHandlers ==
    \A i \in DOMAIN Table : Table[i].cmd \in InnerCommands \cup {ANY} =>
        \A b \in Table[i].does : OneSided(b.calls, Table[i].phase, b.returns)

\* The pools kept aside are those of commands further out.
SavedLive ==
    \A i \in DOMAIN stack :
        IF i = 1 THEN stack[i].saved = NULL
        ELSE stack[i].saved \in {SESSION} \cup {stack[j].client : j \in 1..(i - 1)}

\* Commands are numbered as they come; one dispatched by a handler has the
\* number of its caller.
Numbered ==
    /\ \A i \in DOMAIN stack : stack[i].client \in 1..nread
    /\ \A i, j \in DOMAIN stack : i <= j => stack[i].client <= stack[j].client

\* The commands read during a transfer, and those their handlers dispatch: the
\* list that will not be flushed is empty.
Inner(f) == f.client # stack[1].client
InnerSided ==
    \A i \in DOMAIN stack : Inner(stack[i]) =>
        /\ stack[i].cmd \in InnerCommands
        /\ OneSided(stack[i].todo, stack[i].phase, stack[i].returns)
        /\ \A k \in DOMAIN stack[i].todo : stack[i].todo[k].op \in {"sub", "subres"}
                                              => stack[i].todo[k].arg \in InnerCommands

MayHaveAdded(f) ==
    f.failed = "NO" /\ f.phase # "PRE_CMD" /\ (f.phase = "CMD" => f.returns = "HANDLED")
MayHaveAddedErr(f) ==
    f.failed # "NO" \/ (f.phase \in {"PRE_CMD", "CMD"} /\ f.returns = "ERROR")
InnerClean ==
    stack # <<>> /\ Inner(top) =>
        /\ resp_list # <<>> => MayHaveAdded(top)
        /\ resp_err_list # <<>> => MayHaveAddedErr(top)

PoolInv == SavedLive /\ Numbered /\ InnerSided /\ InnerClean /\ PoolsLive

\* What RenameEnds depends on: only a handler of RNFR, which needs a login, notes
\* a rename; the log handlers of RNTO decline, and one of each phase removes the
\* note; and no handler dispatches either command.
Cleans(i, phase) ==
    /\ Table[i].cmd = "RNTO" /\ Table[i].phase = phase
    /\ \A b \in Table[i].does :
          \E k \in DOMAIN b.calls : b.calls[k].op = "rnfr" /\ b.calls[k].arg = FALSE

ASSUME RenameAssumption ==
    /\ ANY \notin {"RNFR", "RNTO"}
    /\ \A i \in DOMAIN Table : \A b \in Table[i].does :
          /\ Table[i].cmd = "RNTO" /\ IsLog(Table[i].phase) => b.returns # "HANDLED"
          /\ \A k \in DOMAIN b.calls :
                /\ b.calls[k].op = "rnfr" =>
                      /\ b.calls[k].arg \in BOOLEAN
                      /\ b.calls[k].arg = TRUE =>
                            Table[i].cmd = "RNFR" /\ Table[i].requires_auth
                /\ b.calls[k].op \in {"sub", "subres"} =>
                      b.calls[k].arg \notin {"RNFR", "RNTO"}
    /\ \A phase \in {"LOG_CMD", "LOG_CMD_ERR"} : \E i \in DOMAIN Table : Cleans(i, phase)

\* The calls that a handler has still to make.
Notes(f) ==
    \A k \in DOMAIN f.todo :
        /\ f.todo[k].op = "rnfr" =>
              /\ f.todo[k].arg \in BOOLEAN
              /\ f.todo[k].arg = TRUE => f.cmd = "RNFR" /\ authenticated
        /\ f.todo[k].op \in {"sub", "subres"} => f.todo[k].arg \notin {"RNFR", "RNTO"}

\* An RNTO with the note set has still to get to the handler that removes it.
WillClean(f) ==
    /\ f.phase # "END"
    /\ IsLog(f.phase) /\ f.scope = "OWN" =>
          \/ \E k \in DOMAIN f.todo : f.todo[k].op = "rnfr" /\ f.todo[k].arg = FALSE
          \/ \E i \in DOMAIN Table : i > f.row /\ Cleans(i, f.phase)

RenameInv ==
    /\ authenticated \in BOOLEAN /\ rnfr \in BOOLEAN /\ (rnfr => authenticated)
    /\ \A i \in DOMAIN stack :
          Notes(stack[i]) /\ (i # 1 => stack[i].cmd \notin {"RNFR", "RNTO"})
    /\ stack # <<>> /\ stack[1].cmd = "RNTO" =>
          /\ rnfr => WillClean(stack[1])
          /\ IsLog(stack[1].phase) => stack[1].returns # "HANDLED"
    /\ \A d \in done : d.cmd = "RNTO" /\ d.log # "NO" => stack = <<>> /\ ~rnfr
-----------------------------------------------------------------------------
(***************************************************************************)
(* Answers.  What a handler does decides the command when it fails in      *)
(* PRE_CMD or CMD, or takes the command in CMD.  It then answers in one of *)
(* four ways: with responses of one code in the list of the outcome, with  *)
(* the message of PR_ERROR_MSG, with a line that it sends itself, or by    *)
(* dispatching a command in its place.  A handler of a command in          *)
(* Unanswered may also fail in CMD without saying anything.                *)
(***************************************************************************)

\* The call that adds to the list of the outcome, once it is decided.
Decides(phase, r) ==
    IF phase \in {"PRE_CMD", "CMD"} /\ r = "ERROR" THEN "err"
    ELSE IF phase = "CMD" /\ r = "HANDLED" THEN "add" ELSE "no"
Decided(f) ==
    IF f.failed # "NO" THEN "err"
    ELSE IF f.phase \in {"PRE_CMD", "CMD"} THEN Decides(f.phase, f.returns) ELSE "add"
Codes(o) == IF o = "add" THEN 200..399 ELSE 400..599

\* Calls that say something of the answer; those that give all of it; and those
\* that may not come any more once something has been said, because they drop
\* the lists or make another line the last.
Dispatches(c) == c.op \in {"sub", "subres"}
Concludes(c) == Dispatches(c) \/ (c.op = "send" /\ c.arg >= 200)
Speaks(c) == c.op \in {"add", "err"} \/ Concludes(c)
Interrupts(c) == c.op \in {"send", "poll"} \/ Dispatches(c)

Orderly(calls) ==
    /\ \A k \in DOMAIN calls : calls[k].op \in {"add", "err", "send"} => calls[k].arg \in Nat
    /\ \A j, k \in DOMAIN calls : j < k /\ Speaks(calls[j]) => ~Interrupts(calls[k])

\* The codes of the responses that a command's other handlers put around those
\* of its CMD handler, as those of SITE HELP do.
Heads(cmd) ==
    LET rows == {i \in DOMAIN Table : Table[i].cmd = cmd /\ Table[i].phase # "CMD"}
        calls == UNION {Range(b.calls) : b \in UNION {Table[i].does : i \in rows}}
    IN  {c.arg : c \in {d \in calls : d.op = "add"}}

Quiet(cmd, phase, calls) ==
    \A c \in calls :
        /\ ~Interrupts(c) /\ c.op # "err"
        /\ c.op = "add" => c.arg \in Heads(cmd) /\ phase \in {"PRE_CMD", "CMD", "POST_CMD"}

\* What a handler of cmd that will return r may do in a phase.
MaySay(cmd, phase, r, calls, num) ==
    /\ Orderly(calls)
    /\ Decides(phase, r) = "no" => num = R_DUP /\ Quiet(cmd, phase, Range(calls))
    /\ Decides(phase, r) = "add" => num = R_DUP /\ \A c \in Range(calls) : c.op # "err"
    /\ Decides(phase, r) = "err" /\ (cmd \notin Misreported \/ cmd \in InnerCommands) =>
          \A c \in Range(calls) : c.op # "add"
    /\ cmd \notin Misreported => \A c \in Range(calls) : ~Dispatches(c)
    /\ Heads(cmd) # {} => \A c \in Range(calls) : ~Interrupts(c)

\* Responses of one code; a numeric one has been filled in for those before it.
OneCode(list, c) ==
    \A i \in DOMAIN list : list[i].num \in {R_DUP, c} /\ (list[i].num = c => list[1].num = c)
StartsWith(list, c) == list # <<>> /\ list[1].num = c

Gathers(list, calls, o, c) == StartsWith(list, c) \/ \E q \in calls : q.op = o /\ q.arg = c
GathersNone(list, calls, o) == list = <<>> /\ \A q \in calls : q.op # o
ConcludesNot(calls) == \A q \in calls : ~Concludes(q)

\* Exactly one of the four ways; ls are the lines sent so far.
OneAnswer(list, calls, o, num, ls, id, c) ==
    \/ /\ Gathers(list, calls, o, c) /\ num = R_DUP
       /\ ConcludesNot(calls) /\ FinalLines(ls, id) = {}
    \/ /\ GathersNone(list, calls, o) /\ num = c
       /\ ConcludesNot(calls) /\ FinalLines(ls, id) = {}
    \/ /\ GathersNone(list, calls, o) /\ num = R_DUP /\ FinalLines(ls, id) = {}
       /\ \E q \in calls : Concludes(q) /\ (q.op = "send" => q.arg = c)
    \/ /\ GathersNone(list, calls, o) /\ num = R_DUP
       /\ ConcludesNot(calls) /\ \E i \in DOMAIN ls : FinalLines(ls, id) = {i}

\* The last code is that of the answer, as far as it has been given.
Told(cmd, list, ls, id, last, c) ==
    cmd \notin Misreported =>
        /\ StartsWith(list, c) => last = c
        /\ \A i \in FinalLines(ls, id) : ls[i].as = c /\ last = c

Answering(cmd, list, calls, o, num, ls, id, last, c) ==
    /\ OneCode(list, c) /\ \A q \in calls : q.op = o => q.arg \in {R_DUP, c}
    /\ OneAnswer(list, calls, o, num, ls, id, c)
    /\ Told(cmd, list, ls, id, last, c)

\* Responses put around those of the CMD handler have the same code.
Headed(cmd, list, calls, c) == \A h \in Heads(cmd) : c = h /\ Gathers(list, calls, "add", c)

\* A command fails, and nothing has been or will be said of it.
Unspoken(cmd, ls, id, last) == cmd \in Unanswered => NoLines(ls, id) /\ last = NULL
Silent(cmd, list, calls, num, ls, id, last) ==
    /\ cmd \in Unanswered /\ list = <<>> /\ num = R_DUP
    /\ \A q \in calls : ~Speaks(q) /\ ~Interrupts(q)
    /\ NoLines(ls, id) /\ last = NULL

\* Commands that may come from a client who is not authenticated.
EarlyReach ==
    LET calls == UNION {Range(b.calls) : b \in UNION {Table[i].does : i \in DOMAIN Table}}
    IN  EarlyCommands \cup {c.arg : c \in {d \in calls : Dispatches(d)}}

AnswersOnce(cmd, phase, b) ==
    /\ MaySay(cmd, phase, b.returns, b.calls, b.num)
    /\ LET o == Decides(phase, b.returns)
       IN  \/ o = "no"
           \/ \E c \in Codes(o) :
                 /\ Answering(cmd, <<>>, Range(b.calls), o, b.num, <<>>, 0, NULL, c)
                 /\ o = "add" => Headed(cmd, <<>>, Range(b.calls), c)
           \/ /\ o = "err" /\ phase = "CMD"
              /\ Silent(cmd, <<>>, Range(b.calls), b.num, <<>>, 0, NULL)

\* What the answers depend on.  The handlers for all commands only refuse; data
\* moves only for a client who has logged in; a handler that cleans up or logs
\* needs no login, if its command can come before one; and the commands that are
\* dispatched while another is in progress have no responses put around them and
\* are all answered.
ASSUME AnswerAssumption ==
    /\ NULL \notin Nat /\ ANY \notin Misreported
    /\ \A c \in Unanswered : c \notin InnerCommands \cup {ANY} /\ Heads(c) = {}
    /\ \A i \in DOMAIN Table :
          /\ Table[i].cmd \in EarlyReach \cup {ANY} /\ Table[i].phase \notin {"PRE_CMD", "CMD"}
                => ~Table[i].requires_auth
          /\ \A h, k \in Heads(Table[i].cmd) : h = k
          /\ Heads(Table[i].cmd) \subseteq Codes("add")
          /\ Table[i].cmd \in InnerCommands \cup {ANY} => Heads(Table[i].cmd) = {}
          /\ \A b \in Table[i].does :
                /\ \/ b.when = "not authd" /\ Table[i].cmd \notin EarlyReach \cup {ANY}
                   \/ AnswersOnce(Table[i].cmd, Table[i].phase, b)
                /\ \A c \in Range(b.calls) :
                      /\ c.op = "poll" => Table[i].requires_auth
                      /\ Table[i].cmd = ANY => ~Interrupts(c)
                /\ Table[i].cmd = ANY => Decides(Table[i].phase, b.returns) # "add"

\* What a command in progress owes its client, given the two lists, the lines
\* sent and the last code.
Undecided(cmd, list, ls, id, last) ==
    /\ FinalLines(ls, id) = {} /\ (Heads(cmd) = {} => list = <<>>)
    /\ Unspoken(cmd, ls, id, last)
    /\ \A h \in Heads(cmd) : OneCode(list, h) /\ Told(cmd, list, ls, id, last, h)

Owes(f, ok, err, ls, last) ==
    /\ MaySay(f.cmd, f.phase, f.returns, f.todo, f.num)
    /\ ok # <<>> \/ err # <<>> \/ FinalLines(ls, f.client) # {} =>
          \A c \in Range(f.todo) : ~Interrupts(c)
    /\ Decided(f) = "no" => Undecided(f.cmd, ok, ls, f.client, last)
    /\ Decided(f) = "add" => \E c \in Codes("add") :
          /\ Answering(f.cmd, ok, Range(f.todo), "add", f.num, ls, f.client, last, c)
          /\ Headed(f.cmd, ok, Range(f.todo), c)
    /\ Decided(f) = "err" =>
          \/ \E c \in Codes("err") :
                Answering(f.cmd, err, Range(f.todo), "err", f.num, ls, f.client, last, c)
          \/ Silent(f.cmd, err, Range(f.todo), f.num, ls, f.client, last)
    /\ Decided(f) # "err" => err = <<>>
    /\ Decided(f) = "err" /\ f.cmd \in InnerCommands => ok = <<>>

\* A command that waits for another has said nothing, and has sent no final
\* line during a transfer.
Nested ==
    \A i, j \in DOMAIN stack : i < j =>
        /\ Owes(stack[i], <<>>, <<>>, <<>>, NULL)
        /\ stack[i].client <= stack[j].client
        /\ Head(stack[i].todo).op = "poll" =>
              stack[i].client < stack[j].client /\ FinalLines(sent, stack[i].client) = {}
        /\ Head(stack[i].todo).op # "poll" /\ j = i + 1 => stack[j].client = stack[i].client

Placed(f) ==
    /\ f.client \in 1..nread /\ (f.cmd \in EarlyReach \/ authenticated)
    /\ \A c \in Range(f.todo) :
          /\ c.op = "poll" => authenticated
          /\ Dispatches(c) => c.arg \in InnerCommands /\ c.arg \in EarlyReach

LinesSent ==
    /\ IsList(sent) /\ OwnLines
    /\ \A i \in DOMAIN sent : sent[i].to \in 1..nread /\ sent[i].as \in Nat

Over ==
    \A d \in done :
        d.id \in 1..nread /\ \A i \in DOMAIN stack : stack[i].client # d.id

AnswerInv ==
    /\ authenticated \in BOOLEAN /\ Nested /\ LinesSent /\ Over /\ OneReply
    /\ \A i \in DOMAIN stack :
          Placed(stack[i]) /\ (i # 1 => stack[i].cmd \in InnerCommands /\ stack[i].saved # NULL)
    /\ stack # <<>> =>
          /\ resp_pool # NULL /\ Owes(top, resp_list, resp_err_list, sent, last_code)
          /\ \A r \in Range(resp_list) \cup Range(resp_err_list) : r.by = top.client
-----------------------------------------------------------------------------
(* What the type invariant needs to be inductive: the codes in the calls   *)
(* that a handler has still to make.                                       *)

ReplyCode == 100..599
Coded(calls) ==
    \A c \in Range(calls) :
        /\ c.op \in {"add", "err"} => c.arg \in {R_DUP} \cup ReplyCode
        /\ c.op = "send" => c.arg \in ReplyCode

ASSUME CodeAssumption ==
    \A i \in DOMAIN Table : \A b \in Table[i].does :
        b.num \in {R_DUP} \cup ReplyCode /\ Coded(b.calls)

Typed(f) == FrameType(f) /\ f.num \in {R_DUP} \cup ReplyCode /\ Coded(f.todo)

Allocated(list) ==
    \A i \in DOMAIN list :
        list[i].by \in 1..MaxCommands /\ list[i].pool \in {SESSION} \cup 1..MaxCommands

TypeInv ==
    /\ nread \in 0..MaxCommands /\ logged_in \in BOOLEAN
    /\ \A i \in DOMAIN stack : Typed(stack[i])
    /\ Allocated(resp_list) /\ Allocated(resp_err_list)
    /\ resp_pool \in {NULL, SESSION} \cup 1..MaxCommands
    /\ last_code \in {NULL} \cup ReplyCode
=============================================================================
