--------------------------- MODULE CommandDispatch --------------------------
(***************************************************************************)
(* How a session process answers FTP commands: the loop that reads them    *)
(* (cmd_loop), the phases in which a command is dispatched to handlers     *)
(* (pr_cmd_dispatch_phase and _dispatch of src/main.c), the two lists in   *)
(* which handlers gather responses (src/response.c), and the commands that *)
(* are read and dispatched while the handler of another one is moving data *)
(* (poll_ctrl of src/data.c).                                              *)
(*                                                                         *)
(* One process runs all of it.  What makes it hard is re-entry: a command  *)
(* that arrives during a transfer, or that a handler dispatches itself, is *)
(* handled on top of the one in progress, with the same two lists and the  *)
(* same response pool.  The commands in progress form a stack.             *)
(***************************************************************************)
EXTENDS CommandTable, Integers, FiniteSets, SequencesExt

CONSTANTS
    Table,         \* the registered handlers, in the order they are tried
    Commands,      \* the commands a client sends once authenticated,
    EarlyCommands, \* before that,
    XferCommands,  \* and during a transfer
    MaxCommands,   \* bound: commands read in a session
    NULL           \* no pool, no code

ASSUME BoundAssumption == MaxCommands \in Nat

VARIABLES
    authenticated, \* the record of the name
    logged_in,     \* of mod_auth
    rnfr,          \* the session note mod_core.rnfr-path is set
    nread,         \* commands read so far: the next one is nread + 1
    stack,         \* commands being dispatched, innermost last
    resp_list, resp_err_list,
    resp_pool,     \* the pool that new responses are allocated from
    last_code,     \* resp_last_response_code
    sent,          \* lines written to the client since cmd_loop read a command
    done           \* commands whose dispatch is over, since then

lists == <<resp_list, resp_err_list, resp_pool, last_code>>
flags == <<authenticated, logged_in, rnfr>>
vars == <<flags, nread, stack, lists, sent, done>>

\* Pools: a command's own pool is its number; that of a command dispatched by
\* a handler is a part of it.  (That of OPTS X goes with the temporary pool of
\* OPTS, when core_opts returns; here it lasts until OPTS is over.)
SESSION == 0
Live == {SESSION} \cup {stack[i].client : i \in DOMAIN stack}

top == stack[Len(stack)]
SetTop(f) == [stack EXCEPT ![Len(stack)] = f]
Running(f) == f.returns # "NONE"

-----------------------------------------------------------------------------
(* response.c *)

\* A response: its code, the command whose handler added it, and its pool.
Response(num) == [num |-> num, by |-> top.client, pool |-> resp_pool]

\* The first numeric code is filled in for the R_DUP entries before it, and the
\* new response goes before the first one of a higher code.
Insert(list, r) ==
    LET filled == [i \in DOMAIN list |->
                      IF r.num # R_DUP /\ list[i].num = R_DUP
                      THEN [list[i] EXCEPT !.num = r.num] ELSE list[i]]
        higher == SelectInSeq(filled, LAMBDA q : q.num > r.num)
    IN  IF r.num = R_DUP \/ higher = 0 THEN Append(filled, r)
        ELSE InsertAt(filled, higher, r)

pr_response_add(num) ==
    /\ resp_list' = IF resp_pool = NULL THEN resp_list
                    ELSE Insert(resp_list, Response(num))
    /\ last_code' = IF num = R_DUP \/ resp_pool = NULL THEN last_code ELSE num
    /\ UNCHANGED <<resp_err_list, resp_pool, sent>>

pr_response_add_err(num) ==
    /\ resp_err_list' = IF resp_pool = NULL THEN resp_err_list
                        ELSE Insert(resp_err_list, Response(num))
    /\ last_code' = IF num = R_DUP \/ resp_pool = NULL THEN last_code ELSE num
    /\ UNCHANGED <<resp_list, resp_pool, sent>>

\* A line: the code it carries or continues, whether it ends a reply, the
\* command it answers, and the code and command of the response it is made of.
Line(as, ends, to, r) == [as |-> as, ends |-> ends, to |-> to,
                          num |-> r.num, by |-> r.by]

\* (Mutant: a response sent at once is not remembered)
SendForgets(num, to) ==
    /\ sent' = Append(sent, Line(num, TRUE, to, [num |-> num, by |-> to]))
    /\ UNCHANGED lists

\* With no pool set, the code cannot be copied and is forgotten.
pr_response_send(num, to) ==
    /\ sent' = Append(sent, Line(num, TRUE, to, [num |-> num, by |-> to]))
    /\ last_code' = IF resp_pool = NULL THEN NULL ELSE num
    /\ UNCHANGED <<resp_list, resp_err_list, resp_pool>>

\* One turn of the loop of pr_response_flush, for response i: ml is set inside a
\* multiline reply.
WriteResponse(list, to, s, i) ==
    LET HasNext == i < Len(list)
        ends == ~HasNext \/ list[i].num \notin {R_DUP, s.last_numeric}
        starts == HasNext /\ list[i + 1].num \in {R_DUP, list[i].num}
    IN  IF s.ml
        THEN [ml |-> ~ends, last_numeric |-> s.last_numeric,
              out |-> Append(s.out, Line(s.last_numeric, ends, to, list[i]))]
        ELSE [ml |-> starts, last_numeric |-> list[i].num,
              out |-> Append(s.out, Line(list[i].num, ~starts, to, list[i]))]

NothingWritten == [ml |-> FALSE, last_numeric |-> R_DUP, out |-> <<>>]

\* What it has written after each response, and in all.
Written(list, to) ==
    LET after[i \in 0..Len(list)] ==
            IF i = 0 THEN NothingWritten ELSE WriteResponse(list, to, after[i - 1], i)
    IN  after

Flush(list, to) == Written(list, to)[Len(list)].out

\* pr_response_clear also forgets the last response; flushing an empty list
\* does neither.
FlushedLast(list) == IF list = <<>> THEN last_code ELSE NULL

-----------------------------------------------------------------------------
(* _dispatch: one call goes through the handlers of one phase, either      *)
(* those registered for C_ANY or those for the command itself.             *)

IsLog(phase) == phase \in {"LOG_CMD", "LOG_CMD_ERR"}
\* (Mutant: the message of a failed CMD handler is dropped)
SendsPreError(phase) == phase \in {"PRE_CMD", "POST_CMD_ERR"}

SendsError(phase) == phase \in {"PRE_CMD", "CMD", "POST_CMD_ERR"}

Match(f) == IF f.scope = "ANY" THEN ANY ELSE f.cmd

\* The next handler to call, 0 if there is none.
NextRow(f) ==
    LET rest == {i \in DOMAIN Table : /\ i > f.row
                                      /\ Table[i].cmd = Match(f)
                                      /\ Table[i].phase = f.phase}
    IN  IF rest = {} THEN 0 ELSE CHOOSE i \in rest : \A j \in rest : i <= j

At(f, phase, scope) == [f EXCEPT !.phase = phase, !.scope = scope, !.row = 0,
                                 !.returns = "NONE", !.todo = <<>>, !.num = R_DUP]

\* (Mutant: the command's own handlers are left out of LOG_CMD_ERR)
AdvanceSkipsLog(g, res) ==
    CASE g.phase = "PRE_CMD" ->
           IF res < 0 THEN At([g EXCEPT !.failed = "PRE_CMD"], "POST_CMD_ERR", "ANY")
           ELSE IF g.scope = "ANY" /\ res = 0 THEN At(g, "PRE_CMD", "OWN")
           ELSE At(g, "CMD", "ANY")
      [] g.phase = "CMD" ->
           IF res < 0 THEN At([g EXCEPT !.failed = "CMD"], "POST_CMD_ERR", "ANY")
           ELSE IF res = 0 THEN At(g, "CMD", "OWN") ELSE At(g, "POST_CMD", "ANY")
      [] g.phase = "POST_CMD" -> At(g, "LOG_CMD", "ANY")
      [] g.phase = "POST_CMD_ERR" -> At(g, "LOG_CMD_ERR", "ANY")
      [] g.phase = "LOG_CMD" ->
           At(g, IF g.scope = "ANY" THEN "LOG_CMD" ELSE "END", "OWN")
      [] g.phase = "LOG_CMD_ERR" -> At(g, "END", "OWN")

\* What pr_cmd_dispatch_phase does when a call of _dispatch has returned res.
\* The command's result is that of the last call outside the log phases; once
\* PRE_CMD has failed the results are not looked at any more.
Advance(g, res) ==
    LET f == IF IsLog(g.phase) \/ g.failed = "PRE_CMD" THEN g
             ELSE [g EXCEPT !.result = res]
        Failed(phase) == At([f EXCEPT !.failed = phase], "POST_CMD_ERR", "ANY")
    IN  CASE f.phase = "PRE_CMD" ->
               IF res < 0 THEN Failed("PRE_CMD")
               ELSE IF res = 0 /\ f.scope = "ANY" THEN At(f, "PRE_CMD", "OWN")
               ELSE At(f, "CMD", "ANY")
          [] f.phase = "CMD" ->
               IF res < 0 THEN Failed("CMD")
               ELSE IF res = 0 THEN At(f, "CMD", "OWN")
               ELSE At(f, "POST_CMD", "ANY")
          [] f.phase = "POST_CMD" ->
               IF res = 0 /\ f.scope = "ANY" THEN At(f, "POST_CMD", "OWN")
               ELSE At(f, "LOG_CMD", "ANY")
          [] f.phase = "POST_CMD_ERR" ->
               IF f.scope = "ANY" /\ (res = 0 \/ f.failed = "PRE_CMD")
               THEN At(f, "POST_CMD_ERR", "OWN")
               ELSE At(f, "LOG_CMD_ERR", "ANY")
          [] IsLog(f.phase) ->
               At(f, IF f.scope = "ANY" THEN f.phase ELSE "END", "OWN")

NewFrame(c, client, saved) ==
    [cmd |-> c, client |-> client, saved |-> saved,
     phase |-> "PRE_CMD", scope |-> "ANY", row |-> 0,
     todo |-> <<>>, returns |-> "NONE", num |-> R_DUP,
     result |-> 0, failed |-> "NO", logged |-> {}]

\* (Mutants: the lists are not cleared; the pool is looked up after the new one
\* has been set)
BeginKeepsLists(c, client, below) ==
    /\ stack' = Append(below, NewFrame(c, client, resp_pool))
    /\ last_code' = NULL
    /\ resp_pool' = client
    /\ UNCHANGED <<resp_list, resp_err_list>>

BeginForgetsPool(c, client, below) ==
    /\ stack' = Append(below, NewFrame(c, client, client))
    /\ resp_list' = <<>> /\ resp_err_list' = <<>>
    /\ last_code' = NULL
    /\ resp_pool' = client

\* Entry of pr_cmd_dispatch: both lists are cleared, the pool in use is kept
\* aside and the command's own is used.
Begin(c, client, below) ==
    /\ stack' = Append(below, NewFrame(c, client, resp_pool))
    /\ resp_list' = <<>> /\ resp_err_list' = <<>>
    /\ last_code' = NULL
    /\ resp_pool' = client

\* A handler that needs a login refuses the command itself, in every phase.
AuthCheckFails ==
    /\ stack # <<>> /\ top.phase # "END" /\ ~Running(top)
    /\ NextRow(top) # 0 /\ Table[NextRow(top)].requires_auth /\ ~authenticated
    /\ pr_response_send(530, top.client)
    /\ stack' = SetTop(Advance(top, -1))
    /\ UNCHANGED <<flags, nread, done>>

Applies(b) ==
    LET exempt == {"RNTO", "NOOP", "STAT"}
    IN  CASE b.when = "always"        -> TRUE
          [] b.when = "authd"         -> authenticated
          [] b.when = "not authd"     -> ~authenticated
          [] b.when = "logged in"     -> logged_in
          [] b.when = "not logged in" -> ~logged_in
          [] b.when = "renaming"      -> rnfr
          [] b.when = "pending"       -> rnfr /\ top.cmd \notin exempt
          [] b.when = "not pending"   -> ~rnfr \/ top.cmd \in exempt

CallHandler ==
    /\ stack # <<>> /\ top.phase # "END" /\ ~Running(top)
    /\ NextRow(top) # 0
    /\ Table[NextRow(top)].requires_auth => authenticated
    /\ \E b \in Table[NextRow(top)].does :
          /\ Applies(b)
          /\ stack' = SetTop([top EXCEPT
                !.row = NextRow(top), !.todo = b.calls,
                !.returns = b.returns, !.num = b.num,
                !.logged = IF IsLog(top.phase) THEN @ \cup {NextRow(top)} ELSE @])
    /\ UNCHANGED <<flags, nread, lists, sent, done>>

\* No handler is left.  A command that no CMD handler took is not understood.
NoHandlerLeft ==
    /\ stack # <<>> /\ top.phase # "END" /\ ~Running(top)
    /\ NextRow(top) = 0
    /\ LET unknown == top.phase = "CMD" /\ top.scope = "OWN"
       IN  /\ IF unknown THEN pr_response_add_err(500)
              ELSE UNCHANGED <<lists, sent>>
           /\ stack' = SetTop(Advance(top, IF unknown THEN -1 ELSE 0))
    /\ UNCHANGED <<flags, nread, done>>

\* The handler returns.  An error in a log phase counts as "keep looking"; in
\* the phases that report errors a message of the return value is added.
\* (Mutant: an error of a log handler ends the phase)
ResultOfLogToo(f) ==
    CASE f.returns = "HANDLED"  -> 1
      [] f.returns = "DECLINED" -> 0
      [] f.returns = "ERROR"    -> -1

Result(f) ==
    CASE f.returns = "HANDLED"  -> 1
      [] f.returns = "DECLINED" -> 0
      [] f.returns = "ERROR"    -> IF IsLog(f.phase) THEN 0 ELSE -1

\* (Mutant: the search for the next handler starts over)
HandlerReturnsToFirst ==
    /\ stack # <<>> /\ Running(top) /\ top.todo = <<>>
    /\ stack' = SetTop(IF Result(top) = 0 THEN At(top, top.phase, top.scope)
                       ELSE Advance(top, Result(top)))
    /\ UNCHANGED <<flags, nread, lists, sent, done>>

HandlerReturns ==
    /\ stack # <<>> /\ Running(top) /\ top.todo = <<>>
    /\ IF top.returns = "ERROR" /\ top.num # R_DUP /\ SendsError(top.phase)
       THEN pr_response_add_err(top.num)
       ELSE UNCHANGED <<lists, sent>>
    /\ stack' = SetTop(IF Result(top) = 0
                       THEN [top EXCEPT !.returns = "NONE", !.num = R_DUP]
                       ELSE Advance(top, Result(top)))
    /\ UNCHANGED <<flags, nread, done>>

-----------------------------------------------------------------------------
(* The calls a handler makes *)

Calls(op) == stack # <<>> /\ Running(top) /\ top.todo # <<>> /\ Head(top.todo).op = op
Arg == Head(top.todo).arg
CallMade == [top EXCEPT !.todo = Tail(@)]

HandlerAdds ==
    /\ Calls("add") /\ pr_response_add(Arg)
    /\ stack' = SetTop(CallMade)
    /\ UNCHANGED <<flags, nread, done>>

HandlerAddsErr ==
    /\ Calls("err") /\ pr_response_add_err(Arg)
    /\ stack' = SetTop(CallMade)
    /\ UNCHANGED <<flags, nread, done>>

HandlerSends ==
    /\ Calls("send") /\ pr_response_send(Arg, top.client)
    /\ stack' = SetTop(CallMade)
    /\ UNCHANGED <<flags, nread, done>>

\* pr_data_abort takes the response pool away from the command.
pr_data_abort ==
    /\ Calls("pool")
    /\ resp_pool' = SESSION
    /\ stack' = SetTop(CallMade)
    /\ UNCHANGED <<flags, nread, resp_list, resp_err_list, last_code, sent, done>>

SetsFlag ==
    /\ \/ Calls("authd") /\ authenticated' = TRUE /\ UNCHANGED <<logged_in, rnfr>>
       \/ Calls("login") /\ logged_in' = TRUE /\ UNCHANGED <<authenticated, rnfr>>
       \/ Calls("rnfr") /\ rnfr' = Arg /\ UNCHANGED <<authenticated, logged_in>>
    /\ stack' = SetTop(CallMade)
    /\ UNCHANGED <<nread, lists, sent, done>>

\* A handler dispatches a command itself, on behalf of its own.
DispatchSub ==
    /\ Calls("sub") \/ Calls("subres")
    /\ Begin(Arg, top.client, stack)
    /\ UNCHANGED <<flags, nread, sent, done>>

-----------------------------------------------------------------------------
(* poll_ctrl, called while the handler moves data: a command on the        *)
(* control connection is refused, answered or dispatched.                  *)

Busy == {"RETR", "RNFR", "RNTO"}

CanPoll == Calls("poll") /\ nread < MaxCommands

\* Both lists are dropped; the reply is allocated in the new command's pool,
\* which is destroyed, and the pool in use before is put back.
PollAnswers(c, num) ==
    /\ LET r == [num |-> num, by |-> nread + 1]
       IN  sent' = Append(sent, Line(num, TRUE, nread + 1, r))
    /\ nread' = nread + 1
    /\ done' = done \cup {[id |-> nread + 1, cmd |-> c, log |-> "NO"]}
    /\ resp_list' = <<>> /\ resp_err_list' = <<>>
    /\ last_code' = NULL
    /\ UNCHANGED <<flags, stack, resp_pool>>

PollBusy(c) == CanPoll /\ c \in Busy /\ PollAnswers(c, 450)
PollNoop(c) == CanPoll /\ c = "NOOP" /\ PollAnswers(c, 200)

PollInvalid ==
    /\ CanPoll
    /\ pr_response_send(500, nread + 1)
    /\ nread' = nread + 1
    /\ done' = done \cup {[id |-> nread + 1, cmd |-> "INVALID", log |-> "NO"]}
    /\ UNCHANGED <<flags, stack>>

PollDispatch(c) ==
    /\ CanPoll /\ c \notin Busy \cup {"NOOP"}
    /\ nread' = nread + 1
    /\ Begin(c, nread + 1, stack)
    /\ UNCHANGED <<flags, sent, done>>

TransferEnds ==
    /\ Calls("poll")
    /\ stack' = SetTop(CallMade)
    /\ UNCHANGED <<flags, nread, lists, sent, done>>

-----------------------------------------------------------------------------
(* The end of pr_cmd_dispatch: the list of the outcome is flushed, the     *)
(* pool of before is put back, and the caller goes on.                     *)

Outcome(f) == IF f.failed = "NO" THEN resp_list ELSE resp_err_list
LogPhase(f) == IF f.failed = "NO" THEN "LOG_CMD" ELSE "LOG_CMD_ERR"

\* core_opts returns the result of the command it has dispatched.
CallerResumes(f, g) ==
    LET called == Head(g.todo)
    IN  IF g.client # f.client THEN g           \* poll_ctrl: still polling
        ELSE [g EXCEPT !.todo = Tail(@),
                       !.returns = IF called.op = "subres" /\ f.result < 0
                                   THEN "ERROR" ELSE @]

EndDispatch ==
    /\ stack # <<>> /\ top.phase = "END"
    /\ sent' = sent \o Flush(Outcome(top), top.client)
    /\ last_code' = IF top.saved = NULL THEN NULL ELSE FlushedLast(Outcome(top))
    /\ IF top.failed = "NO" THEN resp_list' = <<>> /\ UNCHANGED resp_err_list
       ELSE resp_err_list' = <<>> /\ UNCHANGED resp_list
    /\ resp_pool' = top.saved
    /\ LET below == SubSeq(stack, 1, Len(stack) - 1)
           n == Len(below)
       IN  /\ stack' = IF n = 0 THEN below
                       ELSE [below EXCEPT ![n] = CallerResumes(top, @)]
           /\ done' = IF n > 0 /\ below[n].client = top.client THEN done
                      ELSE done \cup {[id |-> top.client, cmd |-> top.cmd,
                                       log |-> LogPhase(top)]}
    /\ UNCHANGED <<flags, nread>>

-----------------------------------------------------------------------------
(* cmd_loop *)

ReadCommand(c) ==
    /\ stack = <<>> /\ nread < MaxCommands
    /\ c \in IF authenticated THEN Commands ELSE EarlyCommands
    /\ nread' = nread + 1
    /\ sent' = <<>> /\ done' = {}
    /\ Begin(c, nread + 1, <<>>)
    /\ UNCHANGED flags

\* A line that is not a command.
InvalidCommand ==
    /\ stack = <<>> /\ nread < MaxCommands
    /\ nread' = nread + 1
    /\ sent' = <<Line(500, TRUE, nread + 1, [num |-> 500, by |-> nread + 1])>>
    /\ last_code' = NULL
    /\ done' = {[id |-> nread + 1, cmd |-> "INVALID", log |-> "NO"]}
    /\ UNCHANGED <<flags, stack, resp_list, resp_err_list, resp_pool>>

Init ==
    /\ authenticated = FALSE /\ logged_in = FALSE /\ rnfr = FALSE
    /\ nread = 0 /\ stack = <<>>
    /\ resp_list = <<>> /\ resp_err_list = <<>>
    /\ resp_pool = NULL /\ last_code = NULL
    /\ sent = <<>> /\ done = {}

Next ==
    \/ \E c \in Commands \cup EarlyCommands : ReadCommand(c)
    \/ InvalidCommand
    \/ AuthCheckFails \/ CallHandler \/ NoHandlerLeft \/ HandlerReturns
    \/ HandlerAdds \/ HandlerAddsErr \/ HandlerSends \/ pr_data_abort
    \/ SetsFlag \/ DispatchSub
    \/ \E c \in XferCommands : PollBusy(c) \/ PollNoop(c) \/ PollDispatch(c)
    \/ PollInvalid \/ TransferEnds
    \/ EndDispatch

\* The process goes on with a command it has read, whatever the client does; a
\* transfer ends (the stall timer sees to it).
Progress ==
    \/ AuthCheckFails \/ CallHandler \/ NoHandlerLeft \/ HandlerReturns
    \/ HandlerAdds \/ HandlerAddsErr \/ HandlerSends \/ pr_data_abort
    \/ SetsFlag \/ DispatchSub \/ TransferEnds \/ EndDispatch

Spec == Init /\ [][Next]_vars /\ WF_vars(Progress)

-----------------------------------------------------------------------------
(* Properties *)

FrameType(f) ==
    /\ f.client \in 1..MaxCommands /\ f.saved \in {NULL, SESSION} \cup 1..MaxCommands
    /\ f.row \in 0..Len(Table) /\ f.result \in {-1, 0, 1}
    /\ f.failed \in {"NO", "PRE_CMD", "CMD"} /\ f.logged \subseteq DOMAIN Table
    /\ f.returns \in {"NONE", "HANDLED", "DECLINED", "ERROR"}

TypeOK ==
    /\ {authenticated, logged_in, rnfr} \subseteq BOOLEAN
    /\ nread \in 0..MaxCommands
    /\ \A i \in DOMAIN stack : FrameType(stack[i])
    /\ \A r \in Range(resp_list) \cup Range(resp_err_list) :
          r.by \in 1..MaxCommands /\ r.pool \in {SESSION} \cup 1..MaxCommands
    /\ resp_pool \in {NULL, SESSION} \cup 1..MaxCommands
    /\ last_code \in {NULL} \cup 100..599
    /\ \A d \in done : d.id \in 1..nread

\* The final replies (not those below 200, which announce one) among the lines
\* ls that a client takes for the answer to command c: where each ends.
FinalLines(ls, c) == {i \in DOMAIN ls : ls[i].to = c /\ ls[i].ends /\ ls[i].as >= 200}

\* The commands with a handler that may fail without a word: xfer_retr.
Unanswered == {"RETR"}
NoLines(ls, c) == \A i \in DOMAIN ls : ls[i].to # c

\* Every command is answered by exactly one final reply, also a command that
\* arrives during a transfer, the transfer around it, and a command whose
\* handler has dispatched another: none is lost when the lists are dropped for
\* an inner command, and none is sent twice.  The one exception is a RETR that
\* fails before its data connection is opened: it may get no line at all, but
\* one that has been announced (150) is answered like any other command.
OneReply ==
    \A d \in done :
        \/ \E i \in DOMAIN sent : FinalLines(sent, d.id) = {i}
        \/ /\ d.cmd \in Unanswered /\ d.log = "LOG_CMD_ERR"
           /\ NoLines(sent, d.id)

\* Every line sent as part of the answer to a command was added by a handler of
\* that command, and goes out under the code it was added with.
OwnLines ==
    \A i \in DOMAIN sent :
        /\ sent[i].by = sent[i].to
        /\ sent[i].num \in {R_DUP, sent[i].as}

\* While a command is handled, the responses waiting in the two lists, and the
\* pool the next one is taken from, belong to pools that still exist: the pool
\* of an inner command is destroyed with it.
PoolsLive ==
    IF stack = <<>> THEN resp_pool = NULL
    ELSE /\ resp_pool \in Live
         /\ \A r \in Range(resp_list) \cup Range(resp_err_list) : r.pool \in Live

\* Every command reaches every log handler registered for all commands, even
\* when an earlier one fails.
LogsRun ==
    stack # <<>> /\ top.phase = "END" =>
        \A i \in DOMAIN Table :
            Table[i].cmd = ANY /\ Table[i].phase = LogPhase(top)
                => i \in top.logged

\* A rename is over once RNTO has been answered, with whatever result: nothing
\* is left that would make the server refuse every other command.
RenameEnds == \A d \in done : d.cmd = "RNTO" /\ d.log # "NO" => ~rnfr

\* The commands whose logging deviates: ls_stat adds to both lists; auth_user
\* dispatches a PASS that clears the last code, and ignores its result; and
\* core_opts takes the result of the cleanup handlers for that of the command
\* it has dispatched.
Misreported == {"STAT", "USER", "OPTS"}

\* The log handlers are told what the client is told: the response code that a
\* log handler for all commands finds, and logs as the status of the command,
\* is that of the final reply, whatever was sent, added or dispatched during
\* the command; and it is run as LOG_CMD exactly when that reply is a success.
\* For a RETR that fails without a word it is run as LOG_CMD_ERR and finds no
\* code, neither one of an earlier command nor one of a command within it.
LoggedAsAnswered ==
    /\ stack # <<>> /\ IsLog(top.phase) /\ Running(top)
    /\ Table[top.row].cmd = ANY /\ top.cmd \notin Misreported
    => LET lines == sent \o Flush(Outcome(top), top.client)
           finals == FinalLines(lines, top.client)
       IN  \/ \E i \in finals :
                 /\ \A j \in finals : j <= i
                 /\ last_code = lines[i].as
                 /\ (top.phase = "LOG_CMD") <=> (last_code < 400)
           \/ /\ top.cmd \in Unanswered /\ top.phase = "LOG_CMD_ERR"
              /\ NoLines(lines, top.client) /\ last_code = NULL

\* The process always gets back to reading commands: the search for handlers,
\* the phases and the commands dispatched within others all come to an end.
BackToLoop == []<>(stack = <<>>)
=============================================================================
