---------------------------- MODULE CommandTable ----------------------------
(***************************************************************************)
(* Command handlers that modules register with the server (the cmdtables   *)
(* of mod_core, mod_auth, mod_site, mod_ls, mod_xfer and mod_log), as data *)
(* for CommandDispatch.                                                    *)
(*                                                                         *)
(* A handler is the set of things it may do: a sequence of calls to the    *)
(* Response API and to the dispatcher, in the order of the code, and what  *)
(* it returns.  What the calls depend on (file names, permissions, the     *)
(* configuration) is left open; "when" says what is not.  A response code  *)
(* is a number; R_DUP, NULL in the code, is 0, and the text is left out.   *)
(***************************************************************************)
EXTENDS Naturals, Sequences

CONSTANTS ANY      \* C_ANY, the command name of a wildcard handler

R_DUP == 0

Add(num)    == [op |-> "add", arg |-> num]       \* pr_response_add
AddErr(num) == [op |-> "err", arg |-> num]       \* pr_response_add_err
Send(num)   == [op |-> "send", arg |-> num]      \* pr_response_send
Poll        == [op |-> "poll", arg |-> 0]        \* data moves, poll_ctrl
Abort       == [op |-> "pool", arg |-> 0]        \* pr_data_abort: set_pool
Authenticated == [op |-> "authd", arg |-> 0]     \* the record "authenticated"
LoggedIn    == [op |-> "login", arg |-> 0]       \* logged_in = TRUE
Rename(b)   == [op |-> "rnfr", arg |-> b]        \* the note rnfr-path
Sub(c)      == [op |-> "sub", arg |-> c]         \* pr_cmd_dispatch(c)
SubResult(c) == [op |-> "subres", arg |-> c]     \* and its result is returned

Does(when, calls, returns) == [when |-> when, calls |-> calls,
                               returns |-> returns, num |-> R_DUP]
\* PR_ERROR_MSG: the dispatcher adds the response num
ErrorMsg(when, num) == [when |-> when, calls |-> <<>>,
                        returns |-> "ERROR", num |-> num]
Ok(calls)   == Does("always", calls, "HANDLED")
Fail(calls) == Does("always", calls, "ERROR")
Pass(calls) == Does("always", calls, "DECLINED")

-----------------------------------------------------------------------------
(* mod_core *)

core_pre_any == { Does("pending", <<AddErr(501)>>, "ERROR"),
                  Does("not pending", <<>>, "DECLINED") }

core_noop == { Ok(<<Add(200)>>), Fail(<<AddErr(550)>>) }

core_rnfr == { Ok(<<Rename(TRUE), Add(350)>>), Fail(<<AddErr(550)>>) }

\* The path of RNFR is in session.xfer, which a RETR refused between the two
\* commands clears, while the note stays.
core_rnto == { Does("renaming", <<Add(250)>>, "HANDLED"),
               Does("renaming", <<AddErr(550)>>, "ERROR"),
               Fail(<<AddErr(503)>>) }

core_rnto_cleanup == { Pass(<<Rename(FALSE)>>) }

\* OPTS X is dispatched as the command OPTS_X
core_opts == { Fail(<<AddErr(550)>>), Ok(<<SubResult("OPTS_UTF8")>>) }

\* (mod_lang, the handler of OPTS UTF8)
lang_utf8 == { Ok(<<Add(200)>>), Fail(<<AddErr(501)>>) }

-----------------------------------------------------------------------------
(* mod_auth: a user who needs no password is logged in by a PASS command   *)
(* that auth_user dispatches itself.                                       *)

auth_user == { ErrorMsg("always", 500),
               Does("logged in", <<Add(230)>>, "HANDLED"),
               Does("logged in", <<AddErr(501)>>, "ERROR"),
               Does("not logged in", <<Add(331)>>, "HANDLED"),
               Does("not logged in", <<Authenticated, Sub("PASS")>>, "HANDLED") }

\* (the last attempt that MaxLoginAttempts allows ends the session and is
\* left out)
auth_pass == { ErrorMsg("always", 503),
               ErrorMsg("not logged in", 530),
               Does("not logged in", <<Authenticated, LoggedIn, Add(230)>>,
                    "HANDLED") }

auth_log_pass == { Pass(<<>>) }
auth_err_pass == { Ok(<<>>) }

auth_post_retr == { Pass(<<>>) }

-----------------------------------------------------------------------------
(* mod_site: SITE HELP has a heading before it and a footer after it; the  *)
(* SITE commands that need a login are checked by site_dispatch itself.    *)

site_pre_cmd  == { Pass(<<Add(214)>>) }
site_help     == { Ok(<<Add(214), Add(R_DUP)>>), Ok(<<Add(214)>>),
                   Fail(<<AddErr(502)>>) }
site_post_cmd == { Pass(<<Add(214)>>) }

site_dispatch == { Does("authd", <<Add(200)>>, "HANDLED"),
                   Does("authd", <<AddErr(550)>>, "ERROR"),
                   Does("not authd", <<Send(530), Send(530)>>, "ERROR") }

-----------------------------------------------------------------------------
(* mod_ls: the last alternative is a path that ls_stat finds with lstat    *)
(* and dolist does not find with stat.                                     *)

ls_stat == { Ok(<<Add(211), Add(R_DUP), Add(R_DUP)>>),
             Ok(<<Add(212), Add(212), Add(212)>>),
             Fail(<<AddErr(450)>>),
             Fail(<<Add(213), AddErr(450), Add(213)>>) }

-----------------------------------------------------------------------------
(* mod_xfer, with the calls of pr_data_open and pr_data_abort: the file or *)
(* the data connection cannot be opened, the transfer succeeds, it fails,  *)
(* or the client aborts it.  pr_data_open may fail without a response: no  *)
(* connection after PASV or EPSV ALL, one left over without them, or a     *)
(* port that RootRevoke forbids.  xfer_retr adds none either.              *)

xfer_pre_retr == { Ok(<<>>), Fail(<<AddErr(550)>>) }

xfer_retr == { Fail(<<AddErr(550)>>), Fail(<<AddErr(425)>>), Fail(<<>>),
               Fail(<<Send(150), AddErr(425)>>),
               Ok(<<Send(150), Poll, Add(226)>>),
               Fail(<<Send(150), Poll, AddErr(451), Abort>>),
               Fail(<<Send(150), Poll, Send(426), Abort>>) }

xfer_post_retr   == { Pass(<<>>) }
xfer_log_retr    == { Pass(<<>>) }
xfer_err_cleanup == { Pass(<<>>) }

-----------------------------------------------------------------------------
(* mod_log never fails; a handler of another module may.                   *)

log_any   == { Pass(<<>>) }
other_log == { Pass(<<>>), Fail(<<>>) }

Row(phase, cmd, auth, does) == [phase |-> phase, cmd |-> cmd,
                                requires_auth |-> auth, does |-> does]

\* The tables, in an order in which the modules may have been loaded.  The
\* rows of SITE are given once for SITE HELP, whose three handlers go together,
\* and once for the SITE commands that need a login.
CmdTable ==
    << Row("PRE_CMD", ANY, FALSE, core_pre_any),
       Row("CMD", "NOOP", FALSE, core_noop),
       Row("CMD", "RNFR", TRUE, core_rnfr),
       Row("CMD", "RNTO", TRUE, core_rnto),
       Row("LOG_CMD", "RNTO", TRUE, core_rnto_cleanup),
       Row("LOG_CMD_ERR", "RNTO", TRUE, core_rnto_cleanup),
       Row("CMD", "OPTS", FALSE, core_opts),
       Row("CMD", "OPTS_UTF8", FALSE, lang_utf8),
       Row("CMD", "USER", FALSE, auth_user),
       Row("CMD", "PASS", FALSE, auth_pass),
       Row("LOG_CMD", "PASS", FALSE, auth_log_pass),
       Row("LOG_CMD_ERR", "PASS", FALSE, auth_err_pass),
       Row("POST_CMD", "RETR", FALSE, auth_post_retr),
       Row("POST_CMD_ERR", "RETR", FALSE, auth_post_retr),
       Row("PRE_CMD", "SITE_HELP", FALSE, site_pre_cmd),
       Row("CMD", "SITE_HELP", FALSE, site_help),
       Row("POST_CMD", "SITE_HELP", FALSE, site_post_cmd),
       Row("CMD", "SITE_CHMOD", FALSE, site_dispatch),
       Row("CMD", "STAT", TRUE, ls_stat),
       Row("PRE_CMD", "RETR", TRUE, xfer_pre_retr),
       Row("CMD", "RETR", TRUE, xfer_retr),
       Row("POST_CMD", "RETR", FALSE, xfer_post_retr),
       Row("LOG_CMD", "RETR", FALSE, xfer_log_retr),
       Row("LOG_CMD_ERR", "RETR", FALSE, xfer_err_cleanup),
       Row("LOG_CMD", ANY, FALSE, other_log),
       Row("LOG_CMD_ERR", ANY, FALSE, other_log),
       Row("LOG_CMD", ANY, FALSE, log_any),
       Row("LOG_CMD_ERR", ANY, FALSE, log_any) >>
=============================================================================
