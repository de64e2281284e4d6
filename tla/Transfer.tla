------------------------------ MODULE Transfer ------------------------------
(***************************************************************************)
(* What a client may rely on when it asks for a transfer (RFC 959, as      *)
(* src/data.c and the handlers of RETR, STOR, APPE, STOU, LIST and MLSD    *)
(* keep it), without saying how: at most one final reply, a positive one   *)
(* only for a transfer that was carried out, and a stored file that is     *)
(* touched no earlier and no further than the kind of upload allows.       *)
(*                                                                         *)
(* DataTransfer is shown to implement this specification.                  *)
(***************************************************************************)
VARIABLES
    phase,    \* "idle", "asked", "moving" or "closed" (the session is over)
    kind,     \* "download", "upload", or "hidden": an upload under another name
    ready,    \* the client has agreed with the server on a data connection
    aborted,  \* the client has interrupted the transfer
    answer,   \* the final reply to the last command: "none", "ok" or "failed"
    file,     \* the file named: "absent", "old", "part" or "new"
    purge     \* what an interrupted upload leaves behind is removed

vars == <<phase, kind, ready, aborted, answer, file, purge>>

Kinds == {"download", "upload", "hidden"}

Init ==
    /\ phase = "idle"
    /\ kind = "download"
    /\ ready = TRUE
    /\ aborted = FALSE
    /\ answer = "none"
    /\ file \in {"absent", "old"}
    /\ purge \in BOOLEAN

Ask ==
    /\ phase = "idle"
    /\ phase' = "asked"
    /\ kind' \in Kinds
    /\ ready' \in BOOLEAN
    /\ aborted' = FALSE
    /\ answer' = "none"
    /\ file' \in {"absent", "old"}
    /\ UNCHANGED purge

\* An upload that is not hidden opens, and perhaps truncates, the file before
\* there is a data connection.
Open ==
    /\ phase = "asked"
    /\ ready
    /\ kind = "upload"
    /\ file' \in {file, "part"}
    /\ UNCHANGED <<phase, kind, ready, aborted, answer, purge>>

Begin ==
    /\ phase = "asked"
    /\ ready
    /\ phase' = "moving"
    /\ UNCHANGED <<kind, ready, aborted, answer, file, purge>>

Move ==
    /\ phase = "moving"
    /\ kind = "upload"
    /\ file' = "part"
    /\ UNCHANGED <<phase, kind, ready, aborted, answer, purge>>

\* What an upload that did not come to its end may leave of the file: a hidden
\* one leaves it alone, unless what is left behind is removed.
GivenUp ==
    \/ UNCHANGED file
    \/ kind = "upload" /\ file' = "part"
    \/ purge /\ kind # "download" /\ file # "new" /\ file' = "absent"

\* What is left of the upload may be undone at once.
Abort ==
    /\ phase \in {"asked", "moving"}
    /\ aborted' = TRUE
    /\ GivenUp
    /\ UNCHANGED <<phase, kind, ready, answer, purge>>

\* All of the data has arrived: the file is what the client sent.
Install ==
    /\ phase = "moving"
    /\ kind # "download"
    /\ answer = "none"
    /\ file' = "new"
    /\ UNCHANGED <<phase, kind, ready, aborted, answer, purge>>

\* The transfer is given up; an interrupted one is answered while the data
\* connection is still being taken down.
GiveUp ==
    /\ phase = "moving"
    /\ file # "new"
    /\ GivenUp
    /\ answer = "none"
    /\ answer' \in {"none", "failed"}
    /\ answer' = "failed" => aborted
    /\ UNCHANGED <<phase, kind, ready, aborted, purge>>

Succeed ==
    /\ phase = "moving"
    /\ answer = "none"
    /\ kind # "download" => file = "new"
    /\ phase' = "idle"
    /\ answer' = "ok"
    /\ ready' = TRUE
    /\ aborted' = FALSE
    /\ UNCHANGED <<kind, file, purge>>

\* A command goes unanswered only if there was no data connection to be had, or
\* the client interrupted it.
Fail ==
    /\ phase \in {"asked", "moving"}
    /\ file # "new"
    /\ GivenUp
    /\ phase' = "idle"
    /\ \/ answer' = "failed"
       \/ answer' = answer /\ (phase = "asked" => ~ready)
                           /\ (phase = "moving" => aborted)
    /\ ready' = TRUE
    /\ aborted' = FALSE
    /\ UNCHANGED <<kind, purge>>

Hangup ==
    /\ phase # "closed"
    /\ phase' = "closed"
    /\ GivenUp
    /\ ready' = TRUE
    /\ aborted' = FALSE
    /\ UNCHANGED <<kind, answer, purge>>

Next == \/ Ask \/ Open \/ Begin \/ Move \/ Abort \/ Install
        \/ GiveUp \/ Succeed \/ Fail \/ Hangup

Spec == Init /\ [][Next]_vars
=============================================================================
