---------------------------- MODULE SessionContract ----------------------------
(***************************************************************************)
(* What one IMAP command promises its caller (Session.do of session.go),    *)
(* whatever the server, the clock and the context do.  MailFetch takes its   *)
(* commands to behave like this: an answer is the server's own, and every    *)
(* other outcome leaves the session closed for good.                         *)
(***************************************************************************)
VARIABLES running,  \* a command has begun and not returned
          closed,   \* the session takes no more commands
          verdict,  \* the server's tagged answer: "none", "ok" or "no"
          result    \* of the last command: "none", "ok", "rejected",
                    \* "timeout", "ctx" or "closed"

vars == <<running, closed, verdict, result>>

Init == running = FALSE /\ closed = FALSE /\ verdict = "none" /\ result = "none"

Begin ==
  /\ ~running /\ ~closed
  /\ running' = TRUE /\ verdict' = "none" /\ result' = "none"
  /\ UNCHANGED closed

\* The server answers, perhaps after the caller gave up.
Answer ==
  /\ verdict = "none" /\ verdict' \in {"ok", "no"}
  /\ UNCHANGED <<running, closed, result>>

Return ==
  /\ running
  /\ running' = FALSE
  /\ \/ verdict = "ok" /\ result' = "ok" /\ closed' \in BOOLEAN
     \/ verdict = "no" /\ result' = "rejected" /\ closed' \in BOOLEAN
     \/ result' \in {"timeout", "ctx", "closed"} /\ closed' = TRUE
  /\ UNCHANGED verdict

\* A command that is not sent: the session is closed, or the context is over.
Refuse ==
  /\ ~running
  /\ \/ closed /\ result' = "closed"
     \/ ~closed /\ result' = "ctx"
  /\ UNCHANGED <<running, closed, verdict>>

\* Close, or a wait without a command that finds the connection gone.
Close ==
  /\ ~running
  /\ closed' = TRUE /\ result' \in {result, "ctx", "closed"}
  /\ UNCHANGED <<running, verdict>>

Next == Begin \/ Answer \/ Return \/ Refuse \/ Close

Spec == Init /\ [][Next]_vars
===============================================================================
