----------------------------- MODULE SmtpContract -----------------------------
(***************************************************************************)
(* What smtp.Send promises about one mail, whatever happens on the wire: the *)
(* server can take the mail only after the submission began; "not sent" and  *)
(* "rejected" mean it never will, "ok" means it did, and "uncertain" says    *)
(* nothing.  OutboxDelivery relies on exactly this.                          *)
(***************************************************************************)
VARIABLES begun,    \* the submission has begun
          verdict,  \* of the server: "none", "took" or "refused"
          result    \* of Send: "none" while it runs

vars == <<begun, verdict, result>>

Init == begun = FALSE /\ verdict = "none" /\ result = "none"

Begin ==
  /\ ~begun /\ result = "none"
  /\ begun' = TRUE
  /\ UNCHANGED <<verdict, result>>

Decide ==
  /\ begun /\ verdict = "none"
  /\ verdict' \in {"took", "refused"}
  /\ UNCHANGED <<begun, result>>

Conclude ==
  /\ result = "none"
  /\ \/ ~begun /\ result' \in {"not_sent", "auth"}
     \/ verdict = "took" /\ result' = "ok"
     \/ verdict = "refused" /\ result' = "rejected"
     \/ begun /\ result' = "uncertain"
  /\ UNCHANGED <<begun, verdict>>

Next == Begin \/ Decide \/ Conclude

Spec == Init /\ [][Next]_vars
===============================================================================
