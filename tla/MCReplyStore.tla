----------------------------- MODULE MCReplyStore -----------------------------
(* A small instance of ReplyStore for TLC.                                  *)
EXTENDS ReplyStore

CONSTANT t1

\* Two mails for one task, a copy of the first in the Junk folder, and a mail
\* that reuses the first one's place with other content.
MailsOfOneTask ==
  {[place |-> "inbox1", id |-> "a", digest |-> "x", task |-> t1],
   [place |-> "inbox2", id |-> "b", digest |-> "y", task |-> t1],
   [place |-> "junk1",  id |-> "a", digest |-> "x", task |-> t1],
   [place |-> "inbox1", id |-> "c", digest |-> "y", task |-> t1]}
===============================================================================
