---------------------------- MODULE MCReplyDispatch ---------------------------
(* A small instance of ReplyDispatch for TLC.                              *)
EXTENDS ReplyDispatch

CONSTANT t1

\* Two mails for one task, and a copy of the first in the Junk folder.
TwoMailsAndCopy ==
  {[place |-> "inbox1", id |-> "a", digest |-> "x", task |-> t1],
   [place |-> "inbox2", id |-> "b", digest |-> "y", task |-> t1],
   [place |-> "junk1",  id |-> "a", digest |-> "x", task |-> t1]}
===============================================================================
