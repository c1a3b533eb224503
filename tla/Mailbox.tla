-------------------------------- MODULE Mailbox -------------------------------
(***************************************************************************)
(* What FetchCursors and MailFetch share: the cursor of a folder that has  *)
(* no row in fetch_cursors, and lists of UIDs.                             *)
(***************************************************************************)
EXTENDS Naturals, Sequences, FiniteSets

\* No row; UIDVALIDITY is never 0.
NoCursor == [validity |-> 0, last |-> 0]

\* The UIDs of S from the least to the greatest.
InOrder(S) ==
  {uids \in [1..Cardinality(S) -> S] :
     /\ \A u \in S : \E i \in DOMAIN uids : uids[i] = u
     /\ \A i, j \in DOMAIN uids : i < j => uids[i] < uids[j]}
==============================================================================
