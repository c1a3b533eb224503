------------------------------- MODULE ReplyLine ------------------------------
(***************************************************************************)
(* What the reply queue promises, whatever its tables look like: every task *)
(* has one line of mails.  Mails join in the order they arrive while the    *)
(* task is open, none of them twice, only the first in line is handed to    *)
(* the agent and only one at a time, a mail that was handed out comes back  *)
(* to its old place or is finished for good, and a task that is shut keeps  *)
(* nobody waiting and is never opened again.                                *)
(***************************************************************************)
EXTENDS Naturals

CONSTANTS Tasks, Mails

VARIABLES phase,    \* "new", "open" or "shut"
          known,    \* the mails that have arrived
          last,     \* number of mails that have arrived
          waiting,  \* per task, the mails in line
          out,      \* per task, the mail with the agent (at most one)
          done      \* per task, the mails the agent has for good

vars == <<phase, known, last, waiting, out, done>>

Init ==
  /\ phase = [t \in Tasks |-> "new"]
  /\ known = {}
  /\ last = 0
  /\ waiting = [t \in Tasks |-> {}]
  /\ out = [t \in Tasks |-> {}]
  /\ done = [t \in Tasks |-> {}]

Open(t) ==
  /\ phase[t] = "new"
  /\ phase' = [phase EXCEPT ![t] = "open"]
  /\ UNCHANGED <<known, last, waiting, out, done>>

Shut(t) ==
  /\ phase' = [phase EXCEPT ![t] = "shut"]
  /\ waiting' = [waiting EXCEPT ![t] = {}]
  /\ UNCHANGED <<known, last, out, done>>

\* The same mail again, known by its id or by the place it lies in, is no news.
Arrive(m) ==
  /\ \A k \in known : k.id # m.id /\ k.place # m.place
  /\ known' = known \cup {m}
  /\ last' = last + 1
  /\ waiting' = IF phase[m.task] = "open"
                THEN [waiting EXCEPT ![m.task] = @ \cup {last + 1}]
                ELSE waiting
  /\ UNCHANGED <<phase, out, done>>

HandOut(t) ==
  /\ out[t] = {}
  /\ \E m \in waiting[t] :
       /\ \A w \in waiting[t] : m <= w
       /\ out' = [out EXCEPT ![t] = {m}]
       /\ waiting' = [waiting EXCEPT ![t] = @ \ {m}]
  /\ UNCHANGED <<phase, known, last, done>>

TakeBack(t) ==
  /\ phase[t] = "open"
  /\ out[t] # {}
  /\ waiting' = [waiting EXCEPT ![t] = @ \cup out[t]]
  /\ out' = [out EXCEPT ![t] = {}]
  /\ UNCHANGED <<phase, known, last, done>>

Discard(t) ==
  /\ phase[t] = "shut"
  /\ out' = [out EXCEPT ![t] = {}]
  /\ UNCHANGED <<phase, known, last, waiting, done>>

Finish(t) ==
  /\ out[t] # {}
  /\ done' = [done EXCEPT ![t] = @ \cup out[t]]
  /\ out' = [out EXCEPT ![t] = {}]
  /\ UNCHANGED <<phase, known, last, waiting>>

Next == \/ \E m \in Mails : Arrive(m)
        \/ \E t \in Tasks : \/ Open(t) \/ Shut(t) \/ HandOut(t)
                            \/ TakeBack(t) \/ Discard(t) \/ Finish(t)

Spec == Init /\ [][Next]_vars
===============================================================================
