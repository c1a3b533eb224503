------------------------------ MODULE LoginPacing -----------------------------
(***************************************************************************)
(* How often the Watcher of internal/mail/imap/watcher.go logs in: the loop *)
(* of Run, the limiter loginWait and the jittered backoff retry, against a  *)
(* clock that moves while it sleeps, dials and serves.  What serve does in  *)
(* a session is MailFetch; here a session only proves itself healthy or not.*)
(***************************************************************************)
EXTENDS Integers, Sequences, FiniteSetsExt

CONSTANTS Initial, MaxWait, Jitter,  \* Backoff: Initial, Max, Jitter (percent)
          AuthPause,                 \* Backoff.AuthPause
          MaxLogins, LoginWindow,    \* Backoff: at most so many in the window
          MaxTime                    \* bound: length of a run

ASSUME PacingAssumption ==
  /\ {Initial, MaxWait, AuthPause, MaxLogins, LoginWindow} \subseteq Nat \ {0}
  /\ Jitter \in 1..99 /\ MaxTime \in Nat

VARIABLES now,
          pc,       \* "top", "sleep", "password", "dial", "login", "serve"
          pending,  \* the wait the last failure asks for
          wakeAt,   \* when the current sleep ends
          logins,   \* runner.logins: when Dial returned
          base,     \* reconnect.base, 0 for Initial
          sent      \* history: when LOGIN was sent, and when it was refused

pacingVars == <<now, pc, pending, wakeAt, logins, base, sent>>

-------------------------------------------------------------------------------
\* The logins of the last LoginWindow; they are in the order of their times.
Kept ==
  LET fresh == {i \in DOMAIN logins : now - logins[i] < LoginWindow}
  IN  IF fresh = {} THEN <<>> ELSE SubSeq(logins, Min(fresh), Len(logins))

LoginWaitFaulty ==
  LET n == Len(Kept)
  IN  IF n = 0 THEN 0 ELSE Max({0, Kept[n] + Initial - now})

\* loginWait: Initial since the last login and, with the window full, until
\* the oldest one that counts has left it.
LoginWait ==
  LET n == Len(Kept)
      last == Kept[n] + Initial - now
      oldest == Kept[n - MaxLogins + 1] + LoginWindow - now
  IN  IF n = 0 THEN 0
      ELSE IF n < MaxLogins THEN Max({0, last})
      ELSE Max({0, last, oldest})

\* retry.next: the wait is base (or Initial) with jitter, and base doubles.
Waits(d) == (d - (d * Jitter) \div 100) .. (d + (d * Jitter) \div 100)
NextBase ==
  LET d == IF base = 0 THEN Initial ELSE base IN Min({2 * d, MaxWait})

BackOff ==
  /\ pending' \in Waits(IF base = 0 THEN Initial ELSE base)
  /\ base' = NextBase

-------------------------------------------------------------------------------
\* The longer of the two waits; a wait of 0 is no wait.
Plan ==
  /\ pc = "top"
  /\ logins' = Kept
  /\ wakeAt' = now + Max({pending, LoginWait})
  /\ pc' = "sleep"
  /\ UNCHANGED <<now, pending, base, sent>>

Wake ==
  /\ pc = "sleep" /\ now >= wakeAt
  /\ pending' = 0
  /\ pc' = "password"
  /\ UNCHANGED <<now, wakeAt, logins, base, sent>>

\* Without credentials nothing is dialled and no login is counted.
Password ==
  /\ pc = "password"
  /\ \/ pc' = "dial" /\ UNCHANGED pending
     \/ pc' = "top" /\ pending' = MaxWait
  /\ UNCHANGED <<now, wakeAt, logins, base, sent>>

SendLogin ==
  /\ pc = "dial"
  /\ sent' = Append(sent, [at |-> now, refused |-> FALSE])
  /\ pc' = "login"
  /\ UNCHANGED <<now, pending, wakeAt, logins, base>>

CountLoginFaulty == logins' = Append(logins, wakeAt)

\* A login is counted when Dial returns, whatever it returns.
CountLogin == logins' = Append(logins, now)

DialFails ==
  /\ pc \in {"dial", "login"}
  /\ CountLogin
  /\ BackOff
  /\ pc' = "top"
  /\ UNCHANGED <<now, wakeAt, sent>>

\* A refused login pauses for AuthPause and leaves the backoff alone.
Pause == pending' = AuthPause /\ UNCHANGED base

LoginRefused ==
  /\ pc = "login"
  /\ CountLogin
  /\ Pause
  /\ pc' = "top"
  /\ sent' = [sent EXCEPT ![Len(sent)].refused = TRUE]
  /\ UNCHANGED <<now, wakeAt>>

LoggedIn ==
  /\ pc = "login"
  /\ CountLogin
  /\ pc' = "serve"
  /\ UNCHANGED <<now, pending, wakeAt, base, sent>>

\* serve resets the backoff once the connection has lived for IdleMax, or when
\* an IDLE ended as it should (which MailFetch decides).
Healthy ==
  /\ pc = "serve"
  /\ base' = 0
  /\ UNCHANGED <<now, pc, pending, wakeAt, logins, sent>>

ServeEnds ==
  /\ pc = "serve"
  /\ BackOff
  /\ pc' = "top"
  /\ UNCHANGED <<now, wakeAt, logins, sent>>

Tick ==
  /\ now < MaxTime
  /\ pc \in {"sleep", "password", "dial", "login", "serve"}
  /\ now' = now + 1
  /\ UNCHANGED <<pc, pending, wakeAt, logins, base, sent>>

PacingInit ==
  /\ now = 0 /\ pc = "top" /\ pending = 0 /\ wakeAt = 0 /\ logins = <<>>
  /\ base = 0 /\ sent = <<>>

PacingNext == \/ Plan \/ Wake \/ Password \/ SendLogin \/ DialFails
              \/ LoginRefused \/ LoggedIn \/ Healthy \/ ServeEnds \/ Tick

PacingSpec == PacingInit /\ [][PacingNext]_pacingVars

-------------------------------------------------------------------------------
(* Properties.                                                             *)

\* The server sees no two LOGINs closer than Initial, or than AuthPause when it
\* refused the first, however short the jittered backoff is and however slow
\* the previous dial was.
LoginsSpaced ==
  \A i \in 1..(Len(sent) - 1) :
    LET pause == IF sent[i].refused THEN Max({Initial, AuthPause}) ELSE Initial
    IN  sent[i + 1].at >= sent[i].at + pause

\* The server sees at most MaxLogins LOGINs in any LoginWindow, whatever mix
\* of refusals, lost connections and failed dials the watcher goes through.
LoginsLimited ==
  \A i \in 1..(Len(sent) - MaxLogins) :
    sent[i + MaxLogins].at >= sent[i].at + LoginWindow
===============================================================================
