---------------------------- MODULE MailClientProofs ---------------------------
(***************************************************************************)
(* Proofs that the two mail clients keep their contracts: smtp.Send, for     *)
(* any number of recipients and chunks, and the commands of an IMAP session, *)
(* for any number of commands and signals.  Init, Next and Spec are those of *)
(* SmtpSend; the session has SessionInit, SessionNext and SessionSpec.       *)
(***************************************************************************)
EXTENDS SmtpSend, SessionCommand, SequenceTheorems, TLAPS

-------------------------------------------------------------------------------
(* Send: the order of its steps.                                           *)

Early == {"ehlo", "auth", "mail", "rcpt", "data", "body"}

AllSteps == Early \cup {"submission", "quit"}

LEMMA StepsShape ==
  /\ Len(Steps) \in Nat /\ Len(Steps) > 5
  /\ Steps[1] = "ehlo"
  /\ \A s \in 1..Len(Steps) :
       /\ s <= LastBodyStep <=> Steps[s] \in Early
       /\ s = LastBodyStep + 1 <=> Steps[s] = "submission"
       /\ s = LastBodyStep + 2 <=> Steps[s] = "quit"
<1>. DEFINE greet == <<"ehlo", "auth", "mail">>
            rcpts == [i \in 1..Recipients |-> "rcpt"]
            bodies == [i \in 1..Chunks |-> "body"]
            g == greet \o rcpts
            h == g \o <<"data">>
            k == h \o bodies
<1>1. Recipients \in Nat /\ Chunks \in Nat /\ Recipients > 0 /\ Chunks > 0
  BY SendAssumption
<1>2. /\ rcpts \in Seq(Early) /\ Len(rcpts) = Recipients
      /\ bodies \in Seq(Early) /\ Len(bodies) = Chunks
  BY <1>1 DEF Early
<1>3. greet \in Seq(Early) /\ Len(greet) = 3 /\ greet[1] = "ehlo" /\ <<"data">> \in Seq(Early)
  BY DEF Early
<1>. HIDE DEF rcpts, bodies, greet
<1>4. g \in Seq(Early) /\ Len(g) = Recipients + 3 /\ g[1] = "ehlo"
  <2>1. /\ g \in Seq(Early) /\ Len(g) = Len(greet) + Len(rcpts)
        /\ \A i \in 1..Len(greet) + Len(rcpts) :
             g[i] = IF i <= Len(greet) THEN greet[i] ELSE rcpts[i - Len(greet)]
    BY <1>2, <1>3, ConcatProperties
  <2>2. QED
    BY <1>1, <1>2, <1>3, <2>1
<1>. HIDE DEF g
<1>5. h \in Seq(Early) /\ Len(h) = Recipients + 4 /\ h[1] = "ehlo"
  <2>1. /\ h \in Seq(Early) /\ Len(h) = Len(g) + Len(<<"data">>)
        /\ \A i \in 1..Len(g) + Len(<<"data">>) :
             h[i] = IF i <= Len(g) THEN g[i] ELSE <<"data">>[i - Len(g)]
    BY <1>3, <1>4, ConcatProperties
  <2>2. QED
    BY <1>1, <1>4, <2>1
<1>. HIDE DEF h
<1>6. k \in Seq(Early) /\ Len(k) = Recipients + Chunks + 4 /\ k[1] = "ehlo"
  <2>1. /\ k \in Seq(Early) /\ Len(k) = Len(h) + Len(bodies)
        /\ \A i \in 1..Len(h) + Len(bodies) :
             k[i] = IF i <= Len(h) THEN h[i] ELSE bodies[i - Len(h)]
    BY <1>2, <1>5, ConcatProperties
  <2>2. QED
    BY <1>1, <1>2, <1>5, <2>1
<1>. DEFINE e == <<"submission", "quit">>
<1>7. Steps = k \o e
  BY DEF Steps, k, h, g, greet, rcpts, bodies
<1>. HIDE DEF k
<1>8. /\ Len(Steps) = Recipients + Chunks + 6 /\ Steps[1] = "ehlo"
      /\ \A i \in 1..Len(k) : Steps[i] = k[i] /\ k[i] \in Early
      /\ Steps[Len(k) + 1] = "submission" /\ Steps[Len(k) + 2] = "quit"
  <2>1. e \in Seq(AllSteps) /\ Len(e) = 2 /\ e[1] = "submission" /\ e[2] = "quit"
    BY DEF AllSteps
  <2>2. k \in Seq(AllSteps) /\ \A i \in 1..Len(k) : k[i] \in Early
    <3>1. \A i \in 1..Len(k) : k[i] \in Early
      BY <1>6, ElementOfSeq
    <3>2. Len(k) \in Nat /\ k \in [1..Len(k) -> Early]
      BY <1>6, LenProperties
    <3>3. k \in [1..Len(k) -> AllSteps]
      BY <3>2 DEF AllSteps
    <3>4. QED
      BY <3>1, <3>2, <3>3, SeqDef
  <2>. HIDE DEF e
  <2>3. /\ Len(Steps) = Len(k) + Len(e)
        /\ \A i \in 1..Len(k) + Len(e) :
             Steps[i] = IF i <= Len(k) THEN k[i] ELSE e[i - Len(k)]
    BY <1>7, <2>1, <2>2, ConcatProperties
  <2>4. QED
    BY <1>1, <1>6, <2>1, <2>2, <2>3
<1>9. LastBodyStep = Len(k)
  BY <1>1, <1>6, <1>8 DEF LastBodyStep
<1>10. \A s \in 1..Len(Steps) : s \in 1..Len(k) \/ s = Len(k) + 1 \/ s = Len(k) + 2
  BY <1>1, <1>6, <1>8
<1>11. QED
  BY <1>1, <1>6, <1>8, <1>9, <1>10 DEF Early

\* Where the step is, by what it is.
LEMMA StepIs ==
  ASSUME step \in 1..Len(Steps)
  PROVE  /\ LastBodyStep \in Nat /\ step \in Nat /\ step <= LastBodyStep + 2
         /\ LastBodyStep >= 1 /\ Len(Steps) = LastBodyStep + 2
         /\ Step = "submission" <=> step = LastBodyStep + 1
         /\ Step = "quit" <=> step = LastBodyStep + 2
         /\ Step \in {"ehlo", "auth", "body"} => step <= LastBodyStep
<1>1. LastBodyStep = Len(Steps) - 2
  BY DEF LastBodyStep
<1>2. QED
  BY <1>1, StepsShape DEF Step, Early

-------------------------------------------------------------------------------
(* Send: the invariant.                                                    *)

SendTyped ==
  /\ pc \in {"start", "arm", "run", "disarm", "check", "halt", "wait", "returned"}
  /\ step \in 1..Len(Steps)
  /\ got \in {"ok"} \cup Failure
  /\ result \in {"none", "not_sent", "auth", "ok", "rejected", "uncertain"}
  /\ dog \in {"off", "waiting", "closing", "exited"}
  /\ armed \in BOOLEAN /\ expired \in BOOLEAN /\ ctxDone \in BOOLEAN
  /\ wire \in {"none", "written", "took", "refused"}

Working == {"start", "arm", "run", "disarm", "check"}

\* The result follows the steps, and is final when Send stops.
ResultFollows ==
  /\ pc \in Working => result = IF Step = "quit" THEN "ok" ELSE "none"
  /\ pc = "start" => step = 1
  /\ pc = "check" => Step = "submission"
  /\ result \in {"ok", "rejected", "uncertain"} => step > LastBodyStep
  /\ result = "auth" => step <= LastBodyStep
  /\ pc \in {"halt", "wait", "returned"} => result # "none"

\* The end mark is on the wire only in a submission, and what Send makes of the
\* submission is what the server made of it.
WireFollows ==
  /\ wire # "none" => Begun
  /\ Step = "quit" => wire = "took"
  /\ pc = "disarm" /\ Step = "submission" =>
       /\ got = "ok" => wire = "took"
       /\ got \in {"4xx", "5xx"} => wire = "refused"

\* The watchdog waits with a timer only while an operation runs.
TimerFollows ==
  /\ dog = "off" => pc \in {"start", "returned"}
  /\ pc = "start" => dog = "off"
  /\ dog \in {"off", "waiting"} /\ armed => pc \in {"run", "disarm"}

SendInv == SendTyped /\ ResultFollows /\ WireFollows /\ TimerFollows

LEMMA SendInitInv == Init => SendInv
<1>. SUFFICES ASSUME Init PROVE SendInv
  OBVIOUS
<1>1. step \in 1..Len(Steps) /\ step = 1
  BY StepsShape DEF Init
<1>2. step <= LastBodyStep /\ Step \notin {"submission", "quit"}
  BY <1>1, StepIs
<1>3. QED
  BY <1>1, <1>2 DEF Init, SendInv, SendTyped, ResultFollows, WireFollows, TimerFollows,
     Working

LEMMA SendStepInv == SendInv /\ [Next]_sendVars => SendInv'
<1>. SUFFICES ASSUME SendInv, [Next]_sendVars PROVE SendInv'
  OBVIOUS
<1>1. SendTyped /\ step \in 1..Len(Steps)
  BY DEF SendInv, SendTyped
<1>2. /\ LastBodyStep \in Nat /\ step \in Nat /\ step <= LastBodyStep + 2
      /\ LastBodyStep >= 1 /\ Len(Steps) = LastBodyStep + 2
      /\ Step = "submission" <=> step = LastBodyStep + 1
      /\ Step = "quit" <=> step = LastBodyStep + 2
      /\ Step \in {"ehlo", "auth", "body"} => step <= LastBodyStep
  BY <1>1, StepIs
<1>3. LastBodyStep' = LastBodyStep /\ Len(Steps') = Len(Steps)
  BY DEF LastBodyStep, Steps
<1>. USE DEF SendInv, SendTyped, ResultFollows, WireFollows, TimerFollows, Working
<1>4. CASE DogNext \/ EndContext
  <2>1. UNCHANGED <<pc, step, got, result, wire>> /\ (armed' = armed)
    BY <1>4 DEF DogNext, Expire, NoticeContext, CloseConnection, NoticeQuit, EndContext
  <2>2. Begun' = Begun /\ Step' = Step
    BY <2>1 DEF Begun, Step, Steps, LastBodyStep
  <2>3. UNCHANGED <<ctxDone, armed, quit>> \/ EndContext
    BY <1>4 DEF DogNext, Expire, NoticeContext, CloseConnection, NoticeQuit
  <2>4. /\ dog' \in {"off", "waiting", "closing", "exited"} /\ expired' \in BOOLEAN
        /\ ctxDone' \in BOOLEAN
        /\ \/ dog' \in {"closing", "exited"} /\ dog \in {"waiting", "closing"}
           \/ dog' = dog
    BY <1>4 DEF DogNext, Expire, NoticeContext, CloseConnection, NoticeQuit, EndContext
  <2>5. SendTyped' /\ ResultFollows' /\ TimerFollows'
    BY <1>3, <2>1, <2>2, <2>4
  <2>6. WireFollows'
    BY <2>1, <2>2
  <2>7. QED
    BY <2>5, <2>6
<1>5. CASE Start
  BY <1>2, <1>3, <1>5 DEF Start, Begun, Step
<1>6. CASE Arm
  BY <1>2, <1>3, <1>6 DEF Arm, Set, Begun, Step
<1>7. CASE RunStep
  BY <1>2, <1>3, <1>7 DEF RunStep, Begun, Step, Failure
<1>8. CASE WriteEndMark \/ ServerDecides
  BY <1>2, <1>3, <1>8 DEF WriteEndMark, ServerDecides, Begun, Step
<1>9. CASE EndSubmission
  BY <1>2, <1>3, <1>9 DEF EndSubmission, Begun, Step, Failure
<1>10. CASE Disarm
  <2>1. /\ pc = "disarm" /\ UNCHANGED <<got, dog, expired, ctxDone, wire>>
        /\ armed' \in BOOLEAN /\ (dog \in {"off", "waiting"} => ~armed')
    BY <1>10 DEF Disarm, Set
  <2>2. CASE step' = step /\ pc' = "halt"
    <3>1. Step' = Step
      BY <2>2 DEF Step, Steps
    <3>2. \/ Step = "quit" /\ result' = result
          \/ Step # "quit" /\ got \in Failure /\ result' = Outcome(Step, got)
          \/ Step = "ehlo" /\ result' = "not_sent"
      BY <1>2, <1>10, <2>2 DEF Disarm
    <3>3. result' \in {"not_sent", "auth", "ok", "rejected", "uncertain"}
      BY <2>1, <3>2 DEF Outcome
    <3>4. Step = "quit" => result' = "ok"
      BY <2>1, <3>2
    <3>5. CASE Step = "submission"
      <4>1. result' \in {"rejected", "uncertain"}
        BY <3>2, <3>5 DEF Outcome
      <4>2. QED
        BY <1>2, <1>3, <2>1, <2>2, <3>1, <3>5, <4>1 DEF Begun
    <3>6. CASE Step # "submission" /\ Step # "quit"
      <4>1. result' \in {"not_sent", "auth"}
        BY <3>2, <3>6 DEF Outcome
      <4>2. step <= LastBodyStep /\ wire = "none"
        BY <1>2, <3>6 DEF Begun
      <4>3. QED
        BY <1>2, <1>3, <2>1, <2>2, <3>1, <3>6, <4>1, <4>2 DEF Begun
    <3>7. CASE Step = "quit"
      BY <1>2, <1>3, <2>1, <2>2, <3>1, <3>4, <3>7 DEF Begun
    <3>8. QED
      BY <3>5, <3>6, <3>7
  <2>3. CASE /\ Step # "quit" /\ got = "ok" /\ step' = step + 1
             /\ result' = IF Step = "submission" THEN "ok" ELSE result
             /\ pc' = IF step = LastBodyStep THEN "check" ELSE "arm"
    <3>1. /\ step' \in 1..Len(Steps) /\ step' \in Nat
          /\ Step' = "submission" <=> step' = LastBodyStep + 1
          /\ Step' = "quit" <=> step' = LastBodyStep + 2
      <4>1. step + 1 \in 1..Len(Steps) /\ step + 1 <= LastBodyStep + 2
        BY <1>2, <2>3
      <4>2. Step' = Steps[step + 1]
        BY <2>3 DEF Step, Steps
      <4>3. QED
        BY <1>2, <2>3, <4>1, <4>2, StepsShape DEF Early
    <3>2. CASE Step = "submission"
      BY <1>2, <1>3, <2>1, <2>3, <3>1, <3>2 DEF Begun
    <3>3. CASE Step # "submission"
      <4>1. step <= LastBodyStep /\ wire = "none" /\ result = "none"
        BY <1>2, <2>1, <2>3, <3>3 DEF Begun
      <4>2. QED
        BY <1>2, <1>3, <2>1, <2>3, <3>1, <3>3, <4>1 DEF Begun
    <3>4. QED
      BY <3>2, <3>3
  <2>4. QED
    BY <1>10, <2>2, <2>3 DEF Disarm
<1>11. CASE Check
  BY <1>2, <1>3, <1>11 DEF Check, Begun, Step
<1>12. CASE Halt \/ Return
  BY <1>2, <1>3, <1>12 DEF Halt, Return, Begun, Step
<1>13. CASE UNCHANGED sendVars
  BY <1>2, <1>3, <1>13 DEF sendVars, Begun, Step
<1>14. QED
  BY <1>4, <1>5, <1>6, <1>7, <1>8, <1>9, <1>10, <1>11, <1>12, <1>13 DEF Next, SendNext

\* The result of Send follows its steps, the end mark of the body is on the wire
\* only once the submission has begun and what Send makes of it is what the server
\* made of it, and the watchdog has a timer only while an operation runs.
THEOREM SendInvariant == Spec => []SendInv
<1>1. QED
  BY SendInitInv, SendStepInv, PTL DEF Spec

\* A context or a deadline that ended before the submission: the last look, in
\* Check, still finds it.
StoppedInTime ==
  /\ ctxDone \/ expired
  /\ \/ step <= LastBodyStep
     \/ pc = "check"
     \/ pc \in {"halt", "wait", "returned"} /\ result = "not_sent"

LEMMA StoppedStays == SendInv /\ StoppedInTime /\ [Next]_sendVars => StoppedInTime'
<1>. SUFFICES ASSUME SendInv, StoppedInTime, [Next]_sendVars PROVE StoppedInTime'
  OBVIOUS
<1>1. step \in 1..Len(Steps) /\ SendTyped
  BY DEF SendInv, SendTyped
<1>2. LastBodyStep \in Nat /\ step \in Nat /\ LastBodyStep' = LastBodyStep
  BY <1>1, StepIs DEF LastBodyStep, Steps
<1>3. ctxDone' \/ expired'
  <2>1. CASE EndContext
    BY <2>1 DEF EndContext
  <2>2. CASE Expire
    BY <2>2 DEF Expire
  <2>3. CASE ~EndContext /\ ~Expire
    <3>1. ctxDone' = ctxDone /\ expired' = expired
      BY <2>3 DEF Next, DogNext, SendNext, NoticeContext, CloseConnection, NoticeQuit,
         Start, Arm, RunStep, WriteEndMark, ServerDecides, EndSubmission, Disarm, Check,
         Halt, Return, sendVars
    <3>2. QED
      BY <3>1 DEF StoppedInTime
  <2>4. QED
    BY <2>1, <2>2, <2>3
<1>4. CASE step <= LastBodyStep
  <2>1. CASE Disarm
    BY <1>2, <1>3, <1>4, <2>1 DEF Disarm, StoppedInTime
  <2>2. CASE ~Disarm
    <3>1. step' = step
      BY <2>2 DEF Next, DogNext, SendNext, Expire, NoticeContext, CloseConnection,
         NoticeQuit, Start, Arm, RunStep, WriteEndMark, ServerDecides, EndSubmission,
         Check, Halt, Return, EndContext, sendVars
    <3>2. QED
      BY <1>2, <1>3, <1>4, <3>1 DEF StoppedInTime
  <2>3. QED
    BY <2>1, <2>2
<1>5. CASE pc = "check"
  <2>1. \/ UNCHANGED pc
        \/ pc' = "halt" /\ result' = "not_sent"
    BY <1>5 DEF Next, DogNext, SendNext, Expire, NoticeContext, CloseConnection,
       NoticeQuit, Start, Arm, RunStep, WriteEndMark, ServerDecides, EndSubmission,
       Disarm, Check, Halt, Return, EndContext, sendVars, StoppedInTime, StoppedEarly
  <2>2. QED
    BY <1>3, <1>5, <2>1 DEF StoppedInTime
<1>6. CASE pc \in {"halt", "wait", "returned"} /\ result = "not_sent"
  <2>1. pc' \in {"halt", "wait", "returned"} /\ result' = result
    BY <1>6 DEF Next, DogNext, SendNext, Expire, NoticeContext, CloseConnection,
       NoticeQuit, Start, Arm, RunStep, WriteEndMark, ServerDecides, EndSubmission,
       Disarm, Check, Halt, Return, EndContext, sendVars
  <2>2. QED
    BY <1>3, <1>6, <2>1 DEF StoppedInTime
<1>7. QED
  BY <1>4, <1>5, <1>6 DEF StoppedInTime

LEMMA StoppedIsNotSent ==
  ASSUME SendInv, StoppedInTime
  PROVE  wire = "none" /\ result \in {"none", "not_sent", "auth"}
<1>1. step \in 1..Len(Steps)
  BY DEF SendInv, SendTyped
<1>2. /\ LastBodyStep \in Nat /\ step \in Nat
      /\ Step = "submission" <=> step = LastBodyStep + 1
      /\ Step = "quit" <=> step = LastBodyStep + 2
  BY <1>1, StepIs
<1>3. CASE step <= LastBodyStep
  BY <1>2, <1>3 DEF SendInv, SendTyped, ResultFollows, WireFollows, Begun
<1>4. CASE pc = "check"
  BY <1>2, <1>4 DEF SendInv, ResultFollows, WireFollows, Begun, Working
<1>5. CASE result = "not_sent"
  BY <1>5 DEF SendInv, WireFollows, Begun
<1>6. QED
  BY <1>3, <1>4, <1>5 DEF StoppedInTime

\* A context or a deadline that ends before the last step of the body is over
\* is never reported as uncertain: Send looks at both between the body and
\* the submission, and the end mark is not written.
THEOREM EarlyEndNotSent == Spec => EarlyEndIsNotSent
<1>1. (ctxDone \/ expired) /\ step <= LastBodyStep => StoppedInTime
  BY DEF StoppedInTime
<1>2. SendInv /\ StoppedInTime => wire = "none" /\ result \in {"none", "not_sent", "auth"}
  BY StoppedIsNotSent
<1>3. QED
  BY <1>1, <1>2, SendInvariant, StoppedStays, PTL DEF Spec, EarlyEndIsNotSent

\* The watchdog's timer runs out only while an operation of a step is under way.
THEOREM DeadlinesBelongToSteps == Spec => DeadlineBelongsToStep
<1>1. SendInv /\ [Next]_sendVars
        => [~expired /\ expired' => pc \in {"run", "disarm"}]_sendVars
  <2>. SUFFICES ASSUME SendInv, [Next]_sendVars, ~expired, expired'
                PROVE  pc \in {"run", "disarm"}
    OBVIOUS
  <2>1. Expire
    BY DEF Next, DogNext, SendNext, NoticeContext, CloseConnection, NoticeQuit,
       Start, Arm, RunStep, WriteEndMark, ServerDecides, EndSubmission, Disarm, Check,
       Halt, Return, EndContext, sendVars
  <2>2. QED
    BY <2>1 DEF SendInv, TimerFollows, Expire
<1>2. QED
  BY <1>1, SendInvariant, PTL DEF Spec, DeadlineBelongsToStep

-------------------------------------------------------------------------------
(* Send implements its contract.                                           *)

LEMMA SendInitContract == Init => Contract!Init
<1>. SUFFICES ASSUME Init PROVE Contract!Init
  OBVIOUS
<1>1. step = 1 /\ 1 \in 1..Len(Steps) /\ result = "none" /\ wire = "none"
  BY StepsShape DEF Init
<1>2. LastBodyStep \in Nat /\ LastBodyStep >= 1
  BY <1>1, StepIs
<1>3. Begun = FALSE
  BY <1>1, <1>2 DEF Begun
<1>4. QED
  BY <1>1, <1>3 DEF Contract!Init

\* What a step before the submission, or one that looks at nothing of it, is for
\* the contract.
LEMMA SendStepContract ==
  SendInv /\ SendInv' /\ [Next]_sendVars => [Contract!Next]_(Contract!vars)
<1>. SUFFICES ASSUME SendInv, SendInv', [Next]_sendVars
              PROVE  [Contract!Next]_(Contract!vars)
  OBVIOUS
<1>1. SendTyped /\ step \in 1..Len(Steps)
  BY DEF SendInv, SendTyped
<1>2. /\ LastBodyStep \in Nat /\ step \in Nat /\ step <= LastBodyStep + 2
      /\ Step = "submission" <=> step = LastBodyStep + 1
      /\ Step = "quit" <=> step = LastBodyStep + 2
      /\ Step \in {"ehlo", "auth", "body"} => step <= LastBodyStep
  BY <1>1, StepIs
<1>3. LastBodyStep' = LastBodyStep
  BY DEF LastBodyStep, Steps
<1>4. CASE UNCHANGED <<Begun, wire, result>>
  BY <1>4 DEF Contract!vars
<1>5. CASE DogNext \/ EndContext \/ UNCHANGED sendVars
  <2>1. UNCHANGED <<pc, step, result, wire>>
    BY <1>5 DEF DogNext, Expire, NoticeContext, CloseConnection, NoticeQuit, EndContext,
       sendVars
  <2>2. QED
    BY <1>4, <2>1 DEF Begun, Step, Steps, LastBodyStep
<1>6. CASE Start
  <2>1. pc = "start" /\ step' = step /\ wire' = wire /\ step <= LastBodyStep
    BY <1>2, <1>6, StepsShape DEF Start, SendInv, ResultFollows, Early
  <2>2. ~Begun /\ Begun' = Begun
    BY <1>2, <1>3, <2>1 DEF Begun
  <2>3. \/ result' = result
        \/ result = "none" /\ result' = "not_sent"
    BY <1>2, <1>6, <2>1 DEF Start, SendInv, ResultFollows, Working
  <2>4. CASE result' = result
    BY <1>4, <2>1, <2>2, <2>4
  <2>5. CASE result = "none" /\ result' = "not_sent"
    BY <2>1, <2>2, <2>5 DEF Contract!Next, Contract!Conclude
  <2>6. QED
    BY <2>3, <2>4, <2>5
<1>7. CASE Arm
  <2>1. pc = "arm" /\ pc' = "run" /\ UNCHANGED <<step, wire, result>> /\ Step' = Step
    BY <1>7 DEF Arm, Step, Steps
  <2>2. CASE Step = "submission"
    <3>1. result = "none" /\ ~Begun
      BY <2>1, <2>2 DEF SendInv, ResultFollows, Working, Begun
    <3>2. Begun'
      BY <1>2, <1>3, <2>1, <2>2, <3>1 DEF Begun
    <3>3. QED
      BY <2>1, <3>1, <3>2 DEF Contract!Next, Contract!Begin
  <2>3. CASE Step # "submission"
    <3>1. Begun' = Begun
      BY <1>3, <2>1, <2>3 DEF Begun
    <3>2. QED
      BY <1>4, <2>1, <3>1
  <2>4. QED
    BY <2>2, <2>3
<1>8. CASE RunStep \/ EndSubmission \/ Halt \/ Return
  <2>1. /\ UNCHANGED <<step, wire, result>> /\ Step' = Step
        /\ pc \notin {"check", "arm"} /\ pc' \notin {"check", "arm"}
    BY <1>8 DEF RunStep, EndSubmission, Halt, Return, Step, Steps
  <2>2. Begun' = Begun
    BY <1>3, <2>1 DEF Begun
  <2>3. QED
    BY <1>4, <2>1, <2>2
<1>9. CASE WriteEndMark
  <2>1. /\ UNCHANGED <<pc, step, result>> /\ wire = "none" /\ wire' = "written"
    BY <1>9 DEF WriteEndMark
  <2>2. Begun' = Begun
    BY <2>1 DEF Begun, Step, Steps, LastBodyStep
  <2>3. QED
    BY <2>1, <2>2 DEF Contract!vars
<1>10. CASE ServerDecides
  <2>1. /\ UNCHANGED <<pc, step, result>> /\ wire = "written" /\ wire' \in {"took", "refused"}
    BY <1>10 DEF ServerDecides
  <2>2. Begun /\ Begun' = Begun
    BY <2>1 DEF Begun, Step, Steps, LastBodyStep, SendInv, WireFollows
  <2>3. QED
    BY <2>1, <2>2 DEF Contract!Next, Contract!Decide
<1>11. CASE Check
  <2>1. /\ pc = "check" /\ UNCHANGED <<step, wire>> /\ Step' = Step /\ Step = "submission"
        /\ result = "none" /\ ~Begun /\ wire = "none"
    BY <1>11 DEF Check, Step, Steps, SendInv, ResultFollows, WireFollows, Working, Begun
  <2>2. \/ pc' = "halt" /\ result' = "not_sent"
        \/ pc' = "arm" /\ result' = result
    BY <1>11 DEF Check
  <2>3. Begun' = Begun
    BY <2>1, <2>2 DEF Begun
  <2>4. QED
    BY <1>4, <2>1, <2>2, <2>3 DEF Contract!Next, Contract!Conclude
<1>12. CASE Disarm
  <2>1. pc = "disarm" /\ wire' = wire
    BY <1>12 DEF Disarm
  <2>2. result = IF Step = "quit" THEN "ok" ELSE "none"
    BY <2>1 DEF SendInv, ResultFollows, Working
  <2>3. Begun <=> step > LastBodyStep
    BY <2>1, <2>2 DEF Begun
  <2>4. CASE Step = "quit"
    <3>1. pc' = "halt" /\ UNCHANGED <<step, result>> /\ Step' = Step
      BY <1>2, <1>12, <2>4 DEF Disarm, Step, Steps
    <3>2. Begun' = Begun
      BY <1>3, <2>1, <3>1 DEF Begun
    <3>3. QED
      BY <1>4, <2>1, <3>1, <3>2
  <2>5. CASE Step = "submission"
    <3>1. result = "none" /\ Begun
      BY <1>2, <2>2, <2>3, <2>5
    <3>2. \/ got = "ok" /\ result' = "ok" /\ step' = step + 1
          \/ got \in Failure /\ result' = Outcome(Step, got) /\ step' = step /\ pc' = "halt"
      BY <1>2, <1>12, <2>5 DEF Disarm
    <3>3. CASE got = "ok" /\ result' = "ok" /\ step' = step + 1
      <4>1. wire = "took"
        BY <2>1, <2>5, <3>3 DEF SendInv, WireFollows
      <4>2. Begun'
        BY <2>1, <4>1 DEF SendInv, WireFollows
      <4>3. QED
        BY <2>1, <3>1, <3>3, <4>1, <4>2 DEF Contract!Next, Contract!Conclude
    <3>4. CASE got \in Failure /\ result' = Outcome(Step, got) /\ step' = step /\ pc' = "halt"
      <4>1. \/ result' = "rejected" /\ wire = "refused"
            \/ result' = "uncertain"
        BY <2>1, <2>5, <3>4 DEF SendInv, WireFollows, Outcome
      <4>2. Begun'
        BY <1>2, <1>3, <2>5, <3>4, <4>1 DEF Begun
      <4>3. QED
        BY <2>1, <3>1, <4>1, <4>2 DEF Contract!Next, Contract!Conclude
    <3>5. QED
      BY <3>2, <3>3, <3>4
  <2>6. CASE Step \notin {"quit", "submission"}
    <3>1. result = "none" /\ ~Begun /\ step <= LastBodyStep /\ wire = "none"
      BY <1>2, <2>2, <2>3, <2>6 DEF SendInv, WireFollows
    <3>2. CASE step' = step + 1
      <4>1. result' = result /\ (pc' = IF step = LastBodyStep THEN "check" ELSE "arm")
        BY <1>2, <1>12, <2>6, <3>2 DEF Disarm
      <4>2. Begun' = Begun
        BY <1>2, <1>3, <3>1, <3>2, <4>1 DEF Begun
      <4>3. QED
        BY <1>4, <2>1, <3>1, <4>1, <4>2
    <3>3. CASE step' = step /\ result' \in {"not_sent", "auth"}
      <4>1. Begun' = Begun
        BY <1>2, <1>3, <3>1, <3>3 DEF Begun
      <4>2. QED
        BY <2>1, <3>1, <3>3, <4>1 DEF Contract!Next, Contract!Conclude
    <3>4. QED
      BY <1>12, <2>6, <3>2, <3>3 DEF Disarm, Outcome
  <2>7. QED
    BY <2>4, <2>5, <2>6
<1>13. QED
  BY <1>5, <1>6, <1>7, <1>8, <1>9, <1>10, <1>11, <1>12 DEF Next, SendNext

\* Whatever the network, the server, the deadlines and the context do, what Send
\* returns is true of the mail as SmtpContract says: not sent and rejected mean
\* it will not be delivered, ok that it is.
THEOREM SendKeepsContract == Spec => KeepsContract
<1>1. QED
  BY SendInitContract, SendInvariant, SendStepContract, PTL
     DEF Spec, KeepsContract, Contract!Spec

-------------------------------------------------------------------------------
(* A session: the invariant.                                               *)

SessionTyped ==
  /\ at \in {"ready", "select", "shutdown", "grace", "idling", "sleeping"}
  /\ kind \in {"none", "command", "idle", "done", "logout"}
  /\ then \in {"none", "grace", "ok", "rejected", "timeout", "ctx", "closed"}
  /\ outcome \in {"none", "ok", "rejected", "timeout", "ctx", "closed"}
  /\ closed \in BOOLEAN
  /\ cmd \in {"none", "running"}
  /\ answer \in {"none", "ok", "no", "error"}
  /\ done \in {"empty", "ok", "no", "error"}
  /\ decoder \in {"reading", "handling", "failing", "gone"}
  /\ verdict \in {"none", "ok", "no"}
  /\ inbound \in Seq({"exists", "ok", "no"})

Resting == {"ready", "idling", "sleeping"}

\* Where the caller is, and what of the session it has closed.
CallerFollows ==
  /\ closed => at \in {"ready", "shutdown", "grace", "idling"}
  /\ at \in {"shutdown", "grace"} => closed
  /\ at \in {"select", "grace"} => kind # "none"
  /\ at \in Resting => kind = "none"
  /\ at = "shutdown" /\ kind # "none" =>
       /\ then \in {"grace", "timeout", "ctx", "closed"}
       /\ then = "closed" => answer = "error"
  /\ at = "shutdown" /\ kind = "none" =>
       then \in {"ctx", "closed"} \/ (then = outcome /\ then # "none")

\* A session that may send the next command has done with the one before.
DoneWithLast ==
  /\ done # "empty" => cmd = "none" /\ done = answer
  /\ at \in Resting /\ ~closed =>
       /\ cmd = "none"
       /\ answer # "none" \/ verdict = "none"

\* A tagged answer that the decoder has not read yet is the only one, and the
\* server's to the command that runs.
AnswerFollows ==
  /\ answer \in {"ok", "no"} => answer = verdict
  /\ decoder \in {"reading", "handling"} =>
       /\ \A i \in 1..Len(inbound) :
            inbound[i] # "exists" => inbound[i] = verdict /\ answer = "none"
       /\ \A i, j \in 1..Len(inbound) :
            inbound[i] # "exists" /\ inbound[j] # "exists" => i = j

SessionInv == SessionTyped /\ CallerFollows /\ DoneWithLast /\ AnswerFollows

LEMMA SessionInitInv == SessionInit => SessionInv
<1>. SUFFICES ASSUME SessionInit PROVE SessionInv
  OBVIOUS
<1>1. inbound \in Seq({"exists", "ok", "no"}) /\ 1..Len(inbound) = {}
  <2>1. inbound = <<>>
    BY DEF SessionInit
  <2>2. QED
    BY <2>1, EmptySeq
<1>2. SessionTyped
  BY <1>1 DEF SessionInit, SessionTyped
<1>3. CallerFollows /\ DoneWithLast
  BY DEF SessionInit, CallerFollows, DoneWithLast, Resting
<1>4. AnswerFollows
  BY <1>1 DEF SessionInit, AnswerFollows
<1>5. QED
  BY <1>2, <1>3, <1>4 DEF SessionInv

\* What sends a command: the session is open and rests, so nothing of an earlier
\* command is left.
LEMMA StartKeepsInv ==
  ASSUME SessionInv, at \in Resting, ~closed,
         NEW k \in {"command", "idle", "done", "logout"}, StartCommand(k)
  PROVE  SessionInv'
<1>. USE DEF SessionInv, SessionTyped, CallerFollows, DoneWithLast, AnswerFollows, Resting
<1>1. decoder \in {"reading", "handling"} =>
        \A i \in 1..Len(inbound) : inbound[i] = "exists"
  <2>. SUFFICES ASSUME decoder \in {"reading", "handling"}, NEW i \in 1..Len(inbound),
                       inbound[i] # "exists"
                PROVE  FALSE
    OBVIOUS
  <2>1. inbound[i] \in {"exists", "ok", "no"}
    BY ElementOfSeq
  <2>2. QED
    BY <2>1
<1>2. /\ at' = "select" /\ kind' = k /\ outcome' = "none" /\ cmd' = "running"
      /\ done' = "empty" /\ answer' = "none" /\ verdict' = "none"
      /\ UNCHANGED <<then, closed, inbound, decoder>>
  BY DEF StartCommand
<1>3. QED
  BY <1>1, <1>2

\* What the caller does without sending anything.
LEMMA CallerKeepsInv ==
  ASSUME SessionInv, Refuse \/ Sleep \/ ContextEnds \/ TakeResult \/ Deadline \/ SeeClosed
                     \/ GraceEnds \/ EndShutdown \/ Wake \/ WaitBroken
  PROVE  SessionInv'
<1>. USE DEF SessionInv, SessionTyped, CallerFollows, DoneWithLast, AnswerFollows, Resting,
             server, library, bounds, caller
<1>1. CASE Refuse
  BY <1>1 DEF Refuse
<1>2. CASE Sleep
  BY <1>2 DEF Sleep
<1>3. CASE ContextEnds
  BY <1>3 DEF ContextEnds, ShutdownThen
<1>4. CASE TakeResult
  <2>1. /\ done \in {"ok", "no", "error"} /\ done = answer /\ cmd = "none"
        /\ kind # "none" /\ at \in {"select", "grace"}
        /\ UNCHANGED <<cmd, inbound, answer, decoder, verdict>> /\ done' = "empty"
    BY <1>4 DEF TakeResult
  <2>2. CASE done = "error"
    BY <1>4, <2>1, <2>2 DEF TakeResult, Concluded, ShutdownThen
  <2>3. CASE done # "error" /\ kind = "logout"
    BY <1>4, <2>1, <2>3 DEF TakeResult, Concluded, Classified, ShutdownThen
  <2>4. CASE done # "error" /\ kind # "logout"
    BY <1>4, <2>1, <2>4 DEF TakeResult, Concluded, Classified
  <2>5. QED
    BY <2>2, <2>3, <2>4
<1>5. CASE Deadline
  BY <1>5 DEF Deadline, ShutdownThen
<1>6. CASE SeeClosed
  BY <1>6 DEF SeeClosed, ShutdownThen
<1>7. CASE GraceEnds
  BY <1>7 DEF GraceEnds
<1>8. CASE EndShutdown
  BY <1>8 DEF EndShutdown
<1>9. CASE Wake
  BY <1>9 DEF Wake
<1>10. CASE WaitBroken
  BY <1>10 DEF WaitBroken, ShutdownThen
<1>11. QED
  BY <1>1, <1>2, <1>3, <1>4, <1>5, <1>6, <1>7, <1>8, <1>9, <1>10

\* The goroutine of do, the decoder and the goroutine of shutdown.
LEMMA OthersKeepInv ==
  ASSUME SessionInv, FinishCommand \/ FailToWrite \/ CloseClient \/ EndClose \/ Decoder
                     \/ CancelContext \/ UNCHANGED cmdVars
  PROVE  SessionInv'
<1>. USE DEF SessionInv, SessionTyped, CallerFollows, DoneWithLast, AnswerFollows, Resting,
             server, library, bounds, caller
<1>1. CASE FinishCommand
  BY <1>1 DEF FinishCommand
<1>2. CASE FailToWrite
  BY <1>2 DEF FailToWrite
<1>3. CASE CloseClient \/ EndClose \/ CancelContext
  BY <1>3 DEF CloseClient, EndClose, CancelContext
<1>4. CASE Decode
  <2>1. /\ UNCHANGED <<at, kind, then, outcome, closed, cmd, done, verdict>>
        /\ decoder = "reading" /\ inbound # <<>> /\ inbound' = Tail(inbound)
        /\ IF Head(inbound) = "exists" THEN decoder' = "handling" /\ answer' = answer
           ELSE answer' = Head(inbound) /\ decoder' = decoder
    BY <1>4 DEF Decode
  <2>2. /\ 1 \in 1..Len(inbound) /\ Head(inbound) = inbound[1]
        /\ Tail(inbound) \in Seq({"exists", "ok", "no"})
        /\ Head(inbound) \in {"exists", "ok", "no"}
        /\ \A i \in 1..Len(Tail(inbound)) :
             i + 1 \in 1..Len(inbound) /\ Tail(inbound)[i] = inbound[i + 1]
    BY <2>1
  <2>. DEFINE rest == Tail(inbound)
  <2>3. CASE Head(inbound) = "exists"
    <3>1. /\ \A i \in 1..Len(rest) : rest[i] # "exists" => rest[i] = verdict /\ answer = "none"
          /\ \A i, j \in 1..Len(rest) : rest[i] # "exists" /\ rest[j] # "exists" => i = j
      <4>. HIDE DEF rest
      <4>1. \A i \in 1..Len(rest) : i + 1 \in 1..Len(inbound) /\ rest[i] = inbound[i + 1]
        BY <2>2 DEF rest
      <4>2. ASSUME NEW i \in 1..Len(rest), NEW j \in 1..Len(rest),
                   rest[i] # "exists", rest[j] # "exists"
            PROVE  i = j
        <5>1. i + 1 = j + 1
          BY <2>1, <4>1, <4>2
        <5>2. QED
          BY <5>1
      <4>3. QED
        BY <2>1, <4>1, <4>2
    <3>. HIDE DEF rest
    <3>2. inbound' = rest /\ rest \in Seq({"exists", "ok", "no"})
      BY <2>1, <2>2 DEF rest
    <3>3. QED
      BY <2>1, <2>3, <3>1, <3>2
  <2>4. CASE Head(inbound) # "exists"
    <3>1. answer = "none" /\ Head(inbound) = verdict
      BY <2>1, <2>2, <2>4
    <3>2. \A i \in 1..Len(rest) : rest[i] = "exists"
      <4>. HIDE DEF rest
      <4>1. \A i \in 1..Len(rest) : i + 1 \in 1..Len(inbound) /\ rest[i] = inbound[i + 1]
                                   /\ i + 1 # 1
        BY <2>2 DEF rest
      <4>2. QED
        BY <2>1, <2>2, <2>4, <4>1
    <3>. HIDE DEF rest
    <3>3. inbound' = rest /\ rest \in Seq({"exists", "ok", "no"})
      BY <2>1, <2>2 DEF rest
    <3>4. QED
      BY <2>1, <2>2, <2>4, <3>1, <3>2, <3>3
  <2>5. QED
    BY <2>3, <2>4
<1>5. CASE Handle
  BY <1>5 DEF Handle
<1>6. CASE FailPending
  BY <1>6 DEF FailPending
<1>7. CASE LeaveDecoder
  BY <1>7 DEF LeaveDecoder
<1>8. CASE UNCHANGED cmdVars
  BY <1>8 DEF cmdVars
<1>9. QED
  BY <1>1, <1>2, <1>3, <1>4, <1>5, <1>6, <1>7, <1>8 DEF Decoder

LEMMA ServerKeepsInv ==
  ASSUME SessionInv, Server
  PROVE  SessionInv'
<1>. USE DEF SessionInv, SessionTyped, CallerFollows, DoneWithLast, AnswerFollows, Resting,
             server, library, bounds, caller
<1>. DEFINE Answers == {"exists", "ok", "no"}
<1>1. /\ inbound \in Seq(Answers) /\ Len(inbound) \in Nat
      /\ \A i \in 1..Len(inbound) : inbound[i] \in Answers
  BY ElementOfSeq
<1>2. ASSUME NEW x \in Answers
      PROVE  /\ Append(inbound, x) \in Seq(Answers)
             /\ Len(Append(inbound, x)) = Len(inbound) + 1
             /\ \A i \in 1..Len(inbound) : Append(inbound, x)[i] = inbound[i]
             /\ Append(inbound, x)[Len(inbound) + 1] = x
             /\ \A i \in 1..Len(inbound) + 1 : i \in 1..Len(inbound) \/ i = Len(inbound) + 1
  BY <1>1
<1>3. CASE ServerAnswers
  <2>1. /\ UNCHANGED <<at, kind, then, outcome, closed, cmd, done, answer, decoder>>
        /\ cmd = "running" /\ verdict = "none" /\ answer = "none"
        /\ verdict' \in {"ok", "no"} /\ inbound' = Append(inbound, verdict')
    BY <1>3 DEF ServerAnswers
  <2>2. decoder \in {"reading", "handling"} =>
          \A i \in 1..Len(inbound) : inbound[i] = "exists"
    BY <1>1, <2>1
  <2>3. /\ inbound' \in Seq(Answers) /\ Len(inbound') = Len(inbound) + 1
        /\ \A i \in 1..Len(inbound) : inbound'[i] = inbound[i]
        /\ inbound'[Len(inbound) + 1] = verdict'
        /\ \A i \in 1..Len(inbound') : i \in 1..Len(inbound) \/ i = Len(inbound) + 1
    BY <1>2, <2>1
  <2>4. QED
    BY <2>1, <2>2, <2>3
<1>4. CASE ServerPushes
  <2>1. /\ UNCHANGED <<at, kind, then, outcome, closed, cmd, done, answer, decoder, verdict>>
        /\ inbound' = Append(inbound, "exists")
    BY <1>4 DEF ServerPushes
  <2>2. /\ inbound' \in Seq(Answers)
        /\ \A i \in 1..Len(inbound) : inbound'[i] = inbound[i]
        /\ \A i \in 1..Len(inbound') : i \in 1..Len(inbound) \/ inbound'[i] = "exists"
    BY <1>2, <2>1
  <2>3. QED
    BY <2>1, <2>2
<1>5. CASE ServerDrops
  <2>1. /\ UNCHANGED <<at, kind, then, outcome, closed, cmd, done, answer, decoder, verdict>>
        /\ inbound' = inbound \/ (inbound' = <<>> /\ Len(inbound') = 0)
    BY <1>5 DEF ServerDrops
  <2>2. inbound' \in Seq(Answers)
    BY <1>1, <2>1, EmptySeq
  <2>3. QED
    BY <2>1, <2>2
<1>6. QED
  BY <1>3, <1>4, <1>5 DEF Server

LEMMA SessionStepInv == SessionInv /\ [SessionNext]_cmdVars => SessionInv'
<1>. SUFFICES ASSUME SessionInv, [SessionNext]_cmdVars PROVE SessionInv'
  OBVIOUS
<1>1. CASE Command \/ Logout
  <2>1. PICK k \in {"command", "logout"} : at \in Resting /\ ~closed /\ StartCommand(k)
    BY <1>1 DEF Command, Logout, Resting
  <2>2. QED
    BY <2>1, StartKeepsInv
<1>2. CASE Idle
  <2>1. CASE StartCommand("idle")
    BY <1>2, <2>1, StartKeepsInv DEF Idle, Resting
  <2>2. CASE UNCHANGED <<caller, ctxOver, cmd, done, inbound, library, server>>
    BY <2>2 DEF SessionInv, SessionTyped, CallerFollows, DoneWithLast, AnswerFollows,
       Resting, caller, library, server
  <2>3. QED
    BY <1>2, <2>1, <2>2 DEF Idle
<1>3. CASE EndIdle
  <2>1. CASE closed \/ ctxOver
    BY <1>3, <2>1 DEF EndIdle, SessionInv, SessionTyped, CallerFollows, DoneWithLast,
       AnswerFollows, Resting, library, server
  <2>2. CASE ~closed /\ ~ctxOver
    BY <1>3, <2>2, StartKeepsInv DEF EndIdle, Resting
  <2>3. QED
    BY <2>1, <2>2
<1>4. QED
  BY <1>1, <1>2, <1>3, CallerKeepsInv, OthersKeepInv, ServerKeepsInv
     DEF SessionNext, Caller, CallerWaits

\* Where the caller of an IMAP session is, what it has closed, what its command's
\* goroutine has still to say and what the decoder has still to read agree: the
\* session that rests open has done with the command before, and a tagged answer
\* still unread is the only one and answers the command that runs.
THEOREM SessionInvariant == SessionSpec => []SessionInv
<1>1. QED
  BY SessionInitInv, SessionStepInv, PTL DEF SessionSpec

-------------------------------------------------------------------------------
(* A session: each call is one command of the contract.                      *)

LEMMA SessionInitContract == SessionInit => SessionPromise!Init
BY DEF SessionInit, SessionPromise!Init

\* The steps that return a result, or find that there is none to return.
LEMMA CallerKeepsContract ==
  ASSUME SessionInv, SessionInv',
         Refuse \/ ContextEnds \/ TakeResult \/ Deadline \/ SeeClosed
         \/ GraceEnds \/ EndShutdown \/ WaitBroken
  PROVE  [SessionPromise!Next]_(SessionPromise!vars)
<1>. USE DEF SessionPromise!vars, server, library, bounds, caller
<1>. DEFINE shut == closed /\ kind = "none"
            runs == kind # "none"
<1>1. CASE Refuse
  <2>1. /\ kind = "none" /\ kind' = "none"
        /\ runs' = runs /\ shut' = shut /\ verdict' = verdict
        /\ \/ closed /\ outcome' = "closed"
           \/ ~closed /\ outcome' = "ctx"
    BY <1>1 DEF Refuse, SessionInv, CallerFollows, Resting
  <2>2. SessionPromise!Refuse
    BY <2>1 DEF SessionPromise!Refuse
  <2>3. QED
    BY <2>2 DEF SessionPromise!Next
<1>2. CASE ContextEnds \/ Deadline \/ SeeClosed
  <2>1. kind # "none" /\ kind' = kind /\ outcome' = outcome /\ verdict' = verdict
    BY <1>2 DEF ContextEnds, Deadline, SeeClosed, ShutdownThen, SessionInv, CallerFollows
  <2>2. runs' = runs /\ shut' = shut
    BY <2>1
  <2>3. QED
    BY <2>1, <2>2
<1>3. CASE TakeResult
  <2>1. /\ kind # "none" /\ verdict' = verdict
        /\ done \in {"ok", "no", "error"} /\ done = answer
        /\ done \in {"ok", "no"} => done = verdict
    BY <1>3 DEF TakeResult, SessionInv, SessionTyped, CallerFollows, DoneWithLast, AnswerFollows
  <2>2. CASE done = "error"
    <3>1. kind' = kind /\ outcome' = outcome
      BY <1>3, <2>2 DEF TakeResult, Concluded
    <3>2. runs' = runs /\ shut' = shut
      BY <2>1, <3>1
    <3>3. QED
      BY <2>1, <3>1, <3>2
  <2>3. CASE done # "error"
    <3>1. /\ kind' = "none" /\ closed' \in BOOLEAN
          /\ \/ done = "ok" /\ outcome' = "ok"
             \/ done = "no" /\ outcome' = "rejected"
      BY <1>3, <2>1, <2>3 DEF TakeResult, Concluded, Classified, SessionInv, SessionTyped
    <3>2. shut' \in BOOLEAN /\ runs /\ runs' = FALSE
      BY <2>1, <3>1
    <3>3. SessionPromise!Return
      BY <2>1, <3>1, <3>2 DEF SessionPromise!Return
    <3>4. QED
      BY <3>3 DEF SessionPromise!Next
  <2>4. QED
    BY <2>2, <2>3
<1>4. CASE GraceEnds
  <2>1. /\ kind # "none" /\ kind' = "none" /\ outcome' = "closed" /\ verdict' = verdict
        /\ closed' = TRUE
    BY <1>4 DEF GraceEnds, SessionInv, SessionTyped, CallerFollows
  <2>2. runs /\ runs' = FALSE /\ shut' = TRUE
    BY <2>1
  <2>3. SessionPromise!Return
    BY <2>1, <2>2 DEF SessionPromise!Return
  <2>4. QED
    BY <2>3 DEF SessionPromise!Next
<1>5. CASE EndShutdown
  <2>1. closed = TRUE /\ closed' = closed /\ verdict' = verdict
    BY <1>5 DEF EndShutdown, SessionInv, SessionTyped, CallerFollows
  <2>2. CASE then = "grace"
    <3>1. kind' = kind /\ outcome' = outcome
      BY <1>5, <2>2 DEF EndShutdown
    <3>2. runs' = runs /\ shut' = shut
      BY <2>1, <3>1
    <3>3. QED
      BY <2>1, <3>1, <3>2
  <2>3. CASE then # "grace" /\ kind # "none"
    <3>1. kind' = "none" /\ outcome' \in {"timeout", "ctx", "closed"}
      BY <1>5, <2>3 DEF EndShutdown, SessionInv, CallerFollows
    <3>2. runs /\ runs' = FALSE /\ shut' = TRUE
      BY <2>1, <2>3, <3>1
    <3>3. SessionPromise!Return
      BY <2>1, <3>1, <3>2 DEF SessionPromise!Return
    <3>4. QED
      BY <3>3 DEF SessionPromise!Next
  <2>4. CASE then # "grace" /\ kind = "none"
    <3>1. kind' = "none" /\ outcome' \in {outcome, "ctx", "closed"}
      BY <1>5, <2>4 DEF EndShutdown, SessionInv, CallerFollows
    <3>2. ~runs /\ runs' = runs /\ shut' = TRUE
      BY <2>1, <2>4, <3>1
    <3>3. SessionPromise!Close
      BY <2>1, <3>1, <3>2 DEF SessionPromise!Close
    <3>4. QED
      BY <3>3 DEF SessionPromise!Next
  <2>5. QED
    BY <2>2, <2>3, <2>4
<1>6. CASE WaitBroken
  <2>1. /\ kind = "none" /\ kind' = "none" /\ closed' = TRUE
        /\ outcome' = outcome /\ verdict' = verdict
    BY <1>6 DEF WaitBroken, ShutdownThen, SessionInv, CallerFollows, Resting
  <2>2. ~runs /\ runs' = runs /\ shut' = TRUE
    BY <2>1
  <2>3. SessionPromise!Close
    BY <2>1, <2>2 DEF SessionPromise!Close
  <2>4. QED
    BY <2>3 DEF SessionPromise!Next
<1>7. QED
  BY <1>1, <1>2, <1>3, <1>4, <1>5, <1>6

LEMMA StartKeepsContract ==
  ASSUME SessionInv, at \in Resting, ~closed,
         NEW k \in {"command", "idle", "done", "logout"}, StartCommand(k)
  PROVE  SessionPromise!Begin
<1>. DEFINE shut == closed /\ kind = "none"
            runs == kind # "none"
<1>1. /\ kind = "none" /\ kind' # "none" /\ closed' = closed
      /\ verdict' = "none" /\ outcome' = "none"
  BY DEF StartCommand, SessionInv, CallerFollows
<1>2. ~runs /\ runs' = TRUE /\ ~shut /\ shut' = shut
  BY <1>1
<1>3. QED
  BY <1>1, <1>2 DEF SessionPromise!Begin

LEMMA SessionStepContract ==
  SessionInv /\ SessionInv' /\ [SessionNext]_cmdVars
    => [SessionPromise!Next]_(SessionPromise!vars)
<1>. SUFFICES ASSUME SessionInv, SessionInv', [SessionNext]_cmdVars
              PROVE  [SessionPromise!Next]_(SessionPromise!vars)
  OBVIOUS
<1>. DEFINE shut == closed /\ kind = "none"
            runs == kind # "none"
<1>1. CASE Command \/ Logout \/ Idle
  <2>1. CASE UNCHANGED <<caller, server>>
    <3>1. runs' = runs /\ shut' = shut /\ outcome' = outcome /\ verdict' = verdict
      BY <2>1 DEF caller, server
    <3>2. QED
      BY <3>1 DEF SessionPromise!vars
  <2>2. CASE ~UNCHANGED <<caller, server>>
    <3>1. PICK k \in {"command", "idle", "logout"} :
            at \in Resting /\ ~closed /\ StartCommand(k)
      BY <1>1, <2>2 DEF Command, Logout, Idle, Resting
    <3>2. QED
      BY <3>1, StartKeepsContract DEF SessionPromise!Next
  <2>3. QED
    BY <2>1, <2>2
<1>2. CASE EndIdle
  <2>1. CASE closed \/ ctxOver
    <3>1. /\ kind = "none" /\ kind' = "none" /\ closed' = closed /\ verdict' = verdict
          /\ \/ closed /\ outcome' = "closed"
             \/ ~closed /\ outcome' = "ctx"
      BY <1>2, <2>1 DEF EndIdle, SessionInv, CallerFollows, Resting, server
    <3>2. ~runs /\ runs' = runs /\ shut' = shut
      BY <3>1
    <3>3. SessionPromise!Refuse
      BY <3>1, <3>2 DEF SessionPromise!Refuse
    <3>4. QED
      BY <3>3 DEF SessionPromise!Next
  <2>2. CASE ~closed /\ ~ctxOver
    <3>1. SessionPromise!Begin
      BY <1>2, <2>2, StartKeepsContract DEF EndIdle, Resting
    <3>2. QED
      BY <3>1 DEF SessionPromise!Next
  <2>3. QED
    BY <2>1, <2>2
<1>3. CASE ServerAnswers
  <2>1. /\ kind' = kind /\ closed' = closed /\ outcome' = outcome
        /\ verdict = "none" /\ verdict' \in {"ok", "no"}
    BY <1>3 DEF ServerAnswers, caller
  <2>2. runs' = runs /\ shut' = shut
    BY <2>1
  <2>3. SessionPromise!Answer
    BY <2>1, <2>2 DEF SessionPromise!Answer
  <2>4. QED
    BY <2>3 DEF SessionPromise!Next
<1>4. CASE \/ Sleep \/ Wake \/ FinishCommand \/ FailToWrite \/ CloseClient \/ EndClose
           \/ Decoder \/ ServerPushes \/ ServerDrops \/ CancelContext \/ UNCHANGED cmdVars
  <2>1. kind' = kind /\ closed' = closed /\ outcome' = outcome /\ verdict' = verdict
    BY <1>4 DEF Sleep, Wake, FinishCommand, FailToWrite, CloseClient, EndClose, Decoder,
       Decode, Handle, FailPending, LeaveDecoder, ServerPushes, ServerDrops, CancelContext,
       cmdVars, caller, server
  <2>2. runs' = runs /\ shut' = shut
    BY <2>1
  <2>3. QED
    BY <2>1, <2>2 DEF SessionPromise!vars
<1>5. QED
  BY <1>1, <1>2, <1>3, <1>4, CallerKeepsContract
     DEF SessionNext, Caller, CallerWaits, Server

\* What MailFetch takes a command to be holds of every command: the outcomes ok
\* and rejected are the server's own answer to this command (TakeResult), any
\* other outcome leaves the session closed (Deadline, ContextEnds, SeeClosed and
\* the error of Concluded go through shutdown), and a closed session sends nothing.
THEOREM SessionKeepsContract == SessionSpec => KeepsSessionContract
<1>1. QED
  BY SessionInvariant, SessionInitContract, SessionStepContract, PTL
     DEF SessionSpec, KeepsSessionContract, SessionPromise!Spec

\* A goroutine of do that outlives its deadline never runs beside the goroutine of
\* a later command, and do takes a result only from a goroutine that is over.
THEOREM CommandsAreAlone == SessionSpec => CommandsDoNotOverlap
<1>1. SessionInv /\ [SessionNext]_cmdVars =>
        [ /\ (at' = "select" /\ at # "select" => cmd = "none")
          /\ (outcome' \in {"ok", "rejected"} /\ outcome' # outcome /\ kind # "none"
                => cmd = "none") ]_cmdVars
  <2>. SUFFICES ASSUME SessionInv, SessionNext
                PROVE  /\ at' = "select" /\ at # "select" => cmd = "none"
                       /\ outcome' \in {"ok", "rejected"} /\ outcome' # outcome
                            /\ kind # "none" => cmd = "none"
    OBVIOUS
  <2>1. ASSUME at' = "select", at # "select"
        PROVE  cmd = "none"
    <3>1. at \in Resting /\ ~closed
      BY <2>1 DEF SessionNext, Caller, CallerWaits, Refuse, Command, Logout, Idle, Sleep,
         ContextEnds, TakeResult, Concluded, Deadline, SeeClosed, GraceEnds, EndShutdown,
         EndIdle, Wake, WaitBroken, ShutdownThen, FinishCommand, FailToWrite, CloseClient,
         EndClose, Decoder, Decode, Handle, FailPending, LeaveDecoder, Server, ServerAnswers,
         ServerPushes, ServerDrops, CancelContext, caller, Resting
    <3>2. QED
      BY <3>1 DEF SessionInv, DoneWithLast
  <2>2. ASSUME outcome' \in {"ok", "rejected"}, outcome' # outcome, kind # "none"
        PROVE  cmd = "none"
    <3>1. CASE TakeResult
      BY <3>1 DEF TakeResult, SessionInv, DoneWithLast
    <3>2. CASE EndShutdown
      BY <2>2, <3>2 DEF EndShutdown, SessionInv, CallerFollows
    <3>3. CASE ~TakeResult /\ ~EndShutdown
      BY <2>2, <3>3 DEF SessionNext, Caller, CallerWaits, Refuse, Command, Logout, Idle,
         Sleep, StartCommand,
         ContextEnds, Deadline, SeeClosed, GraceEnds,
         EndIdle, Wake, WaitBroken, ShutdownThen, FinishCommand, FailToWrite, CloseClient,
         EndClose, Decoder, Decode, Handle, FailPending, LeaveDecoder, Server, ServerAnswers,
         ServerPushes, ServerDrops, CancelContext, caller
    <3>4. QED
      BY <3>1, <3>2, <3>3
  <2>3. QED
    BY <2>1, <2>2
<1>2. QED
  BY <1>1, SessionInvariant, PTL DEF SessionSpec, CommandsDoNotOverlap

\* A refusal the client has read is reported as a refusal even when do sees the
\* closed connection first: SeeClosed leaves the goroutine IdleStop to deliver it,
\* and an error of the goroutine is never the refusal.
THEOREM RefusalsAreSeen == SessionSpec => RefusalIsSeen
<1>1. SessionInv /\ [SessionNext]_cmdVars =>
        [ kind # "none" /\ kind' = "none" /\ answer = "no"
            => outcome' \in {"rejected", "timeout", "ctx"} ]_cmdVars
  <2>. SUFFICES ASSUME SessionInv, SessionNext, kind # "none", kind' = "none", answer = "no"
                PROVE  outcome' \in {"rejected", "timeout", "ctx"}
    OBVIOUS
  <2>1. CASE TakeResult
    BY <2>1 DEF TakeResult, Concluded, Classified, SessionInv, DoneWithLast
  <2>2. CASE GraceEnds
    BY <2>2 DEF GraceEnds
  <2>3. CASE EndShutdown
    BY <2>3 DEF EndShutdown, SessionInv, CallerFollows
  <2>4. CASE ~TakeResult /\ ~GraceEnds /\ ~EndShutdown
    BY <2>4 DEF SessionNext, Caller, CallerWaits, Refuse, Command, Logout, Idle,
       Sleep, StartCommand, ContextEnds, Deadline, SeeClosed,
       EndIdle, Wake, WaitBroken, ShutdownThen, FinishCommand, FailToWrite, CloseClient,
       EndClose, Decoder, Decode, Handle, FailPending, LeaveDecoder, Server, ServerAnswers,
       ServerPushes, ServerDrops, CancelContext, caller
  <2>5. QED
    BY <2>1, <2>2, <2>3, <2>4
<1>2. QED
  BY <1>1, SessionInvariant, PTL DEF SessionSpec, RefusalIsSeen
===============================================================================
