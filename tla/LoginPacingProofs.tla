--------------------------- MODULE LoginPacingProofs ---------------------------
(***************************************************************************)
(* Proofs about LoginPacing for every value of the Backoff.                *)
(***************************************************************************)
EXTENDS LoginPacing, SequenceTheorems, WellFoundedInduction, TLAPS

\* The pause the server is owed after its i-th LOGIN, when it is over, and when
\* the LOGIN has left the window.
PauseAfter(i) == IF sent[i].refused THEN Max({Initial, AuthPause}) ELSE Initial

PacingTyped ==
  /\ now \in Nat
  /\ pc \in {"top", "sleep", "password", "dial", "login", "serve"}
  /\ pending \in Nat
  /\ wakeAt \in Nat
  /\ logins \in Seq(Nat)
  /\ base \in Nat
  /\ sent \in Seq([at : Nat, refused : BOOLEAN])

LoginsInOrder ==
  /\ \A i \in 1..Len(logins) : logins[i] <= now
  /\ \A i, j \in 1..Len(logins) : i <= j => logins[i] <= logins[j]

SentInOrder == \A i \in 1..Len(sent) : sent[i].at <= now

\* Counted from the end, every LOGIN the server saw is in the list of logins at
\* a time no earlier than the server saw it, or it has left the window.  The
\* LOGIN of a dial still under way is not in the list yet; a dial that failed
\* before LOGIN is in it and only makes the waits longer.
OutOfWindow(j) == sent[Len(sent) - j].at + LoginWindow <= now

InList(j, k) ==
  k < Len(logins) /\ logins[Len(logins) - k] >= sent[Len(sent) - j].at

Counted ==
  /\ pc # "login" => \A j \in 0..(Len(sent) - 1) : OutOfWindow(j) \/ InList(j, j)
  /\ pc = "login" => \A j \in 1..(Len(sent) - 1) : OutOfWindow(j) \/ InList(j, j - 1)

\* At time t the server may see another LOGIN.
SpacedBy(t) == Len(sent) > 0 => t >= sent[Len(sent)].at + PauseAfter(Len(sent))

LimitedBy(t) ==
  Len(sent) >= MaxLogins => t >= sent[Len(sent) - MaxLogins + 1].at + LoginWindow

\* The time a refusal asks for is in pending until it is slept through.
PauseIsPending ==
  /\ pc = "top" /\ Len(sent) > 0 /\ sent[Len(sent)].refused
       => now + pending >= sent[Len(sent)].at + AuthPause
  /\ pc \in {"login", "serve"} => Len(sent) > 0 /\ ~sent[Len(sent)].refused

LimitInv ==
  /\ PacingTyped /\ LoginsInOrder /\ SentInOrder /\ Counted
  /\ LoginsLimited
  /\ pc = "sleep" => LimitedBy(wakeAt)
  /\ pc \in {"password", "dial"} => LimitedBy(now)

SpaceInv ==
  /\ LimitInv
  /\ PauseIsPending
  /\ LoginsSpaced
  /\ pc = "sleep" => SpacedBy(wakeAt)
  /\ pc \in {"password", "dial"} => SpacedBy(now)
-------------------------------------------------------------------------------
(* Least and greatest elements.                                            *)

LEMMA LeastElement ==
  ASSUME NEW T \in SUBSET Nat, T # {}
  PROVE  \E x \in T : \A y \in T : x <= y
<1>. DEFINE R == {ss \in Nat \X Nat : ss[1] < ss[2]}
<1>1. IsWellFoundedOn(R, Nat)
  BY NatLessThanWellFounded DEF OpToRel
<1>2. \A y, z \in Nat : y < z => <<y, z>> \in R
  OBVIOUS
<1>. HIDE DEF R
<1>3. PICK x \in T : \A y \in T : ~(<<y, x>> \in R)
  BY <1>1, WFMin
<1>4. \A y \in T : x <= y
  <2>. TAKE y \in T
  <2>1. x \in Nat /\ y \in Nat /\ ~(y < x)
    BY <1>2, <1>3
  <2>2. QED
    BY <2>1
<1>5. QED
  BY <1>4

LEMMA MinIsLeast ==
  ASSUME NEW T \in SUBSET Nat, T # {}
  PROVE  Min(T) \in T /\ \A y \in T : Min(T) <= y
  BY LeastElement DEF Min

LEMMA MaxOfTwo ==
  ASSUME NEW a \in Int, NEW b \in Int
  PROVE  Max({a, b}) \in {a, b} /\ Max({a, b}) >= a /\ Max({a, b}) >= b
<1>1. \E x \in {a, b} : \A y \in {a, b} : x >= y
  OBVIOUS
<1>2. QED
  BY <1>1 DEF Max

LEMMA MaxOfThree ==
  ASSUME NEW a \in Int, NEW b \in Int, NEW c \in Int
  PROVE  /\ Max({a, b, c}) \in {a, b, c}
         /\ Max({a, b, c}) >= a /\ Max({a, b, c}) >= b /\ Max({a, b, c}) >= c
<1>1. \E x \in {a, b, c} : \A y \in {a, b, c} : x >= y
  OBVIOUS
<1>2. QED
  BY <1>1 DEF Max

LEMMA MinOfTwo ==
  ASSUME NEW a \in Nat, NEW b \in Nat
  PROVE  Min({a, b}) \in {a, b}
  BY MinIsLeast

-------------------------------------------------------------------------------
(* The waits.                                                              *)

\* What is kept of the logins is the end of the list.
LEMMA KeptIsTheEnd ==
  ASSUME PacingTyped, LoginsInOrder
  PROVE  \E k \in 0..Len(logins) :
           /\ Kept \in Seq(Nat) /\ Len(Kept) = Len(logins) - k
           /\ \A i \in 1..Len(Kept) : Kept[i] = logins[i + k]
           /\ \A i \in 1..k : logins[i] + LoginWindow <= now
<1>. DEFINE fresh == {i \in DOMAIN logins : now - logins[i] < LoginWindow}
<1>1. /\ logins \in Seq(Nat) /\ Len(logins) \in Nat /\ DOMAIN logins = 1..Len(logins)
      /\ now \in Nat /\ LoginWindow \in Nat
      /\ \A i \in 1..Len(logins) : logins[i] \in Nat
  BY PacingAssumption DEF PacingTyped
<1>a. /\ fresh \in SUBSET (1..Len(logins)) /\ fresh \in SUBSET Nat
      /\ \A i \in 1..Len(logins) : i \in fresh \/ logins[i] + LoginWindow <= now
  BY <1>1
<1>k. Kept = IF fresh = {} THEN <<>> ELSE SubSeq(logins, Min(fresh), Len(logins))
  BY DEF Kept
<1>. HIDE DEF fresh
<1>2. CASE fresh = {}
  <2>1. Kept = <<>>
    BY <1>2, <1>k
  <2>2. \A i \in 1..Len(logins) : logins[i] + LoginWindow <= now
    BY <1>a, <1>2
  <2>3. Kept \in Seq(Nat) /\ Len(Kept) = 0
    BY <2>1
  <2>4. Len(logins) \in 0..Len(logins) /\ 0 = Len(logins) - Len(logins) /\ 1..0 = {}
    BY <1>1
  <2>5. QED
    BY <2>2, <2>3, <2>4
<1>3. CASE fresh # {}
  <2>. DEFINE m == Min(fresh)
  <2>1. m \in 1..Len(logins) /\ m \in fresh /\ \A i \in fresh : m <= i
    BY <1>a, <1>3, MinIsLeast
  <2>2. Kept = SubSeq(logins, m, Len(logins))
    BY <1>3, <1>k
  <2>3. \A i \in 1..(m - 1) : logins[i] + LoginWindow <= now
    <3>1. ASSUME NEW i \in 1..(m - 1), i \in fresh PROVE FALSE
      BY <1>1, <2>1, <3>1
    <3>2. QED
      BY <1>a, <1>1, <2>1, <3>1
  <2>. HIDE DEF m
  <2>4. /\ Kept \in Seq(Nat) /\ Len(Kept) = Len(logins) - (m - 1)
        /\ \A i \in 1..Len(Kept) : Kept[i] = logins[i + (m - 1)]
    BY <1>1, <2>1, <2>2
  <2>5. m - 1 \in 0..Len(logins)
    BY <1>1, <2>1
  <2>6. QED
    BY <2>3, <2>4, <2>5
<1>4. QED
  BY <1>2, <1>3

LEMMA LoginWaitIsEnough ==
  ASSUME PacingTyped, LoginsInOrder
  PROVE  /\ LoginWait \in Nat
         /\ Len(Kept) > 0 => now + LoginWait >= Kept[Len(Kept)] + Initial
         /\ Len(Kept) >= MaxLogins =>
              now + LoginWait >= Kept[Len(Kept) - MaxLogins + 1] + LoginWindow
<1>. DEFINE n == Len(Kept)
            last == Kept[n] + Initial - now
            oldest == Kept[n - MaxLogins + 1] + LoginWindow - now
<1>1. /\ Kept \in Seq(Nat) /\ n \in Nat /\ now \in Nat
      /\ Initial \in Nat /\ LoginWindow \in Nat /\ MaxLogins \in Nat /\ MaxLogins > 0
  BY KeptIsTheEnd, PacingAssumption DEF PacingTyped
<1>2. LoginWait = IF n = 0 THEN 0
                  ELSE IF n < MaxLogins THEN Max({0, last})
                  ELSE Max({0, last, oldest})
  BY DEF LoginWait
<1>3. n > 0 => Kept[n] \in Nat /\ last \in Int
  BY <1>1
<1>4. n >= MaxLogins => Kept[n - MaxLogins + 1] \in Nat /\ oldest \in Int
  BY <1>1
<1>. HIDE DEF n, last, oldest
<1>5. /\ LoginWait \in Nat
      /\ n > 0 => LoginWait >= last
      /\ n >= MaxLogins => LoginWait >= oldest
  <2>1. CASE n = 0
    BY <1>1, <1>2, <2>1
  <2>2. CASE n > 0 /\ n < MaxLogins
    <3>1. LoginWait = Max({0, last}) /\ last \in Int
      BY <1>1, <1>2, <1>3, <2>2
    <3>2. LoginWait \in {0, last} /\ LoginWait >= 0 /\ LoginWait >= last
      BY <3>1, MaxOfTwo
    <3>3. QED
      BY <1>1, <2>2, <3>1, <3>2
  <2>3. CASE n > 0 /\ n >= MaxLogins
    <3>1. LoginWait = Max({0, last, oldest}) /\ last \in Int /\ oldest \in Int
      BY <1>1, <1>2, <1>3, <1>4, <2>3
    <3>2. 0 \in Int
      OBVIOUS
    <3>3. /\ LoginWait \in {0, last, oldest}
          /\ LoginWait >= 0 /\ LoginWait >= last /\ LoginWait >= oldest
      BY <3>1, <3>2, MaxOfThree, Zenon
    <3>4. QED
      BY <1>1, <2>3, <3>1, <3>3
  <2>4. QED
    BY <1>1, <2>1, <2>2, <2>3
<1>6. QED
  <2>1. last = Kept[n] + Initial - now /\ oldest = Kept[n - MaxLogins + 1] + LoginWindow - now
    BY DEF last, oldest
  <2>2. n > 0 => now + LoginWait >= Kept[n] + Initial
    BY <1>1, <1>3, <1>5, <2>1
  <2>3. n >= MaxLogins => now + LoginWait >= Kept[n - MaxLogins + 1] + LoginWindow
    BY <1>1, <1>4, <1>5, <2>1
  <2>4. QED
    BY <1>5, <2>2, <2>3 DEF n

LEMMA JitterIsLess ==
  ASSUME NEW d \in Nat
  PROVE  Waits(d) \subseteq Nat
<1>1. Jitter \in Int /\ 0 < Jitter /\ Jitter < 100
  BY PacingAssumption
<1>2. d * Jitter \in Nat /\ d * Jitter <= d * 100
  BY <1>1
<1>3. (d * Jitter) \div 100 \in Nat /\ (d * Jitter) \div 100 <= d
  <2>. DEFINE x == d * Jitter
  <2>1. x \in Nat /\ x <= d * 100
    BY <1>2
  <2>. HIDE DEF x
  <2>2. x \div 100 \in Nat /\ x \div 100 <= d
    BY <2>1
  <2>3. QED
    BY <2>2 DEF x
<1>4. QED
  BY <1>3 DEF Waits

LEMMA BackOffTyped ==
  ASSUME base \in Nat, BackOff
  PROVE  pending' \in Nat /\ base' \in Nat
<1>1. Initial \in Nat /\ MaxWait \in Nat
  BY PacingAssumption
<1>2. QED
  BY <1>1, JitterIsLess, MinOfTwo DEF BackOff, NextBase
-------------------------------------------------------------------------------
(* The steps, as far as the window is concerned.                           *)

\* The parts of LimitInv that speak of what has happened.
Past == LoginsInOrder /\ SentInOrder /\ Counted /\ LoginsLimited

LEMMA Numbers ==
  ASSUME PacingTyped
  PROVE  /\ now \in Nat /\ pending \in Nat /\ wakeAt \in Nat /\ base \in Nat
         /\ Initial \in Nat /\ AuthPause \in Nat /\ MaxWait \in Nat
         /\ MaxLogins \in Nat /\ MaxLogins > 0 /\ LoginWindow \in Nat
         /\ Len(logins) \in Nat /\ Len(sent) \in Nat
         /\ \A i \in 1..Len(logins) : logins[i] \in Nat
         /\ \A i \in 1..Len(sent) : sent[i].at \in Nat
<1>1. \A i \in 1..Len(sent) : sent[i] \in [at : Nat, refused : BOOLEAN]
  BY ElementOfSeq DEF PacingTyped
<1>2. \A i \in 1..Len(logins) : logins[i] \in Nat
  BY ElementOfSeq DEF PacingTyped
<1>3. Len(logins) \in Nat /\ Len(sent) \in Nat
  BY LenProperties DEF PacingTyped
<1>4. QED
  BY <1>1, <1>2, <1>3, PacingAssumption DEF PacingTyped

LEMMA SentRecords ==
  ASSUME PacingTyped
  PROVE  /\ Len(sent) \in Nat /\ DOMAIN sent = 1..Len(sent)
         /\ \A i \in 1..Len(sent) : sent[i] \in [at : Nat, refused : BOOLEAN]
  BY ElementOfSeq, LenProperties DEF PacingTyped

\* A refusal marks the last LOGIN and changes no other.
LEMMA RefusalMarks ==
  ASSUME PacingTyped, LoginRefused
  PROVE  /\ Len(sent') = Len(sent)
         /\ \A i \in 1..Len(sent) : sent'[i].at = sent[i].at
         /\ \A i \in 1..Len(sent) : i # Len(sent) => sent'[i] = sent[i]
<1>1. sent' = [sent EXCEPT ![Len(sent)].refused = TRUE]
  BY DEF LoginRefused
<1>2. Len(sent') = Len(sent)
  BY <1>1 DEF PacingTyped
<1>3. QED
  BY <1>1, <1>2, SentRecords

LEMMA TypedStep ==
  ASSUME PacingTyped, LoginsInOrder, PacingNext
  PROVE  PacingTyped'
<1>1. CASE Plan
  <2>1. Kept \in Seq(Nat) /\ LoginWait \in Nat
    BY KeptIsTheEnd, LoginWaitIsEnough
  <2>2. Max({pending, LoginWait}) \in Nat
    <3>1. pending \in Int /\ LoginWait \in Int /\ pending \in Nat
      BY <2>1 DEF PacingTyped
    <3>2. Max({pending, LoginWait}) \in {pending, LoginWait}
      BY <3>1, MaxOfTwo
    <3>3. QED
      BY <2>1, <3>1, <3>2
  <2>3. QED
    BY <1>1, <2>1, <2>2 DEF PacingTyped, Plan
<1>2. CASE SendLogin
  <2>1. [at |-> now, refused |-> FALSE] \in [at : Nat, refused : BOOLEAN]
    BY DEF PacingTyped
  <2>2. sent' \in Seq([at : Nat, refused : BOOLEAN])
    BY <1>2, <2>1 DEF PacingTyped, SendLogin
  <2>3. QED
    BY <1>2, <2>2 DEF PacingTyped, SendLogin
<1>3. CASE DialFails
  BY <1>3, BackOffTyped DEF PacingTyped, DialFails, CountLogin
<1>4. CASE LoginRefused
  <2>1. sent' \in Seq([at : Nat, refused : BOOLEAN])
    <3>. DEFINE n == Len(sent)
                R == [at : Nat, refused : BOOLEAN]
    <3>1. n \in Nat /\ sent \in [1..n -> R]
      BY LenProperties DEF PacingTyped
    <3>2. \A r \in R : [r EXCEPT !.refused = TRUE] \in R
      OBVIOUS
    <3>3. sent' = [sent EXCEPT ![n] = [sent[n] EXCEPT !.refused = TRUE]]
      BY <1>4 DEF LoginRefused
    <3>. HIDE DEF n, R
    <3>4. sent' \in [1..n -> R]
      <4>1. CASE n \in 1..n
        BY <3>1, <3>2, <3>3, <4>1
      <4>2. CASE n \notin 1..n
        BY <3>1, <3>3, <4>2
      <4>3. QED
        BY <4>1, <4>2
    <3>5. QED
      BY <3>1, <3>4, SeqDef DEF R
  <2>2. QED
    BY <1>4, <2>1, PacingAssumption DEF PacingTyped, LoginRefused, CountLogin, Pause
<1>5. CASE LoggedIn
  BY <1>5 DEF PacingTyped, LoggedIn, CountLogin
<1>6. CASE ServeEnds
  BY <1>6, BackOffTyped DEF PacingTyped, ServeEnds
<1>7. CASE Wake \/ Password \/ Healthy \/ Tick
  BY <1>7, PacingAssumption DEF PacingTyped, Wake, Password, Healthy, Tick
<1>8. QED
  BY <1>1, <1>2, <1>3, <1>4, <1>5, <1>6, <1>7 DEF PacingNext

\* A step that neither sends nor counts a LOGIN.
LEMMA CalmKeepsPast ==
  ASSUME PacingTyped, Past, now' \in Nat, now' >= now, UNCHANGED <<logins, sent>>,
         pc' = "login" <=> pc = "login"
  PROVE  Past'
<1>1. LoginsInOrder'
  BY Numbers DEF Past, LoginsInOrder
<1>2. SentInOrder'
  BY Numbers DEF Past, SentInOrder
<1>3. Counted'
  <2>1. \A j \in 0..(Len(sent) - 1) : OutOfWindow(j) => OutOfWindow(j)'
    <3>. SUFFICES ASSUME NEW j \in 0..(Len(sent) - 1), OutOfWindow(j)
                  PROVE  OutOfWindow(j)'
      OBVIOUS
    <3>1. sent[Len(sent) - j].at \in Nat
      BY Numbers
    <3>2. QED
      BY <3>1, Numbers DEF OutOfWindow
  <2>2. \A j, k : InList(j, k) => InList(j, k)'
    BY DEF InList
  <2>3. 1..(Len(sent) - 1) \subseteq 0..(Len(sent) - 1)
    BY Numbers
  <2>4. QED
    BY <2>1, <2>2, <2>3 DEF Past, Counted
<1>4. LoginsLimited'
  BY DEF Past, LoginsLimited
<1>5. QED
  BY <1>1, <1>2, <1>3, <1>4 DEF Past

\* Dial has returned.
LEMMA CountKeepsPast ==
  ASSUME PacingTyped, Past, pc \in {"dial", "login"}, pc' # "login", now' = now,
         logins' = Append(logins, now), Len(sent') = Len(sent),
         \A i \in 1..Len(sent) : sent'[i].at = sent[i].at
  PROVE  Past'
<1>1. /\ Len(logins') = Len(logins) + 1 /\ logins'[Len(logins) + 1] = now
      /\ \A i \in 1..Len(logins) : logins'[i] = logins[i]
  BY DEF PacingTyped
<1>2. LoginsInOrder'
  <2>1. /\ now \in Nat /\ Len(logins) \in Nat
        /\ \A i \in 1..Len(logins) : logins[i] \in Nat /\ logins[i] <= now
        /\ \A i, j \in 1..Len(logins) : i <= j => logins[i] <= logins[j]
    BY Numbers DEF Past, LoginsInOrder
  <2>2. \A i \in 1..Len(logins') : i \in 1..Len(logins) \/ i = Len(logins) + 1
    BY <1>1, <2>1
  <2>3. \A i \in 1..Len(logins') : logins'[i] \in Nat /\ logins'[i] <= now'
    BY <1>1, <2>1, <2>2
  <2>4. ASSUME NEW i \in 1..Len(logins'), NEW j \in 1..Len(logins'), i <= j
        PROVE  logins'[i] <= logins'[j]
    <3>1. CASE j = Len(logins) + 1
      BY <1>1, <2>3, <3>1
    <3>2. CASE j \in 1..Len(logins)
      BY <1>1, <2>1, <2>2, <2>4, <3>2
    <3>3. QED
      BY <2>2, <3>1, <3>2
  <2>5. QED
    BY <2>3, <2>4 DEF LoginsInOrder
<1>3. SentInOrder'
  BY Numbers DEF Past, SentInOrder
<1>4. Counted'
  <2>. SUFFICES ASSUME NEW j \in 0..(Len(sent) - 1)
                PROVE  \/ sent[Len(sent) - j].at + LoginWindow <= now
                       \/ /\ j < Len(logins) + 1
                          /\ logins'[Len(logins) + 1 - j] >= sent[Len(sent) - j].at
    <3>1. \A j \in 0..(Len(sent) - 1) : sent'[Len(sent) - j].at = sent[Len(sent) - j].at
      <4>1. \A j \in 0..(Len(sent) - 1) : Len(sent) - j \in 1..Len(sent)
        BY Numbers
      <4>2. QED
        BY <4>1
    <3>2. QED
      BY <1>1, <3>1 DEF Counted, OutOfWindow, InList
  <2>1. /\ Len(sent) - j \in 1..Len(sent) /\ sent[Len(sent) - j].at \in Nat
        /\ sent[Len(sent) - j].at <= now
    BY Numbers DEF Past, SentInOrder
  <2>2. CASE j = 0
    BY <1>1, <2>1, <2>2, Numbers
  <2>3. CASE pc = "login" /\ j > 0
    <3>1. j \in 1..(Len(sent) - 1)
      BY <2>3, Numbers
    <3>2. \/ sent[Len(sent) - j].at + LoginWindow <= now
          \/ /\ j - 1 < Len(logins)
             /\ logins[Len(logins) - (j - 1)] >= sent[Len(sent) - j].at
      BY <2>3, <3>1 DEF Past, Counted, OutOfWindow, InList
    <3>3. j - 1 < Len(logins) => /\ Len(logins) - (j - 1) \in 1..Len(logins)
                                 /\ Len(logins) + 1 - j = Len(logins) - (j - 1)
      BY <2>3, <3>1, Numbers
    <3>4. QED
      BY <1>1, <3>1, <3>2, <3>3, Numbers
  <2>4. CASE pc = "dial" /\ j > 0
    <3>1. \/ sent[Len(sent) - j].at + LoginWindow <= now
          \/ /\ j < Len(logins)
             /\ logins[Len(logins) - j] >= sent[Len(sent) - j].at
      BY <2>4 DEF Past, Counted, OutOfWindow, InList
    <3>2. j < Len(logins) => /\ Len(logins) - j \in 1..Len(logins)
                             /\ Len(logins) + 1 - j \in 1..Len(logins)
                             /\ Len(logins) - j <= Len(logins) + 1 - j
      BY <2>4, Numbers
    <3>3. j < Len(logins) => /\ logins'[Len(logins) + 1 - j] = logins[Len(logins) + 1 - j]
                             /\ logins[Len(logins) - j] <= logins[Len(logins) + 1 - j]
      BY <1>1, <3>2 DEF Past, LoginsInOrder
    <3>4. j < Len(logins) => /\ logins[Len(logins) - j] \in Nat
                             /\ logins[Len(logins) + 1 - j] \in Nat
      BY <3>2, Numbers
    <3>5. CASE sent[Len(sent) - j].at + LoginWindow <= now
      BY <3>5
    <3>6. CASE j < Len(logins) /\ logins[Len(logins) - j] >= sent[Len(sent) - j].at
      <4>1. j < Len(logins) + 1
        BY <3>6, Numbers
      <4>2. logins[Len(logins) + 1 - j] >= sent[Len(sent) - j].at
        BY <2>1, <3>3, <3>4, <3>6
      <4>3. QED
        BY <3>3, <3>6, <4>1, <4>2
    <3>7. QED
      BY <3>1, <3>5, <3>6
  <2>5. QED
    BY <2>2, <2>3, <2>4
<1>5. LoginsLimited'
  <2>. SUFFICES ASSUME NEW i \in 1..(Len(sent) - MaxLogins)
                PROVE  sent'[i + MaxLogins].at >= sent'[i].at + LoginWindow
    BY DEF LoginsLimited
  <2>1. i \in 1..Len(sent) /\ i + MaxLogins \in 1..Len(sent)
    BY Numbers
  <2>2. QED
    BY <2>1 DEF Past, LoginsLimited
<1>6. QED
  BY <1>2, <1>3, <1>4, <1>5 DEF Past

\* The list of logins is cut: what is dropped has left the window.
LEMMA PlanKeepsPast ==
  ASSUME PacingTyped, Past, Plan
  PROVE  Past' /\ LimitedBy(wakeAt)'
<1>1. /\ logins' = Kept /\ wakeAt' = now + Max({pending, LoginWait})
      /\ now' = now /\ sent' = sent /\ pc = "top" /\ pc' = "sleep"
  BY DEF Plan
<1>2. PICK k \in 0..Len(logins) :
        /\ Kept \in Seq(Nat) /\ Len(Kept) = Len(logins) - k
        /\ \A i \in 1..Len(Kept) : Kept[i] = logins[i + k]
        /\ \A i \in 1..k : logins[i] + LoginWindow <= now
  BY KeptIsTheEnd DEF Past
<1>n. /\ now \in Nat /\ LoginWindow \in Nat /\ MaxLogins \in Nat /\ MaxLogins > 0
      /\ Len(logins) \in Nat /\ Len(sent) \in Nat
  BY Numbers
<1>3. LoginsInOrder'
  <2>1. \A i \in 1..Len(Kept) : i + k \in 1..Len(logins)
    BY <1>2, Numbers
  <2>2. \A i, j \in 1..Len(Kept) : i <= j => i + k <= j + k
    BY <1>2, Numbers
  <2>3. QED
    BY <1>1, <1>2, <2>1, <2>2 DEF Past, LoginsInOrder
<1>4. \A j \in 0..(Len(sent) - 1) : OutOfWindow(j)' \/ InList(j, j)'
  <2>. TAKE j \in 0..(Len(sent) - 1)
  <2>1. OutOfWindow(j)' <=> OutOfWindow(j)
    BY <1>1 DEF OutOfWindow
  <2>2. sent[Len(sent) - j].at \in Nat
    BY Numbers
  <2>3. CASE InList(j, j)
    <3>1. Len(logins) - j \in 1..Len(logins)
      BY <2>3, Numbers DEF InList
    <3>2. CASE Len(logins) - j <= k
      <4>1. logins[Len(logins) - j] \in Nat /\ logins[Len(logins) - j] + LoginWindow <= now
        <5>1. Len(logins) - j \in 1..k
          BY <3>1, <3>2
        <5>2. QED
          BY <1>2, <3>1, <5>1, Numbers
      <4>2. logins[Len(logins) - j] >= sent[Len(sent) - j].at
        BY <2>3 DEF InList
      <4>3. sent[Len(sent) - j].at + LoginWindow <= now
        BY <1>n, <2>2, <4>1, <4>2
      <4>4. QED
        BY <2>1, <4>3 DEF OutOfWindow
    <3>3. CASE Len(logins) - j > k
      <4>1. /\ Len(Kept) - j \in 1..Len(Kept) /\ j < Len(Kept)
            /\ (Len(Kept) - j) + k = Len(logins) - j
        BY <1>2, <3>1, <3>3, Numbers
      <4>2. Kept[Len(Kept) - j] = logins[Len(logins) - j]
        BY <1>2, <4>1
      <4>3. QED
        BY <1>1, <2>3, <4>1, <4>2 DEF InList
    <3>4. QED
      BY <1>2, <3>1, <3>2, <3>3, Numbers
  <2>4. QED
    BY <1>1, <2>1, <2>3 DEF Past, Counted
<1>5. SentInOrder' /\ LoginsLimited' /\ Counted'
  BY <1>1, <1>4 DEF Past, SentInOrder, LoginsLimited, Counted
<1>6. LimitedBy(wakeAt)'
  <2>. SUFFICES ASSUME Len(sent) >= MaxLogins
                PROVE  wakeAt' >= sent[Len(sent) - MaxLogins + 1].at + LoginWindow
    BY <1>1 DEF LimitedBy
  <2>. DEFINE j == MaxLogins - 1
  <2>1. j \in 0..(Len(sent) - 1) /\ Len(sent) - j = Len(sent) - MaxLogins + 1
    BY Numbers
  <2>2. sent[Len(sent) - j].at \in Nat
    BY <2>1, Numbers
  <2>3. LoginWait \in Nat /\ now + LoginWait \in Nat /\ wakeAt' \in Nat
        /\ wakeAt' >= now + LoginWait /\ wakeAt' >= now
    <3>1. LoginWait \in Int /\ pending \in Int /\ LoginWait \in Nat /\ now \in Nat
      BY LoginWaitIsEnough, Numbers DEF Past
    <3>2. Max({pending, LoginWait}) \in {pending, LoginWait} /\ Max({pending, LoginWait}) >= LoginWait
      BY <3>1, MaxOfTwo
    <3>3. QED
      BY <1>1, <3>1, <3>2, Numbers
  <2>4. CASE OutOfWindow(j)'
    <3>1. sent[Len(sent) - j].at + LoginWindow <= now
      BY <1>1, <2>4 DEF OutOfWindow
    <3>. HIDE DEF j
    <3>2. QED
      BY <1>n, <2>1, <2>2, <2>3, <3>1
  <2>5. CASE InList(j, j)'
    <3>1. Len(Kept) >= MaxLogins /\ Kept[Len(Kept) - j] >= sent[Len(sent) - j].at
          /\ Len(Kept) - j = Len(Kept) - MaxLogins + 1
          /\ Len(Kept) - j \in 1..Len(Kept)
      <4>1. j < Len(Kept) /\ Kept[Len(Kept) - j] >= sent[Len(sent) - j].at
        BY <1>1, <2>5 DEF InList
      <4>2. Len(Kept) \in Nat
        BY <1>2, Numbers
      <4>3. QED
        BY <1>n, <4>1, <4>2
    <3>2. Kept[Len(Kept) - j] \in Nat
      BY <1>2, <3>1, ElementOfSeq
    <3>3. now + LoginWait >= Kept[Len(Kept) - j] + LoginWindow
      BY <3>1, LoginWaitIsEnough DEF Past
    <3>. HIDE DEF j
    <3>4. now + LoginWait >= sent[Len(sent) - j].at + LoginWindow
      BY <1>n, <2>2, <2>3, <3>1, <3>2, <3>3
    <3>5. wakeAt' >= sent[Len(sent) - j].at + LoginWindow
      BY <1>n, <2>2, <2>3, <3>4
    <3>6. QED
      BY <2>1, <3>5
  <2>6. QED
    BY <1>4, <2>1, <2>4, <2>5
<1>7. QED
  BY <1>3, <1>5, <1>6 DEF Past

\* What Append does to the LOGINs sent, in the terms the properties use.
LEMMA SendAppends ==
  ASSUME PacingTyped, SendLogin
  PROVE  /\ Len(sent') = Len(sent) + 1
         /\ sent'[Len(sent) + 1] = [at |-> now, refused |-> FALSE]
         /\ \A i \in 1..Len(sent) : sent'[i] = sent[i]
         /\ UNCHANGED <<now, logins, pending, wakeAt>> /\ pc = "dial" /\ pc' = "login"
  BY DEF PacingTyped, SendLogin

LEMMA SendKeepsPast ==
  ASSUME PacingTyped, Past, SendLogin, LimitedBy(now)
  PROVE  Past'
<1>1. LoginsInOrder'
  BY SendAppends DEF Past, LoginsInOrder
<1>2. SentInOrder'
  <2>. SUFFICES ASSUME NEW i \in 1..(Len(sent) + 1)
                PROVE  sent'[i].at <= now
    BY SendAppends DEF SentInOrder
  <2>1. CASE i = Len(sent) + 1
    BY <2>1, SendAppends, Numbers
  <2>2. CASE i \in 1..Len(sent)
    BY <2>2, SendAppends DEF Past, SentInOrder
  <2>3. QED
    BY <2>1, <2>2, Numbers
<1>3. Counted'
  <2>. SUFFICES ASSUME NEW j \in 1..Len(sent)
                PROVE  OutOfWindow(j)' \/ InList(j, j - 1)'
    BY SendAppends, Numbers DEF Counted
  <2>1. /\ j - 1 \in 0..(Len(sent) - 1)
        /\ Len(sent) - (j - 1) \in 1..Len(sent)
        /\ Len(sent) + 1 - j = Len(sent) - (j - 1)
    BY Numbers
  <2>2. sent'[Len(sent') - j] = sent[Len(sent) - (j - 1)]
    BY <2>1, SendAppends
  <2>3. OutOfWindow(j - 1) \/ InList(j - 1, j - 1)
    BY <2>1, SendAppends DEF Past, Counted
  <2>4. QED
    BY <2>2, <2>3, SendAppends DEF OutOfWindow, InList
<1>4. LoginsLimited'
  <2>. SUFFICES ASSUME NEW i \in 1..(Len(sent') - MaxLogins)
                PROVE  sent'[i + MaxLogins].at >= sent'[i].at + LoginWindow
    BY DEF LoginsLimited
  <2>i. i \in 1..(Len(sent) + 1 - MaxLogins)
    <3>1. Len(sent') = Len(sent) + 1
      BY SendAppends
    <3>2. Len(sent) \in Nat /\ Len(sent') \in Nat /\ MaxLogins \in Nat
      BY <3>1, Numbers
    <3>3. QED
      BY <3>1, <3>2
  <2>1. i \in 1..Len(sent) /\ sent'[i] = sent[i]
    BY <2>i, SendAppends, Numbers
  <2>2. CASE i <= Len(sent) - MaxLogins
    <3>1. i \in 1..(Len(sent) - MaxLogins) /\ i + MaxLogins \in 1..Len(sent)
      BY <2>i, <2>2, Numbers
    <3>2. QED
      BY <2>1, <3>1, SendAppends DEF Past, LoginsLimited
  <2>3. CASE i > Len(sent) - MaxLogins
    <3>1. /\ i = Len(sent) - MaxLogins + 1 /\ i + MaxLogins = Len(sent) + 1
          /\ Len(sent) >= MaxLogins
      <4>1. Len(sent) \in Nat /\ MaxLogins \in Nat /\ i \in Nat /\ i >= 1
        BY <2>i, Numbers
      <4>2. QED
        BY <2>i, <2>3, <4>1
    <3>2. sent'[i + MaxLogins].at = now
      BY <3>1, SendAppends
    <3>3. QED
      BY <2>1, <3>1, <3>2 DEF LimitedBy
  <2>4. QED
    BY <2>i, <2>2, <2>3, Numbers
<1>5. QED
  BY <1>1, <1>2, <1>3, <1>4 DEF Past

\* The window's half of the invariant needs nothing of the constants beyond
\* PacingAssumption.
LEMMA LimitStep ==
  ASSUME LimitInv, PacingNext
  PROVE  LimitInv'
<1>1. PacingTyped /\ Past /\ PacingTyped'
  BY TypedStep DEF LimitInv, Past
<1>2. Past'
  <2>1. CASE Plan
    BY <1>1, <2>1, PlanKeepsPast
  <2>2. CASE SendLogin
    BY <1>1, <2>2, SendKeepsPast DEF LimitInv, SendLogin
  <2>3. CASE DialFails \/ LoginRefused \/ LoggedIn
    <3>1. \A i \in 1..Len(sent) : sent'[i].at = sent[i].at
      <4>1. CASE LoginRefused
        BY <1>1, <4>1, RefusalMarks
      <4>2. CASE DialFails \/ LoggedIn
        BY <4>2 DEF DialFails, LoggedIn
      <4>3. QED
        BY <2>3, <4>1, <4>2
    <3>2. Len(sent') = Len(sent)
      BY <1>1, <2>3 DEF PacingTyped, DialFails, LoginRefused, LoggedIn
    <3>3. /\ pc \in {"dial", "login"} /\ pc' # "login" /\ now' = now
          /\ logins' = Append(logins, now)
      BY <2>3 DEF DialFails, LoginRefused, LoggedIn, CountLogin
    <3>4. QED
      BY <1>1, <3>1, <3>2, <3>3, CountKeepsPast
  <2>4. CASE Wake \/ Password \/ Healthy \/ ServeEnds \/ Tick
    <3>1. now' \in Nat /\ now' >= now
      BY <1>1, <2>4, Numbers DEF Wake, Password, Healthy, ServeEnds, Tick
    <3>2. UNCHANGED <<logins, sent>> /\ (pc' = "login" <=> pc = "login")
      BY <2>4 DEF Wake, Password, Healthy, ServeEnds, Tick
    <3>3. QED
      BY <1>1, <3>1, <3>2, CalmKeepsPast
  <2>5. QED
    BY <2>1, <2>2, <2>3, <2>4 DEF PacingNext
<1>3. pc' = "sleep" => LimitedBy(wakeAt)'
  <2>1. CASE Plan
    BY <1>1, <2>1, PlanKeepsPast
  <2>2. CASE ~Plan
    <3>1. pc' = "sleep" => pc = "sleep" /\ UNCHANGED <<wakeAt, sent>>
      BY <2>2 DEF PacingNext, Wake, Password, SendLogin, DialFails, LoginRefused,
                  LoggedIn, Healthy, ServeEnds, Tick
    <3>2. QED
      BY <3>1 DEF LimitInv, LimitedBy
  <2>3. QED
    BY <2>1, <2>2
<1>4. pc' \in {"password", "dial"} => LimitedBy(now)'
  <2>. SUFFICES ASSUME pc' \in {"password", "dial"}, Len(sent) >= MaxLogins
                PROVE  /\ UNCHANGED sent
                       /\ now' >= sent[Len(sent) - MaxLogins + 1].at + LoginWindow
    <3>1. pc' \in {"password", "dial"} => UNCHANGED sent
      BY DEF PacingNext, Plan, Wake, Password, SendLogin, DialFails, LoginRefused,
             LoggedIn, Healthy, ServeEnds, Tick
    <3>2. QED
      BY <3>1 DEF LimitedBy
  <2>1. Wake \/ Password \/ Tick
    BY DEF PacingNext, Plan, Wake, Password, SendLogin, DialFails, LoginRefused,
           LoggedIn, Healthy, ServeEnds, Tick
  <2>2. UNCHANGED sent /\ now' >= now
    BY <1>1, <2>1, Numbers DEF Wake, Password, Tick
  <2>3. sent[Len(sent) - MaxLogins + 1].at \in Nat
    <3>1. Len(sent) - MaxLogins + 1 \in 1..Len(sent)
      BY <1>1, Numbers
    <3>2. QED
      BY <1>1, <3>1, Numbers
  <2>4. CASE Wake
    BY <1>1, <2>2, <2>3, <2>4, Numbers DEF LimitInv, LimitedBy, Wake
  <2>5. CASE Password \/ Tick
    <3>1. pc \in {"password", "dial"}
      BY <2>5 DEF Password, Tick
    <3>2. now >= sent[Len(sent) - MaxLogins + 1].at + LoginWindow
      BY <3>1 DEF LimitInv, LimitedBy
    <3>3. now \in Nat /\ now' \in Nat /\ LoginWindow \in Nat
      BY <1>1, Numbers DEF PacingTyped
    <3>4. QED
      BY <2>2, <2>3, <3>2, <3>3
  <2>6. QED
    BY <2>1, <2>4, <2>5
<1>5. QED
  BY <1>1, <1>2, <1>3, <1>4 DEF LimitInv, Past

LEMMA LimitInit == PacingInit => LimitInv
<1>. SUFFICES ASSUME PacingInit PROVE LimitInv
  OBVIOUS
<1>1. PacingTyped /\ Len(logins) = 0 /\ Len(sent) = 0
  BY DEF PacingInit, PacingTyped
<1>2. MaxLogins \in Nat /\ MaxLogins > 0
  BY PacingAssumption
<1>3. QED
  BY <1>1, <1>2 DEF PacingInit, LimitInv, LoginsInOrder, SentInOrder, Counted,
                    LoginsLimited

\* The inductive invariant of the limiter: counted from the end, the list of
\* logins is never behind what the server has seen, however many dials failed.
THEOREM PacingInvariant == PacingSpec => []LimitInv
<1>1. LimitInv /\ UNCHANGED pacingVars => LimitInv'
  BY DEF LimitInv, PacingTyped, LoginsInOrder, SentInOrder, Counted, OutOfWindow,
         InList, LoginsLimited, LimitedBy, pacingVars
<1>2. LimitInv /\ [PacingNext]_pacingVars => LimitInv'
  BY <1>1, LimitStep
<1>3. QED
  BY <1>2, LimitInit, PTL DEF PacingSpec

\* In no LoginWindow does the server see more than MaxLogins LOGINs, for every
\* Backoff, at whatever moments dials, refusals and sessions end.
THEOREM NeverTooManyLogins == PacingSpec => []LoginsLimited
<1>1. LimitInv => LoginsLimited
  BY DEF LimitInv
<1>2. QED
  BY <1>1, PacingInvariant, PTL

-------------------------------------------------------------------------------
(* Spacing.                                                                *)

\* The code does not compare the two, and with a window shorter than Initial
\* the login that Initial counts from may have left the list.
ShortPause == Initial <= LoginWindow

LEMMA PauseTyped ==
  ASSUME PacingTyped, NEW i
  PROVE  /\ PauseAfter(i) \in Nat /\ PauseAfter(i) >= Initial
         /\ PauseAfter(i) = Initial \/ PauseAfter(i) = AuthPause
         /\ ~sent[i].refused => PauseAfter(i) = Initial
         /\ sent[i].refused => PauseAfter(i) >= AuthPause
<1>1. Initial \in Nat /\ AuthPause \in Nat /\ Initial \in Int /\ AuthPause \in Int
  BY PacingAssumption
<1>2. /\ Max({Initial, AuthPause}) \in {Initial, AuthPause}
      /\ Max({Initial, AuthPause}) >= Initial
      /\ Max({Initial, AuthPause}) >= AuthPause
  BY <1>1, MaxOfTwo
<1>3. QED
  BY <1>1, <1>2 DEF PauseAfter

\* The last LOGIN is far enough in the past when the next one is due.
LEMMA PlanSpaces ==
  ASSUME ShortPause, SpaceInv, Plan
  PROVE  SpacedBy(wakeAt)'
<1>. SUFFICES ASSUME Len(sent) > 0
              PROVE  wakeAt' >= sent[Len(sent)].at + PauseAfter(Len(sent))
  BY DEF Plan, SpacedBy, PauseAfter
<1>1. /\ PacingTyped /\ Past /\ pc = "top"
      /\ logins' = Kept /\ wakeAt' = now + Max({pending, LoginWait})
      /\ now' = now /\ sent' = sent
  BY DEF Plan, SpaceInv, LimitInv, Past
<1>2. /\ now \in Nat /\ LoginWindow \in Nat /\ Initial \in Nat /\ AuthPause \in Nat
      /\ pending \in Nat /\ Len(sent) \in Nat /\ sent[Len(sent)].at \in Nat
  BY <1>1, Numbers
<1>3. /\ LoginWait \in Nat
      /\ Len(Kept) > 0 => now + LoginWait >= Kept[Len(Kept)] + Initial
  BY <1>1, LoginWaitIsEnough DEF Past
<1>4. wakeAt' \in Nat /\ wakeAt' >= now + LoginWait /\ wakeAt' >= now + pending
  <2>1. LoginWait \in Int /\ pending \in Int
    BY <1>2, <1>3
  <2>2. /\ Max({pending, LoginWait}) \in {pending, LoginWait}
        /\ Max({pending, LoginWait}) >= LoginWait
        /\ Max({pending, LoginWait}) >= pending
    BY <2>1, MaxOfTwo
  <2>3. QED
    BY <1>1, <1>2, <1>3, <2>2
<1>5. wakeAt' >= sent[Len(sent)].at + Initial
  <2>1. Past'
    BY <1>1, PlanKeepsPast
  <2>2. OutOfWindow(0)' \/ InList(0, 0)'
    <3>1. 0 \in 0..(Len(sent') - 1) /\ pc' # "login"
      BY <1>1, <1>2 DEF Plan
    <3>2. QED
      BY <2>1, <3>1 DEF Past, Counted
  <2>3. CASE OutOfWindow(0)'
    <3>1. sent[Len(sent)].at + LoginWindow <= now
      BY <1>1, <1>2, <2>3 DEF OutOfWindow
    <3>2. QED
      BY <1>2, <1>3, <1>4, <3>1 DEF ShortPause
  <2>4. CASE InList(0, 0)'
    <3>1. Len(Kept) \in Nat /\ Kept \in Seq(Nat)
      BY <1>1, KeptIsTheEnd DEF Past
    <3>2. Len(Kept) > 0 /\ Kept[Len(Kept)] >= sent[Len(sent)].at
      BY <1>1, <1>2, <2>4, <3>1 DEF InList
    <3>3. Kept[Len(Kept)] \in Nat
      BY <3>1, <3>2, ElementOfSeq
    <3>4. QED
      BY <1>2, <1>3, <1>4, <3>2, <3>3
  <2>5. QED
    BY <2>2, <2>3, <2>4
<1>6. sent[Len(sent)].refused => wakeAt' >= sent[Len(sent)].at + AuthPause
  <2>1. sent[Len(sent)].refused => now + pending >= sent[Len(sent)].at + AuthPause
    BY <1>1 DEF SpaceInv, PauseIsPending
  <2>2. QED
    BY <1>2, <1>4, <2>1
<1>7. QED
  <2>1. PauseAfter(Len(sent)) = Initial \/ PauseAfter(Len(sent)) = AuthPause
    BY <1>1, PauseTyped
  <2>2. sent[Len(sent)].refused \/ PauseAfter(Len(sent)) = Initial
    BY <1>1, PauseTyped
  <2>3. QED
    BY <1>5, <1>6, <2>1, <2>2

\* The pause a refusal asks for survives until Plan: a login that fails without
\* credentials or before LOGIN has already slept through it.
LEMMA PauseStays ==
  ASSUME SpaceInv, PacingNext
  PROVE  PauseIsPending'
<1>1. /\ PacingTyped /\ PacingTyped' /\ PauseIsPending
      /\ SentInOrder
      /\ pc \in {"password", "dial"} => SpacedBy(now)
  BY TypedStep DEF SpaceInv, LimitInv
<1>2. /\ now \in Nat /\ Len(sent) \in Nat /\ AuthPause \in Nat /\ MaxWait \in Nat
      /\ pending' \in Nat /\ pending \in Nat
      /\ Len(sent) > 0 => sent[Len(sent)].at \in Nat /\ sent[Len(sent)].at <= now
  BY <1>1, Numbers DEF PacingTyped, SentInOrder
<1>3. pc \in {"password", "dial"} /\ Len(sent) > 0 /\ sent[Len(sent)].refused
        => now >= sent[Len(sent)].at + AuthPause
  <2>1. /\ PauseAfter(Len(sent)) \in Nat
        /\ sent[Len(sent)].refused => PauseAfter(Len(sent)) >= AuthPause
    BY <1>1, PauseTyped
  <2>2. QED
    BY <1>1, <1>2, <2>1 DEF SpacedBy
<1>4. CASE Plan \/ Wake \/ Tick \/ Healthy \/ LoggedIn
  BY <1>1, <1>2, <1>4 DEF PauseIsPending, Plan, Wake, Tick, Healthy, LoggedIn
<1>5. CASE Password
  BY <1>1, <1>2, <1>3, <1>5 DEF PauseIsPending, Password
<1>6. CASE SendLogin
  <2>1. Len(sent') > 0 /\ sent'[Len(sent')].refused = FALSE /\ pc' = "login"
    <3>1. Len(sent') = Len(sent) + 1 /\ Len(sent) \in Nat
      BY <1>1, <1>2, <1>6, SendAppends
    <3>2. sent'[Len(sent) + 1].refused = FALSE
      BY <1>1, <1>6, SendAppends
    <3>3. QED
      BY <1>6, <3>1, <3>2 DEF SendLogin
  <2>2. QED
    BY <2>1 DEF PauseIsPending
<1>7. CASE DialFails
  BY <1>1, <1>2, <1>3, <1>7 DEF PauseIsPending, DialFails
<1>8. CASE ServeEnds
  BY <1>1, <1>2, <1>8 DEF PauseIsPending, ServeEnds
<1>9. CASE LoginRefused
  <2>1. pending' = AuthPause /\ now' = now /\ pc' = "top" /\ pc = "login"
    BY <1>9 DEF LoginRefused, Pause
  <2>2. Len(sent) > 0 /\ Len(sent') = Len(sent)
    BY <1>1, <1>9, <2>1 DEF PacingTyped, PauseIsPending, LoginRefused
  <2>3. sent'[Len(sent)].at = sent[Len(sent)].at
    BY <1>1, <1>2, <1>9, <2>2, RefusalMarks
  <2>4. QED
    BY <1>2, <2>1, <2>2, <2>3 DEF PauseIsPending
<1>10. QED
  BY <1>4, <1>5, <1>6, <1>7, <1>8, <1>9 DEF PacingNext

LEMMA SpaceStep ==
  ASSUME ShortPause, SpaceInv, PacingNext
  PROVE  SpaceInv'
<1>1. /\ LimitInv /\ LimitInv' /\ PauseIsPending'
      /\ PacingTyped /\ LoginsSpaced /\ PauseIsPending
  BY LimitStep, PauseStays DEF SpaceInv, LimitInv
<1>2. pc' = "sleep" => SpacedBy(wakeAt)'
  <2>1. CASE Plan
    BY <2>1, PlanSpaces
  <2>2. CASE ~Plan
    <3>1. pc' = "sleep" => pc = "sleep" /\ UNCHANGED <<wakeAt, sent>>
      BY <2>2 DEF PacingNext, Wake, Password, SendLogin, DialFails, LoginRefused,
                  LoggedIn, Healthy, ServeEnds, Tick
    <3>2. QED
      BY <3>1 DEF SpaceInv, SpacedBy, PauseAfter
  <2>3. QED
    BY <2>1, <2>2
<1>3. pc' \in {"password", "dial"} => SpacedBy(now)'
  <2>. SUFFICES ASSUME pc' \in {"password", "dial"}
                PROVE  SpacedBy(now)'
    OBVIOUS
  <2>1. Wake \/ Password \/ Tick
    BY DEF PacingNext, Plan, Wake, Password, SendLogin, DialFails, LoginRefused,
           LoggedIn, Healthy, ServeEnds, Tick
  <2>2. UNCHANGED sent /\ now' >= now /\ now \in Nat /\ now' \in Nat /\ wakeAt \in Nat
    BY <1>1, <2>1, Numbers DEF Wake, Password, Tick
  <2>. DEFINE due == sent[Len(sent)].at + PauseAfter(Len(sent))
  <2>3. Len(sent) > 0 => due \in Nat
    BY <1>1, Numbers, PauseTyped
  <2>4. Len(sent) > 0 => now' >= due
    <3>1. CASE Wake
      <4>1. now >= wakeAt /\ (Len(sent) > 0 => wakeAt >= due)
        BY <3>1 DEF Wake, SpaceInv, SpacedBy
      <4>. HIDE DEF due
      <4>2. QED
        BY <2>2, <2>3, <4>1
    <3>2. CASE Password \/ Tick
      <4>1. Len(sent) > 0 => now >= due
        BY <2>1, <3>2 DEF Password, Tick, SpaceInv, SpacedBy
      <4>. HIDE DEF due
      <4>2. QED
        BY <2>2, <2>3, <4>1
    <3>3. QED
      BY <2>1, <3>1, <3>2
  <2>5. QED
    BY <2>2, <2>4 DEF SpacedBy, PauseAfter
<1>4. LoginsSpaced'
  <2>. SUFFICES ASSUME NEW i \in 1..(Len(sent') - 1)
                PROVE  sent'[i + 1].at >= sent'[i].at + PauseAfter(i)'
    BY DEF LoginsSpaced, PauseAfter
  <2>1. \A j \in 1..(Len(sent) - 1) : sent[j + 1].at >= sent[j].at + PauseAfter(j)
    BY <1>1 DEF LoginsSpaced, PauseAfter
  <2>2. CASE SendLogin
    <3>1. /\ Len(sent') = Len(sent) + 1 /\ Len(sent) \in Nat /\ i \in 1..Len(sent)
          /\ sent'[Len(sent) + 1].at = now /\ sent'[i] = sent[i]
      BY <1>1, <2>2, SendAppends, Numbers
    <3>2. PauseAfter(i)' = PauseAfter(i)
      BY <3>1 DEF PauseAfter
    <3>3. CASE i = Len(sent)
      BY <2>2, <3>1, <3>2, <3>3 DEF SendLogin, SpaceInv, SpacedBy
    <3>4. CASE i # Len(sent)
      <4>1. i \in 1..(Len(sent) - 1) /\ i + 1 \in 1..Len(sent)
        BY <3>1, <3>4
      <4>2. sent'[i + 1] = sent[i + 1]
        BY <1>1, <2>2, <4>1, SendAppends
      <4>3. QED
        BY <2>1, <3>1, <3>2, <4>1, <4>2
    <3>5. QED
      BY <3>3, <3>4
  <2>3. CASE LoginRefused
    <3>1. Len(sent') = Len(sent) /\ Len(sent) \in Nat
      BY <1>1, <2>3, RefusalMarks, Numbers
    <3>2. /\ i \in 1..(Len(sent) - 1) /\ i \in 1..Len(sent) /\ i + 1 \in 1..Len(sent)
          /\ i # Len(sent)
      BY <3>1
    <3>3. sent'[i] = sent[i] /\ sent'[i + 1].at = sent[i + 1].at
      BY <1>1, <2>3, <3>2, RefusalMarks
    <3>4. QED
      BY <2>1, <3>2, <3>3 DEF PauseAfter
  <2>4. CASE UNCHANGED sent
    BY <1>1, <2>4 DEF LoginsSpaced, PauseAfter
  <2>5. QED
    BY <2>2, <2>3, <2>4 DEF PacingNext, Plan, Wake, Password, DialFails, LoggedIn,
                            Healthy, ServeEnds, Tick
<1>5. QED
  BY <1>1, <1>2, <1>3, <1>4 DEF SpaceInv

\* No two LOGINs come closer than Initial, and none comes before AuthPause has
\* passed since a refused one, when the window is not shorter than Initial (it
\* is an hour to 15 seconds by default).
THEOREM NeverTooSoon == ASSUME ShortPause PROVE PacingSpec => []LoginsSpaced
<1>1. PacingInit => SpaceInv
  <2>. SUFFICES ASSUME PacingInit PROVE SpaceInv
    OBVIOUS
  <2>1. LimitInv /\ Len(sent) = 0
    BY LimitInit DEF PacingInit
  <2>2. QED
    BY <2>1 DEF PacingInit, SpaceInv, PauseIsPending, LoginsSpaced
<1>2. SpaceInv /\ UNCHANGED pacingVars => SpaceInv'
  BY DEF SpaceInv, LimitInv, PacingTyped, LoginsInOrder, SentInOrder, Counted,
         OutOfWindow, InList, LoginsLimited, LimitedBy, PauseIsPending, LoginsSpaced,
         SpacedBy, PauseAfter, pacingVars
<1>3. SpaceInv /\ [PacingNext]_pacingVars => SpaceInv'
  BY <1>2, SpaceStep
<1>4. SpaceInv => LoginsSpaced
  BY DEF SpaceInv
<1>5. QED
  BY <1>1, <1>3, <1>4, PTL DEF PacingSpec
===============================================================================
