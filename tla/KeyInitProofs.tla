------------------------------ MODULE KeyInitProofs ----------------------------
(***************************************************************************)
(* Proofs about KeyInit for every number of inits, keys and interruptions. *)
(***************************************************************************)
EXTENDS KeyInit, TLAPS

Stages == {"begin", "open", "ask", "config", "set", "set_check", "lookup",
           "verify", "find", "add", "add_command", "add_check", "add_failed",
           "adopt", "register", "compare", "done", "failed"}

\* The stages of ensureKey.
KeyStages == {"lookup", "verify", "find", "add", "add_command", "add_check",
              "add_failed", "adopt", "register", "compare"}

Purpose == {"token", "payload"}

InitTyped ==
  /\ config \in BOOLEAN /\ instance \in BOOLEAN
  /\ authItem \in Inits \cup {"none"}
  /\ keyItem \in [Purpose -> Nat]
  /\ registered \in [Purpose -> Nat]
  /\ pc \in [Inits -> Stages]
  /\ needConfig \in [Inits -> BOOLEAN]
  /\ code \in [Inits -> BOOLEAN]
  /\ nth \in [Inits -> {1, 2}]
  /\ key \in [Inits -> Nat]
  /\ generated \in Nat
  /\ faults \in Nat

\* What init has made sure of by the stage it is in; nothing of it is undone by
\* the other inits.
ConfigAndCode(i) ==
  /\ pc[i] \notin {"begin", "failed"} /\ ~needConfig[i] => config
  /\ pc[i] \in {"set", "set_check", "done"} \cup KeyStages => config
  /\ pc[i] \notin {"begin", "failed", "open"} => instance
  /\ pc[i] \in {"config", "set"} /\ ~code[i] => authItem # "none"
  /\ pc[i] \in {"set_check", "done"} \cup KeyStages => authItem # "none"

KeysSoFar(i) ==
  /\ pc[i] \notin {"begin", "done", "failed"} \cup KeyStages => nth[i] = 1
  /\ pc[i] \in KeyStages /\ nth[i] = 2 => registered["token"] # None
  /\ pc[i] \in {"verify", "compare"} => registered[P(i)] # None
  /\ pc[i] = "done" => \A p \in Purpose : registered[p] # None

\* The key an init is about to create exists, and the one it is about to
\* register is the one that is in the Keychain.
KeyInHand(i) ==
  /\ pc[i] \in {"add", "add_command", "add_check"} => key[i] # None
  /\ pc[i] = "adopt" => keyItem[P(i)] # None
  /\ pc[i] = "register" => keyItem[P(i)] # None /\ key[i] = keyItem[P(i)]

KeysAgree ==
  /\ InitTyped
  /\ \A p \in Purpose : registered[p] # None => keyItem[p] = registered[p]
  /\ \A i \in Inits : ConfigAndCode(i) /\ KeysSoFar(i) /\ KeyInHand(i)

\* An init that succeeded left a complete installation (the safety half of
\* InitSucceeds).
UsableWhenDone == \A i \in Inits : pc[i] = "done" => Complete

-------------------------------------------------------------------------------
LEMMA PurposeTable ==
  /\ Len(Purposes) = 2
  /\ \A i \in Inits : /\ nth[i] = 1 => P(i) = "token"
                      /\ nth[i] = 2 => P(i) = "payload"
  BY DEF Purposes, P, Purpose

\* What a step of init i leaves alone: the locals of the others, every item and
\* every registered key.
Frame(i) ==
  /\ \A j \in Inits : j # i => /\ pc'[j] = pc[j]
                               /\ needConfig'[j] = needConfig[j] /\ code'[j] = code[j]
                               /\ nth'[j] = nth[j] /\ key'[j] = key[j]
  /\ config => config'
  /\ instance => instance'
  /\ authItem # "none" => authItem' # "none"
  /\ \A p \in Purpose : keyItem[p] # None => keyItem'[p] = keyItem[p]
  /\ \A p \in Purpose : registered[p] # None => registered'[p] = registered[p]

LEMMA AtMoves ==
  ASSUME InitTyped, NEW i \in Inits, NEW from, NEW to \in Stages, At(i, from, to)
  PROVE  /\ pc[i] = from /\ pc'[i] = to
         /\ pc' \in [Inits -> Stages]
         /\ \A j \in Inits : j # i => pc'[j] = pc[j]
  BY DEF InitTyped, At

\* Going on with the next purpose, or being done.
LEMMA NextPurposeMoves ==
  ASSUME InitTyped, NEW i \in Inits, NEW from, NextPurpose(i, from)
  PROVE  /\ pc[i] = from /\ pc' \in [Inits -> Stages]
         /\ nth' \in [Inits -> {1, 2}]
         /\ \/ nth[i] = 1 /\ nth'[i] = 2 /\ pc'[i] = "lookup"
            \/ nth[i] = 2 /\ nth'[i] = 2 /\ pc'[i] = "done"
         /\ \A j \in Inits : j # i => pc'[j] = pc[j] /\ nth'[j] = nth[j]
<1>1. "lookup" \in Stages /\ "done" \in Stages
  BY DEF Stages
<1>2. nth \in [Inits -> {1, 2}]
  BY DEF InitTyped
<1>3. CASE nth[i] < Len(Purposes)
  BY <1>1, <1>2, <1>3, PurposeTable, AtMoves DEF NextPurpose
<1>4. CASE ~(nth[i] < Len(Purposes))
  BY <1>1, <1>2, <1>4, PurposeTable, AtMoves DEF NextPurpose
<1>5. QED
  BY <1>3, <1>4

\* What the other inits have made sure of stays.
LEMMA OthersKeep ==
  ASSUME KeysAgree, NEW i \in Inits, Frame(i), NEW j \in Inits, j # i
  PROVE  ConfigAndCode(j)' /\ KeysSoFar(j)' /\ KeyInHand(j)'
<1>1. /\ ConfigAndCode(j) /\ KeysSoFar(j) /\ KeyInHand(j)
      /\ P(j) \in Purpose
  BY PurposeTable DEF KeysAgree, InitTyped, Purpose
<1>2. P(j)' = P(j)
  BY DEF Frame, P
<1>3. ConfigAndCode(j)'
  BY <1>1 DEF Frame, ConfigAndCode
<1>4. KeysSoFar(j)'
  BY <1>1, <1>2 DEF Frame, KeysSoFar, Purpose
<1>5. KeyInHand(j)'
  BY <1>1, <1>2 DEF Frame, KeyInHand
<1>6. QED
  BY <1>3, <1>4, <1>5

-------------------------------------------------------------------------------
(* The steps of initialize and of ensureKey.                               *)

Held == \A p \in Purpose : registered[p] # None => keyItem[p] = registered[p]

Kept(i) == InitTyped' /\ Frame(i) /\ ConfigAndCode(i)' /\ KeysSoFar(i)' /\ KeyInHand(i)' /\ Held'

\* initialize: the installation and the configuration file.
LEMMA InstallKeeps ==
  ASSUME KeysAgree, NEW i \in Inits, Begin(i) \/ EnsureInstance(i) \/ CreateFile(i)
  PROVE  Kept(i)
<1>. USE PurposeTable, AtMoves, NextPurposeMoves DEF Stages, KeyStages, None
<1>1. /\ InitTyped /\ ConfigAndCode(i) /\ KeysSoFar(i) /\ KeyInHand(i) /\ Held
      /\ nth[i] \in {1, 2} /\ P(i) \in Purpose
  BY DEF KeysAgree, Held, InitTyped, Purpose
<1>2. InitTyped'
  <2>1. CASE Begin(i)
    <3>1. needConfig' \in [Inits -> BOOLEAN]
      BY <1>1, <2>1, Zenon DEF Begin, InitTyped
    <3>2. QED
      BY <1>1, <2>1, <3>1 DEF Begin, InitTyped, shared
  <2>2. CASE EnsureInstance(i) \/ CreateFile(i)
    <3>1. config' \in BOOLEAN /\ instance' \in BOOLEAN
      <4>1. config \in BOOLEAN /\ instance \in BOOLEAN
        BY <1>1 DEF InitTyped
      <4>2. QED
        BY <2>2, <4>1, Zenon DEF EnsureInstance, CreateFile
    <3>2. QED
      BY <1>1, <2>2, <3>1 DEF EnsureInstance, CreateFile, InitTyped, locals
  <2>3. QED
    BY <2>1, <2>2
<1>3. Frame(i)
  BY <1>1, InitAssumption DEF Begin, EnsureInstance, CreateFile, InitTyped, Frame, shared, locals, CreateItem
<1>4. ConfigAndCode(i)'
  <2>1. CASE Begin(i)
    <3>1. needConfig'[i] = ~config
      <4>1. DOMAIN needConfig = Inits
        BY <1>1, Zenon DEF InitTyped
      <4>2. QED
        BY <2>1, <4>1, Zenon DEF Begin
    <3>2. QED
      BY <1>1, <2>1, <3>1 DEF Begin, ConfigAndCode, shared
  <2>2. CASE EnsureInstance(i) \/ CreateFile(i)
    BY <1>1, <2>2 DEF EnsureInstance, CreateFile, InitTyped, ConfigAndCode, locals
  <2>3. QED
    BY <2>1, <2>2
<1>5. KeysSoFar(i)'
  BY <1>1 DEF Begin, EnsureInstance, CreateFile, InitTyped, KeysSoFar, P, Purpose, shared, locals
<1>6. KeyInHand(i)'
  BY <1>1 DEF Begin, EnsureInstance, CreateFile, InitTyped, KeyInHand, P, shared, locals, CreateItem
<1>7. Held'
  BY <1>1 DEF Begin, EnsureInstance, CreateFile, InitTyped, Held, KeyInHand, shared, CreateItem
<1>8. QED
  BY <1>2, <1>3, <1>4, <1>5, <1>6, <1>7 DEF Kept

\* initialize: the authorization code.
LEMMA AuthCodeKeeps ==
  ASSUME KeysAgree, NEW i \in Inits, AskAuthCode(i) \/ SetAuthCode(i) \/ CheckAuthCode(i)
  PROVE  Kept(i)
<1>. USE PurposeTable, AtMoves, NextPurposeMoves DEF Stages, KeyStages, None
<1>1. /\ InitTyped /\ ConfigAndCode(i) /\ KeysSoFar(i) /\ KeyInHand(i) /\ Held
      /\ nth[i] \in {1, 2} /\ P(i) \in Purpose
  BY DEF KeysAgree, Held, InitTyped, Purpose
<1>2. InitTyped'
  <2>1. faults' \in Nat
    BY <1>1 DEF AskAuthCode, SetAuthCode, CheckAuthCode, InitTyped, Fault
  <2>2. code' \in [Inits -> BOOLEAN]
    <3>1. CASE AskAuthCode(i)
      <4>1. PICK c \in BOOLEAN : code' = [code EXCEPT ![i] = c]
        BY <3>1, Zenon DEF AskAuthCode
      <4>2. code \in [Inits -> BOOLEAN]
        BY <1>1 DEF InitTyped
      <4>3. QED
        BY <4>1, <4>2, Zenon
    <3>2. CASE SetAuthCode(i) \/ CheckAuthCode(i)
      BY <1>1, <3>2 DEF SetAuthCode, CheckAuthCode, InitTyped, locals
    <3>3. QED
      BY <3>1, <3>2
  <2>3. QED
    BY <1>1, <2>1, <2>2 DEF AskAuthCode, SetAuthCode, CheckAuthCode, InitTyped, shared, locals
<1>3. Frame(i)
  BY <1>1, InitAssumption DEF AskAuthCode, SetAuthCode, CheckAuthCode, InitTyped, Frame, shared, locals, CreateItem
<1>4. ConfigAndCode(i)'
  BY <1>1, InitAssumption DEF AskAuthCode, SetAuthCode, CheckAuthCode, InitTyped, ConfigAndCode, shared, locals
<1>5. KeysSoFar(i)'
  BY <1>1 DEF AskAuthCode, SetAuthCode, CheckAuthCode, InitTyped, KeysSoFar, P, Purpose, shared, locals
<1>6. KeyInHand(i)'
  BY <1>1 DEF AskAuthCode, SetAuthCode, CheckAuthCode, InitTyped, KeyInHand, P, shared, locals, CreateItem
<1>7. Held'
  BY <1>1 DEF AskAuthCode, SetAuthCode, CheckAuthCode, InitTyped, Held, KeyInHand, shared, CreateItem
<1>8. QED
  BY <1>2, <1>3, <1>4, <1>5, <1>6, <1>7 DEF Kept

\* ensureKey: looking, without changing anything but the stage.
LEMMA LookKeeps ==
  ASSUME KeysAgree, NEW i \in Inits, RegisteredKey(i) \/ LookBeforeAdd(i) \/ LookAfterAdd(i) \/ ReadBack(i)
  PROVE  Kept(i)
<1>. USE PurposeTable, AtMoves, NextPurposeMoves DEF Stages, KeyStages, None
<1>1. /\ InitTyped /\ ConfigAndCode(i) /\ KeysSoFar(i) /\ KeyInHand(i) /\ Held
      /\ nth[i] \in {1, 2} /\ P(i) \in Purpose
  BY DEF KeysAgree, Held, InitTyped, Purpose
<1>2. InitTyped'
  BY <1>1, InitAssumption DEF RegisteredKey, LookBeforeAdd, LookAfterAdd, ReadBack, InitTyped, shared, locals, Fault, CreateItem
<1>3. Frame(i)
  BY <1>1, InitAssumption DEF RegisteredKey, LookBeforeAdd, LookAfterAdd, ReadBack, InitTyped, Frame, shared, locals, CreateItem
<1>4. ConfigAndCode(i)'
  BY <1>1, InitAssumption DEF RegisteredKey, LookBeforeAdd, LookAfterAdd, ReadBack, InitTyped, ConfigAndCode, shared, locals
<1>5. KeysSoFar(i)'
  BY <1>1 DEF RegisteredKey, LookBeforeAdd, LookAfterAdd, ReadBack, InitTyped, KeysSoFar, P, Purpose, shared, locals
<1>6. KeyInHand(i)'
  BY <1>1 DEF RegisteredKey, LookBeforeAdd, LookAfterAdd, ReadBack, InitTyped, KeyInHand, P, shared, locals, CreateItem
<1>7. Held'
  BY <1>1 DEF RegisteredKey, LookBeforeAdd, LookAfterAdd, ReadBack, InitTyped, Held, KeyInHand, shared, CreateItem
<1>8. QED
  BY <1>2, <1>3, <1>4, <1>5, <1>6, <1>7 DEF Kept

\* findOrAddKey: the key and its item.
LEMMA ItemKeeps ==
  ASSUME KeysAgree, NEW i \in Inits, FindKey(i) \/ AddCommand(i) \/ Adopt(i)
  PROVE  Kept(i)
<1>. USE PurposeTable, AtMoves, NextPurposeMoves DEF Stages, KeyStages, None
<1>1. /\ InitTyped /\ ConfigAndCode(i) /\ KeysSoFar(i) /\ KeyInHand(i) /\ Held
      /\ nth[i] \in {1, 2} /\ P(i) \in Purpose
  BY DEF KeysAgree, Held, InitTyped, Purpose
<1>2. InitTyped'
  BY <1>1, InitAssumption DEF FindKey, AddCommand, Adopt, InitTyped, shared, locals, Fault, CreateItem
<1>3. Frame(i)
  BY <1>1, InitAssumption DEF FindKey, AddCommand, Adopt, InitTyped, Frame, shared, locals, CreateItem
<1>4. ConfigAndCode(i)'
  BY <1>1, InitAssumption DEF FindKey, AddCommand, Adopt, InitTyped, ConfigAndCode, shared, locals
<1>5. KeysSoFar(i)'
  BY <1>1 DEF FindKey, AddCommand, Adopt, InitTyped, KeysSoFar, P, Purpose, shared, locals
<1>6. KeyInHand(i)'
  BY <1>1 DEF FindKey, AddCommand, Adopt, InitTyped, KeyInHand, P, shared, locals, CreateItem
<1>7. Held'
  BY <1>1 DEF FindKey, AddCommand, Adopt, InitTyped, Held, KeyInHand, shared, CreateItem
<1>8. QED
  BY <1>2, <1>3, <1>4, <1>5, <1>6, <1>7 DEF Kept

\* ensureKey: registering, and finding the key registered.
LEMMA RegisterKeeps ==
  ASSUME KeysAgree, NEW i \in Inits, VerifyKey(i) \/ RegisterKey(i) \/ CompareKey(i)
  PROVE  Kept(i)
<1>. USE PurposeTable, AtMoves, NextPurposeMoves DEF Stages, KeyStages, None
<1>1. /\ InitTyped /\ ConfigAndCode(i) /\ KeysSoFar(i) /\ KeyInHand(i) /\ Held
      /\ nth[i] \in {1, 2} /\ P(i) \in Purpose
  BY DEF KeysAgree, Held, InitTyped, Purpose
<1>2. InitTyped'
  BY <1>1, InitAssumption DEF VerifyKey, RegisterKey, CompareKey, InitTyped, shared, locals, Fault, CreateItem
<1>3. Frame(i)
  BY <1>1, InitAssumption DEF VerifyKey, RegisterKey, CompareKey, InitTyped, Frame, shared, locals, CreateItem
<1>4. ConfigAndCode(i)'
  BY <1>1, InitAssumption DEF VerifyKey, RegisterKey, CompareKey, InitTyped, ConfigAndCode, shared, locals
<1>5. KeysSoFar(i)'
  <2>1. /\ nth[i] = 1 => P(i) = "token"
        /\ nth[i] = 2 => P(i) = "payload"
        /\ nth'[i] = 1 => P(i)' = "token"
        /\ nth'[i] = 2 => P(i)' = "payload"
    BY DEF P, Purposes
  <2>2. /\ registered[P(i)] # None \/ registered'[P(i)] # None
        /\ \A p \in Purpose : registered[p] # None => registered'[p] # None
        /\ registered'[P(i)] # None
    BY <1>1 DEF VerifyKey, RegisterKey, CompareKey, InitTyped, KeysSoFar, KeyInHand, shared
  <2>3. \/ pc'[i] \in {"lookup", "done", "failed", "compare"}
    BY <1>1 DEF VerifyKey, RegisterKey, CompareKey
  <2>4. CASE pc'[i] \in {"lookup", "done"}
    <3>1. NextPurpose(i, "verify") \/ NextPurpose(i, "register") \/ NextPurpose(i, "compare")
      BY <1>1, <2>4 DEF VerifyKey, RegisterKey, CompareKey
    <3>2. pc[i] \in KeyStages
      BY <1>1, <3>1
    <3>3. QED
      BY <1>1, <2>1, <2>2, <2>4, <3>1, <3>2 DEF KeysSoFar, Purpose
  <2>5. CASE pc'[i] = "compare"
    BY <1>1, <2>1, <2>2, <2>5 DEF RegisterKey, VerifyKey, CompareKey, KeysSoFar, Purpose
  <2>6. CASE pc'[i] = "failed"
    <3>1. nth'[i] = nth[i]
      BY <1>1, <2>6 DEF VerifyKey, RegisterKey, CompareKey
    <3>2. QED
      BY <1>1, <2>6 DEF KeysSoFar
  <2>7. QED
    BY <2>3, <2>4, <2>5, <2>6
<1>6. KeyInHand(i)'
  BY <1>1 DEF VerifyKey, RegisterKey, CompareKey, InitTyped, KeyInHand, P, shared, locals, CreateItem
<1>7. Held'
  BY <1>1 DEF VerifyKey, RegisterKey, CompareKey, InitTyped, Held, KeyInHand, shared, CreateItem
<1>8. QED
  BY <1>2, <1>3, <1>4, <1>5, <1>6, <1>7 DEF Kept

\* An end before the end, and another run.
LEMMA StopKeeps ==
  ASSUME KeysAgree, NEW i \in Inits, RunAgain(i) \/ Stop(i)
  PROVE  Kept(i)
<1>. USE PurposeTable, AtMoves, NextPurposeMoves DEF Stages, KeyStages, None
<1>1. /\ InitTyped /\ ConfigAndCode(i) /\ KeysSoFar(i) /\ KeyInHand(i) /\ Held
      /\ nth[i] \in {1, 2} /\ P(i) \in Purpose
  BY DEF KeysAgree, Held, InitTyped, Purpose
<1>2. InitTyped'
  BY <1>1, InitAssumption DEF RunAgain, Stop, InitTyped, shared, locals, Fault, CreateItem
<1>3. Frame(i)
  BY <1>1, InitAssumption DEF RunAgain, Stop, InitTyped, Frame, shared, locals, CreateItem
<1>4. ConfigAndCode(i)'
  BY <1>1, InitAssumption DEF RunAgain, Stop, InitTyped, ConfigAndCode, shared, locals
<1>5. KeysSoFar(i)'
  BY <1>1 DEF RunAgain, Stop, InitTyped, KeysSoFar, P, Purpose, shared, locals
<1>6. KeyInHand(i)'
  BY <1>1 DEF RunAgain, Stop, InitTyped, KeyInHand, P, shared, locals, CreateItem
<1>7. Held'
  BY <1>1 DEF RunAgain, Stop, InitTyped, Held, KeyInHand, shared, CreateItem
<1>8. QED
  BY <1>2, <1>3, <1>4, <1>5, <1>6, <1>7 DEF Kept

-------------------------------------------------------------------------------
(* The invariant of init.                                                  *)

LEMMA InitKeysAgree == InitState => KeysAgree
<1>. SUFFICES ASSUME InitState PROVE KeysAgree
  OBVIOUS
<1>. USE DEF InitState, None, Purpose
<1>1. InitTyped
  <2>1. needConfig \in [Inits -> BOOLEAN] /\ code \in [Inits -> BOOLEAN]
    BY Zenon
  <2>2. QED
    BY <2>1 DEF InitTyped, Stages
<1>2. \A p \in Purpose : registered[p] = None
  OBVIOUS
<1>3. \A i \in Inits : pc[i] = "begin" /\ nth[i] = 1
  OBVIOUS
<1>4. \A i \in Inits : ConfigAndCode(i) /\ KeysSoFar(i) /\ KeyInHand(i)
  BY <1>3 DEF ConfigAndCode, KeysSoFar, KeyInHand, KeyStages
<1>5. QED
  BY <1>1, <1>2, <1>4 DEF KeysAgree

LEMMA KeysAgreeStep ==
  KeysAgree /\ [InitNext]_initVars => KeysAgree'
<1>1. ASSUME KeysAgree, NEW i \in Inits, RunStep(i) \/ Stop(i)
      PROVE  KeysAgree'
  <2>1. Kept(i)
    BY <1>1, InstallKeeps, AuthCodeKeeps, LookKeeps, ItemKeeps, RegisterKeeps,
       StopKeeps DEF RunStep
  <2>2. \A j \in Inits : ConfigAndCode(j)' /\ KeysSoFar(j)' /\ KeyInHand(j)'
    <3>. TAKE j \in Inits
    <3>1. CASE j = i
      BY <2>1, <3>1 DEF Kept
    <3>2. CASE j # i
      BY <1>1, <2>1, <3>2, OthersKeep DEF Kept
    <3>3. QED
      BY <3>1, <3>2
  <2>3. QED
    BY <2>1, <2>2 DEF Kept, Held, KeysAgree
<1>2. ASSUME KeysAgree, UNCHANGED initVars
      PROVE  KeysAgree'
  BY <1>2 DEF KeysAgree, InitTyped, ConfigAndCode, KeysSoFar, KeyInHand, P,
              initVars, shared, locals
<1>3. QED
  BY <1>1, <1>2 DEF InitNext

LEMMA KeysAlwaysAgree == InitState /\ [][InitNext]_initVars => []KeysAgree
  BY InitKeysAgree, KeysAgreeStep, PTL

\* Whatever the inits that run at once do, wherever each of them is stopped and
\* whichever Keychain commands fail after taking effect: the check value that
\* RegisterCryptoKey recorded is that of the key the Keychain holds.
THEOREM InitKeepsKeys == FairInitSpec => []RegisteredKeyIsHeld
<1>1. KeysAgree => RegisteredKeyIsHeld
  BY DEF KeysAgree, InitTyped, RegisteredKeyIsHeld
<1>2. QED
  BY <1>1, KeysAlwaysAgree, PTL DEF FairInitSpec

\* An init that has returned without error has left the configuration, the
\* instance row, an authorization code and both keys registered, and no other
\* init, failing or not, takes any of them away again.
THEOREM InitLeavesUsable == FairInitSpec => []UsableWhenDone
<1>1. KeysAgree => UsableWhenDone
  BY DEF KeysAgree, InitTyped, UsableWhenDone, Complete, ConfigAndCode, KeysSoFar
<1>2. QED
  BY <1>1, KeysAlwaysAgree, PTL DEF FairInitSpec
===============================================================================
