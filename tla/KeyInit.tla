-------------------------------- MODULE KeyInit -------------------------------
(***************************************************************************)
(* "turncourier init" (internal/cli/init.go) over the three places it       *)
(* writes: the configuration file, the Keychain (internal/security/keychain)*)
(* and the database (instance.go).  None of them shares a transaction with  *)
(* another, several inits may run at once, a Keychain command may take      *)
(* effect and still be reported as failed, the user cancels or the process  *)
(* dies anywhere, and init is run again.                                    *)
(***************************************************************************)
EXTENDS Naturals, Sequences

CONSTANTS Inits,      \* processes running init
          MaxKeys,    \* bound: keys generated
          MaxFaults   \* bound: cancellations, crashes, failed commands and
                      \* replaced authorization codes, taken together

ASSUME InitAssumption ==
  /\ {MaxKeys, MaxFaults} \subseteq Nat
  /\ "none" \notin Inits

Purposes == <<"token", "payload">>
None == 0

VARIABLES config,      \* the configuration file exists
          instance,    \* the instance row exists
          authItem,    \* Keychain: authorization code, by who entered it
          keyItem,     \* Keychain: the key of each purpose
          registered,  \* crypto_keys: the check value of each purpose's key
          pc, needConfig, code, nth, key,  \* the locals of each init
          generated, faults

shared == <<config, instance, authItem, keyItem, registered>>
locals == <<needConfig, code, nth, key>>
initVars == <<shared, pc, locals, generated, faults>>

P(i) == Purposes[nth[i]]
Fault == faults < MaxFaults /\ faults' = faults + 1
At(i, from, to) == pc[i] = from /\ pc' = [pc EXCEPT ![i] = to]

-------------------------------------------------------------------------------
(* initialize.                                                             *)

\* config.Load decides at the very start whether to ask for a configuration.
Begin(i) ==
  /\ At(i, "begin", "open")
  /\ needConfig' = [needConfig EXCEPT ![i] = ~config]
  /\ nth' = [nth EXCEPT ![i] = 1]
  /\ UNCHANGED <<shared, code, key, generated, faults>>

EnsureInstance(i) ==
  /\ At(i, "open", "ask")
  /\ instance' = TRUE
  /\ UNCHANGED <<config, authItem, keyItem, registered, locals, generated, faults>>

\* An existing code is kept unless the user wants it replaced.
AskAuthCode(i) ==
  /\ At(i, "ask", "config")
  /\ \/ /\ authItem = "none"
        /\ code' = [code EXCEPT ![i] = TRUE] /\ UNCHANGED faults
     \/ /\ authItem # "none"
        /\ \/ code' = [code EXCEPT ![i] = FALSE] /\ UNCHANGED faults
           \/ code' = [code EXCEPT ![i] = TRUE] /\ Fault
  /\ UNCHANGED <<shared, needConfig, nth, key, generated>>

\* CreateFile links the finished file into place and never replaces one.
CreateFile(i) ==
  /\ \/ ~needConfig[i] /\ At(i, "config", "set") /\ UNCHANGED config
     \/ needConfig[i] /\ ~config /\ At(i, "config", "set") /\ config' = TRUE
     \/ needConfig[i] /\ config /\ At(i, "config", "failed") /\ UNCHANGED config
  /\ UNCHANGED <<instance, authItem, keyItem, registered, locals, generated, faults>>

\* Set: the command, which may fail with or without effect, and the reading back.
SetAuthCode(i) ==
  /\ \/ /\ ~code[i] /\ At(i, "set", "lookup")
        /\ UNCHANGED <<authItem, faults>>
     \/ /\ code[i] /\ At(i, "set", "set_check")
        /\ authItem' = i /\ UNCHANGED faults
     \/ /\ code[i] /\ At(i, "set", "failed") /\ Fault
        /\ authItem' \in {authItem, i}
  /\ UNCHANGED <<config, instance, keyItem, registered, locals, generated>>

CheckAuthCode(i) ==
  /\ At(i, "set_check", IF authItem = i THEN "lookup" ELSE "failed")
  /\ UNCHANGED <<shared, locals, generated, faults>>

-------------------------------------------------------------------------------
(* ensureKey for the purpose P(i).                                         *)

NextPurpose(i, from) ==
  IF nth[i] < Len(Purposes)
  THEN At(i, from, "lookup") /\ nth' = [nth EXCEPT ![i] = @ + 1]
  ELSE At(i, from, "done") /\ UNCHANGED nth

RegisteredKey(i) ==
  /\ At(i, "lookup", IF registered[P(i)] = None THEN "find" ELSE "verify")
  /\ UNCHANGED <<shared, locals, generated, faults>>

VerifyKey(i) ==
  /\ IF keyItem[P(i)] = registered[P(i)] THEN NextPurpose(i, "verify")
     ELSE At(i, "verify", "failed") /\ UNCHANGED nth
  /\ UNCHANGED <<shared, needConfig, code, key, generated, faults>>

FindKeyFaulty(i) ==
  /\ IF keyItem[P(i)] # None
     THEN At(i, "find", "failed") /\ UNCHANGED <<key, generated>>
     ELSE /\ At(i, "find", "add")
          /\ generated < MaxKeys /\ generated' = generated + 1
          /\ key' = [key EXCEPT ![i] = generated']
  /\ UNCHANGED <<shared, needConfig, code, nth, faults>>

\* findOrAddKey: an item nobody has registered yet is adopted, not replaced.
FindKey(i) ==
  /\ IF keyItem[P(i)] # None
     THEN /\ At(i, "find", "register")
          /\ key' = [key EXCEPT ![i] = keyItem[P(i)]] /\ UNCHANGED generated
     ELSE /\ At(i, "find", "add")
          /\ generated < MaxKeys /\ generated' = generated + 1
          /\ key' = [key EXCEPT ![i] = generated']
  /\ UNCHANGED <<shared, needConfig, code, nth, faults>>

\* Add looks before it runs the command.
LookBeforeAdd(i) ==
  /\ At(i, "add", IF keyItem[P(i)] = None THEN "add_command" ELSE "adopt")
  /\ UNCHANGED <<shared, locals, generated, faults>>

CreateItemFaulty(p, k) == keyItem' = [keyItem EXCEPT ![p] = k]

\* add-generic-password without -U creates an item and never replaces one.
CreateItem(p, k) ==
  /\ keyItem[p] = None
  /\ keyItem' = [keyItem EXCEPT ![p] = k]

\* The command: succeeds, fails because the item exists, or fails otherwise,
\* with or without having created it.
AddCommand(i) ==
  /\ \/ /\ At(i, "add_command", "add_check")
        /\ CreateItem(P(i), key[i]) /\ UNCHANGED faults
     \/ /\ At(i, "add_command", "add_failed") /\ keyItem[P(i)] # None
        /\ UNCHANGED <<keyItem, faults>>
     \/ /\ \/ At(i, "add_command", "add_failed")
           \/ At(i, "add_command", "failed")
        /\ CreateItem(P(i), key[i]) \/ UNCHANGED keyItem
        /\ Fault
  /\ UNCHANGED <<config, instance, authItem, registered, locals, generated>>

\* After a failed command Add looks again: an item there means ErrExists.
LookAfterAdd(i) ==
  /\ At(i, "add_failed", IF keyItem[P(i)] = None THEN "failed" ELSE "adopt")
  /\ UNCHANGED <<shared, locals, generated, faults>>

ReadBack(i) ==
  /\ At(i, "add_check", IF keyItem[P(i)] = key[i] THEN "register" ELSE "failed")
  /\ UNCHANGED <<shared, locals, generated, faults>>

\* findOrAddKey after ErrExists: the item that is there is the key.
Adopt(i) ==
  /\ At(i, "adopt", "register")
  /\ key' = [key EXCEPT ![i] = keyItem[P(i)]]
  /\ UNCHANGED <<shared, needConfig, code, nth, generated, faults>>

RegisterKey(i) ==
  /\ IF registered[P(i)] = None
     THEN /\ registered' = [registered EXCEPT ![P(i)] = key[i]]
          /\ NextPurpose(i, "register")
     ELSE At(i, "register", "compare") /\ UNCHANGED <<registered, nth>>
  /\ UNCHANGED <<config, instance, authItem, keyItem, needConfig, code, key,
                 generated, faults>>

\* ErrKeyExists: another init registered first; the same key is as good.
CompareKey(i) ==
  /\ IF registered[P(i)] = key[i] THEN NextPurpose(i, "compare")
     ELSE At(i, "compare", "failed") /\ UNCHANGED nth
  /\ UNCHANGED <<shared, needConfig, code, key, generated, faults>>

-------------------------------------------------------------------------------
\* Ctrl-C, a failed read or the end of the process.
Stop(i) ==
  /\ pc[i] \notin {"begin", "done", "failed"}
  /\ pc' = [pc EXCEPT ![i] = "failed"]
  /\ Fault
  /\ UNCHANGED <<shared, locals, generated>>

RunAgain(i) ==
  /\ At(i, "failed", "begin")
  /\ UNCHANGED <<shared, locals, generated, faults>>

RunStep(i) ==
  \/ Begin(i) \/ EnsureInstance(i) \/ AskAuthCode(i) \/ CreateFile(i)
  \/ SetAuthCode(i) \/ CheckAuthCode(i)
  \/ RegisteredKey(i) \/ VerifyKey(i) \/ FindKey(i) \/ LookBeforeAdd(i)
  \/ AddCommand(i) \/ LookAfterAdd(i) \/ ReadBack(i) \/ Adopt(i)
  \/ RegisterKey(i) \/ CompareKey(i) \/ RunAgain(i)

InitState ==
  /\ config = FALSE /\ instance = FALSE /\ authItem = "none"
  /\ keyItem = [p \in {"token", "payload"} |-> None] /\ registered = keyItem
  /\ pc = [i \in Inits |-> "begin"]
  /\ needConfig = [i \in Inits |-> FALSE] /\ code = needConfig
  /\ nth = [i \in Inits |-> 1] /\ key = [i \in Inits |-> None]
  /\ generated = 0 /\ faults = 0

InitNext == \E i \in Inits : RunStep(i) \/ Stop(i)

\* Every init that is not stopped goes on, and a failed one is run again.
FairInitSpec ==
  /\ InitState /\ [][InitNext]_initVars
  /\ \A i \in Inits : WF_initVars(RunStep(i))

-------------------------------------------------------------------------------
(* Properties.                                                             *)

\* A registered key is the one the Keychain holds: neither two inits that
\* generate different keys nor a command that failed after taking effect nor
\* a stop between Keychain and database separates the two.
RegisteredKeyIsHeld ==
  \A p \in DOMAIN registered :
    registered[p] # None => keyItem[p] = registered[p]

\* No interruption leaves anything behind that the next init cannot use: run
\* again often enough, init succeeds, and success means a usable installation,
\* whatever the other inits did meanwhile.
Complete == /\ config /\ instance /\ authItem # "none"
            /\ \A p \in DOMAIN registered : registered[p] # None

InitSucceeds ==
  \A i \in Inits : <>(pc[i] = "done") /\ [](pc[i] = "done" => Complete)
===============================================================================
