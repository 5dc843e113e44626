------------------------- MODULE ChainAdapter_proofs -------------------------
(***************************************************************************)
(* Initialization is complete when an adapter or a call says so, for any   *)
(* number of adapters, chains and overlapping or failing calls.            *)
(***************************************************************************)
EXTENDS ChainAdapter, TLAPS

(***************************************************************************)
(* ReadyWhenInitialized is not inductive: what the flag promises was       *)
(* written by earlier steps of the call that sets it, while other calls    *)
(* wrote to the same object.  The invariant says what each await point of  *)
(* a call has already written.                                             *)
(***************************************************************************)
Written(i) ==
  LET config == chainConfig[ChainOfInit(i)]
  IN  /\ pc[i] \in {"querying", "answered", "fetched"}
           => config.ss58Prefix = ChainOfInit(i)
      /\ pc[i] \in {"answered", "fetched"} => config.paraId = ChainOfInit(i)
      /\ pc[i] = "fetched" /\ Target[i] \in Astar
           => config.instructionNetworkType = "Concrete"
      /\ pc[i] = "done" => isInitialized[Target[i]]

InitInv ==
  /\ TypeOK
  /\ \A i \in Inits : Written(i)
  /\ ReadyWhenInitialized

\* A config field that holds the value of its chain keeps it.
Kept(k) ==
  /\ chainConfig[k].ss58Prefix = k => chainConfig'[k].ss58Prefix = k
  /\ chainConfig[k].paraId = k => chainConfig'[k].paraId = k
  /\ chainConfig[k].instructionNetworkType = "Concrete"
       => chainConfig'[k].instructionNetworkType = "Concrete"

LEMMA TypeStep == TypeOK /\ [Next]_vars => TypeOK'
<1> SUFFICES ASSUME TypeOK, [Next]_vars PROVE TypeOK'
  OBVIOUS
<1> USE AdapterAssumption DEF TypeOK
<1>1. ASSUME NEW i \in Inits, Step(i) PROVE TypeOK'
  <2> DEFINE k == ChainOfInit(i)
  <2>0. k \in Chains /\ chainConfig[k] \in Config
    BY DEF ChainOfInit
  <2>1. isInitialized' \in [Adapters -> BOOLEAN]
    BY <1>1 DEF Step, ReturnEarly, NoApi, Fetch, QueryRejected, Answer, Fetched, Finish
  <2>2. pc' \in [Inits -> {"idle", "querying", "answered", "fetched", "done", "failed"}]
    BY <1>1 DEF Step, ReturnEarly, NoApi, Fetch, QueryRejected, Answer, Fetched, Finish,
       Goto
  <2>3. \/ UNCHANGED chainConfig
        \/ \E c \in Config : chainConfig' = [chainConfig EXCEPT ![k] = c]
    <3>1. [chainConfig[k] EXCEPT !.ss58Prefix = k] \in Config
      BY <2>0 DEF Config
    <3>2. [chainConfig[k] EXCEPT !.paraId = k] \in Config
      BY <2>0 DEF Config
    <3>3. [chainConfig[k] EXCEPT !.instructionNetworkType = "Concrete"] \in Config
      BY <2>0 DEF Config
    <3>4. CASE Fetch(i)
      BY <3>1, <3>4, <2>0 DEF Fetch, SetPrefix
    <3>5. CASE Answer(i)
      BY <3>2, <3>5, <2>0 DEF Answer
    <3>6. CASE Fetched(i)
      BY <3>3, <3>6, <2>0 DEF Fetched
    <3> QED
      BY <1>1, <3>4, <3>5, <3>6 DEF Step, ReturnEarly, NoApi, QueryRejected, Finish
  <2>4. chainConfig' \in [Chains -> Config]
    BY <2>0, <2>3
  <2> QED BY <2>1, <2>2, <2>4
<1>2. CASE UNCHANGED vars
  BY <1>2 DEF vars
<1> QED BY <1>1, <1>2 DEF Next

LEMMA KeptStep ==
  ASSUME TypeOK, [Next]_vars, NEW k \in Chains
  PROVE  Kept(k)
<1> USE AdapterAssumption DEF TypeOK, Config, ChainOfInit, Kept
<1>1. ASSUME NEW i \in Inits, Step(i) PROVE Kept(k)
  BY <1>1 DEF Step, ReturnEarly, NoApi, Fetch, SetPrefix, QueryRejected, Answer,
     Fetched, Finish
<1>2. CASE UNCHANGED vars
  BY <1>2 DEF vars
<1> QED BY <1>1, <1>2 DEF Next

\* No step takes back the flag of an adapter.
LEMMA FlagStep ==
  ASSUME TypeOK, [Next]_vars, NEW a \in Adapters, isInitialized[a]
  PROVE  isInitialized'[a]
BY DEF TypeOK, Next, Step, ReturnEarly, NoApi, Fetch, QueryRejected, Answer,
   Fetched, Finish, vars

LEMMA WrittenStep ==
  ASSUME InitInv, [Next]_vars, NEW i \in Inits
  PROVE  Written(i)'
<1> USE AdapterAssumption DEF InitInv
<1>1. Kept(ChainOfInit(i)) /\ ChainOfInit(i) \in Chains
  BY KeptStep DEF ChainOfInit
<1>2. Target[i] \in Adapters
  OBVIOUS
<1>3. CASE pc'[i] = pc[i]
  BY <1>1, <1>2, <1>3, FlagStep DEF Written, Kept, ChainOfInit
<1>4. ASSUME NEW j \in Inits, Step(j), pc'[i] # pc[i] PROVE Written(i)'
  <2>1. i = j
    BY <1>4 DEF Step, Goto, ReturnEarly, NoApi, Fetch, QueryRejected, Answer,
       Fetched, Finish, TypeOK
  <2> QED
    BY <1>1, <1>2, <1>4, <2>1 DEF Step, Goto, ReturnEarly, NoApi, Fetch, SetPrefix,
       QueryRejected, Answer, Fetched, Finish, TypeOK, Config, Written, Kept, ChainOfInit
<1> QED BY <1>3, <1>4 DEF Next, vars

LEMMA ReadyStep == InitInv /\ [Next]_vars => ReadyWhenInitialized'
<1> SUFFICES ASSUME InitInv, [Next]_vars, NEW a \in Adapters, isInitialized'[a]
             PROVE  Ready(a)'
  BY DEF ReadyWhenInitialized
<1> USE AdapterAssumption DEF InitInv
<1>1. Kept(ChainOf[a])
  BY KeptStep
<1>2. CASE isInitialized[a]
  BY <1>1, <1>2 DEF ReadyWhenInitialized, Ready, Kept
<1>3. ASSUME NEW i \in Inits, Step(i), ~isInitialized[a] PROVE Ready(a)'
  <2>1. Finish(i) /\ a = Target[i]
    BY <1>3 DEF Step, ReturnEarly, NoApi, Fetch, QueryRejected, Answer, Fetched,
       Finish, TypeOK
  <2> QED BY <1>1, <2>1 DEF Finish, Goto, Written, Ready, ChainOfInit
<1> QED BY <1>2, <1>3 DEF Next, vars

(***************************************************************************)
(* At every place where initialize() awaits, what it has written by then   *)
(* is in the config, whatever other initializations of the same config do. *)
(***************************************************************************)
THEOREM InitInvariant == Spec => []InitInv
<1>1. Init => InitInv
  BY AdapterAssumption DEF Init, InitInv, TypeOK, Config, Written, ReadyWhenInitialized
<1>2. InitInv /\ [Next]_vars => InitInv'
  BY TypeStep, WrittenStep, ReadyStep DEF InitInv
<1> QED BY <1>1, <1>2, PTL DEF Spec

\* Every variable keeps its type: a config field is unset or what a chain says.
THEOREM TypeCorrect == Spec => []TypeOK
<1>1. InitInv => TypeOK
  BY DEF InitInv
<1> QED BY <1>1, InitInvariant, PTL

(***************************************************************************)
(* isInitialized is never set before the whole config is (initialize(),    *)
(* fetchAndUpdateConfigs() and the Astar override).                        *)
(***************************************************************************)
THEOREM ReadyInitialized == Spec => []ReadyWhenInitialized
<1>1. InitInv => ReadyWhenInitialized
  BY DEF InitInv
<1> QED BY <1>1, InitInvariant, PTL

(***************************************************************************)
(* A call of initialize() that returns leaves its adapter usable, also     *)
(* when it returned early or others run meanwhile.                         *)
(***************************************************************************)
THEOREM ReadyAwaited == Spec => []ReadyWhenAwaited
<1>1. InitInv => ReadyWhenAwaited
  BY AdapterAssumption DEF InitInv, Written, ReadyWhenInitialized, ReadyWhenAwaited, Ready,
     LocationKnown
<1> QED BY <1>1, InitInvariant, PTL

(***************************************************************************)
(* Once a chain's location is known it does not change.                    *)
(***************************************************************************)
THEOREM ConfigKept == Spec => ConfigIsKept
<1> DEFINE Own == \A k \in Chains : chainConfig[k].paraId \in {Unset, k}
           Same == \A a \in Adapters : LocationKnown(a) =>
             chainConfig'[ChainOf[a]].paraId = chainConfig[ChainOf[a]].paraId
<1>1. Init => Own
  BY DEF Init
<1>2. ASSUME InitInv, Own, [Next]_vars
      PROVE  /\ Own'
             /\ \A k \in Chains : chainConfig[k].paraId # Unset
                  => chainConfig'[k].paraId = chainConfig[k].paraId
  <2>1. ASSUME NEW k \in Chains
        PROVE  chainConfig'[k].paraId \in {chainConfig[k].paraId, k}
    <3> USE <1>2, AdapterAssumption DEF InitInv, TypeOK, Config, ChainOfInit
    <3>1. ASSUME NEW i \in Inits, Fetch(i) PROVE chainConfig'[k].paraId = chainConfig[k].paraId
      BY <3>1 DEF Fetch, SetPrefix
    <3>2. ASSUME NEW i \in Inits, Answer(i)
          PROVE  chainConfig'[k].paraId \in {chainConfig[k].paraId, k}
      BY <3>2 DEF Answer
    <3>3. ASSUME NEW i \in Inits, Fetched(i) PROVE chainConfig'[k].paraId = chainConfig[k].paraId
      BY <3>3 DEF Fetched
    <3> QED
      BY <3>1, <3>2, <3>3 DEF Next, Step, ReturnEarly, NoApi, QueryRejected, Finish, vars
  <2> QED BY <1>2, <2>1
<1>3. ASSUME InitInv, Own, [Next]_vars PROVE Same
  BY <1>2, <1>3, AdapterAssumption DEF LocationKnown
<1>4. Same => [Same]_vars
  OBVIOUS
<1>5. InitInv /\ Own /\ [Next]_vars => Own' /\ [Same]_vars
  BY <1>2, <1>3
<1> HIDE DEF Own, Same
<1>6. Spec => [][Same]_vars
  BY <1>1, <1>5, InitInvariant, PTL DEF Spec
<1> QED BY <1>6 DEF ConfigIsKept, Same
=============================================================================
