---------------------------- MODULE ScheduleFlow ----------------------------
(***************************************************************************)
(* The scheduling flows of the SDK (packages/sdk/src/index.ts) over the    *)
(* chain adapters.  A flow asks the destination chain for the weight of    *)
(* the payload call and prices the XCM message that will execute it there, *)
(* builds the task, and schedules it on the OAK chain: directly (payment   *)
(* through the sovereign account), or by another XCM message, which the    *)
(* caller's chain sends and which the flow weighs and prices too (payment  *)
(* through the remote derivative account).  Weights and fee rates are read *)
(* one query after the other and used much later, by other chains.         *)
(*                                                                         *)
(* Calls, locations and amounts of other assets are left out; every chain  *)
(* has the rate of the one fee asset the flow names there.  Balances       *)
(* suffice.  Queries are answered: one that is rejected ends its flow at   *)
(* the await, before anything is sent.                                     *)
(***************************************************************************)
EXTENDS Integers

CONSTANTS
  Flows,
  Kind,           \* Kind[f]: the exported function
  Chains, Oak,
  Destination,    \* Destination[f]: the chain of destinationChainAdapter
  CallerIsAstar,  \* the flows whose caller is an AstarAdapter
  Options,        \* Options[f]: xcmOptions
  Unset,          \* undefined or None
  InstructionWeight,  \* InstructionWeight[k]: chainConfig.xcm.instructionWeight of chain k
  Weights, Rates, \* the values call weights and fee rates take
  MaxUpgrades     \* bound: upgrades of weights and rates

Weight == [refTime : Nat, proofSize : Nat]

RefTimePerSecond == 2   \* WEIGHT_REF_TIME_PER_SECOND

Remote == {f \in Flows : Kind[f] \in {"timeRemote", "priceRemote"}}

ASSUME FlowAssumption ==
  /\ Kind \in [Flows -> {"timeRemote", "priceRemote", "timeSovereign", "priceSovereign"}]
  /\ Oak \in Chains /\ Destination \in [Flows -> Chains \ {Oak}]
  /\ CallerIsAstar \subseteq Flows
  /\ Options \in [Flows -> [instructionCount : Nat, overallWeight : Weight \cup {Unset},
                            executionFeeAmount : Nat \cup {Unset}]]
  /\ InstructionWeight \in [Chains -> Weight]
  /\ Weights \subseteq Weight /\ Rates \subseteq Nat \cup {Unset}
  /\ MaxUpgrades \in Nat

VARIABLES
  ready,       \* the chains whose adapters are initialized
  rate,        \* rate[k]: fee per second of the fee asset on chain k, or Unset
  callWeight,  \* callWeight[k]: weight of the call transacted on chain k
  upgrades,    \* changes of rate and callWeight so far
  pc,          \* pc[f]: the await flow f is at, then what became of it
  task,        \* task[f]: what the task buys on the destination
  message,     \* message[f]: what the scheduling message buys on the OAK chain
  dearer       \* dearer[f]: a rate or weight rose or vanished since f began

vars == <<ready, rate, callWeight, upgrades, pc, task, message, dearer>>

\* encodedCallWeight, overallWeight and the fee
Purchase == [atMost : Weight, overall : Weight, fee : Nat]

NoWeight == [refTime |-> 0, proofSize |-> 0]

TypeOK ==
  /\ ready \subseteq Chains
  /\ rate \in [Chains -> Rates]
  /\ callWeight \in [Chains -> Weights]
  /\ upgrades \in 0 .. MaxUpgrades
  /\ pc \in [Flows -> {"idle", "weighing", "pricing", "weighingTask", "pricingTask",
                       "sent", "scheduled", "executed", "lost", "threw"}]
  /\ task \in [Flows -> Purchase]
  /\ message \in [Flows -> Purchase]
  /\ dearer \in [Flows -> BOOLEAN]

Init ==
  /\ ready \in SUBSET Chains
  /\ rate \in [Chains -> Rates \ {Unset}]
  /\ callWeight \in [Chains -> Weights]
  /\ upgrades = 0
  /\ pc = [f \in Flows |-> "idle"]
  /\ task = [f \in Flows |-> [atMost |-> NoWeight, overall |-> NoWeight, fee |-> 0]]
  /\ message = task
  /\ dearer = [f \in Flows |-> FALSE]

Goto(f, from, to) == pc[f] = from /\ pc' = [pc EXCEPT ![f] = to]
chainState == <<ready, rate, callWeight, upgrades, dearer>>
-----------------------------------------------------------------------------
\* Weight.muln and Weight.add, and the order of the chain.
Muln(w, n) == [refTime |-> w.refTime * n, proofSize |-> w.proofSize * n]
Add(v, w) == [refTime |-> v.refTime + w.refTime, proofSize |-> v.proofSize + w.proofSize]
Fits(v, w) == v.refTime <= w.refTime /\ v.proofSize <= w.proofSize

\* Mutant: the counts of the two sequences are swapped.
SwappedInstructionCount(f) == IF f \in Remote THEN 6 ELSE 4

\* OakAdapter.getTransactXcmInstructionCount
OakInstructionCount(f) == IF f \in Remote THEN 4 ELSE 6

\* getTransactXcmInstructionCount of AstarAdapter and MoonbeamAdapter
CallerInstructionCount(f) == IF f \in CallerIsAstar THEN 6 ELSE 4

\* calculateXcmOverallWeight of an adapter of chain k
OverallWeight(k, weight, count) == Add(weight, Muln(InstructionWeight[k], count))

\* The proof size is free.  For the asset of the chain itself Astar and
\* Moonbeam adapters ask the chain (queryWeightToFee) what such a rate gives
\* here.
WeightToFee(weight, feePerSecond) ==
  (weight.refTime * feePerSecond) \div RefTimePerSecond

\* Mutant: the name of the other sequence, as the enum spells it.
SequenceNameSoverign(f) == "PayThroughSoverignAccount"

\* The name of the instruction sequence the task extrinsic is given.
SequenceName(f) ==
  IF f \in Remote THEN "PayThroughRemoteDerivativeAccount"
                  ELSE "PayThroughSoverignAccount"

\* How many arguments the task extrinsic is given.
ArgumentCount(f) ==
  CASE Kind[f] \in {"timeRemote", "timeSovereign"} -> 9
    [] Kind[f] = "priceRemote"    -> 15
    [] Kind[f] = "priceSovereign" -> 13

\* The extrinsics of the chain: how many arguments they take, and the
\* sequences they know; automationPrice takes no sequence.
CallArity(f) ==
  CASE Kind[f] \in {"timeRemote", "timeSovereign"} -> 9
    [] Kind[f] = "priceRemote"    -> 14
    [] Kind[f] = "priceSovereign" -> 13

InstructionSequence == {"PayThroughSovereignAccount", "PayThroughRemoteDerivativeAccount"}

\* api.tx throws when it cannot encode the call.
Encodes(f) ==
  /\ ArgumentCount(f) = CallArity(f)
  /\ Kind[f] # "priceSovereign" => SequenceName(f) \in InstructionSequence
-----------------------------------------------------------------------------
\* The call: the destination adapter must be initialized.
Begin(f) ==
  /\ Goto(f, "idle", IF Destination[f] \in ready THEN "weighing" ELSE "threw")
  /\ UNCHANGED <<chainState, task, message>>

\* destinationChainAdapter.getExtrinsicWeight returns; the overall weight.
\* `||` takes an instruction count of 0 for none.
Weigh(f) ==
  LET weight == callWeight[Destination[f]]
      count == IF Options[f].instructionCount = 0 THEN OakInstructionCount(f)
                                                  ELSE Options[f].instructionCount
      overall == IF Options[f].overallWeight = Unset
                   THEN OverallWeight(Destination[f], weight, count)
                   ELSE Options[f].overallWeight
  IN  /\ Goto(f, "weighing", "pricing")
      /\ task' = [task EXCEPT ![f].atMost = weight, ![f].overall = overall]
      /\ UNCHANGED <<chainState, message>>

\* The task extrinsic is built; a sovereign flow sends it.
AfterTask(f) == IF ~Encodes(f) THEN "threw"
                ELSE IF f \in Remote THEN "weighingTask" ELSE "sent"

\* Mutant: a missing fee rate is not checked.
PriceUnchecked(f) ==
  LET r == rate[Destination[f]]
  IN  /\ Goto(f, "pricing", AfterTask(f))
      /\ task' = [task EXCEPT ![f].fee =
                    IF r = Unset THEN Unset ELSE WeightToFee(task[f].overall, r)]
      /\ UNCHANGED <<chainState, message>>

\* destinationChainAdapter.weightToFee returns, unless the fee is given.
Price(f) ==
  LET r == rate[Destination[f]]
      given == Options[f].executionFeeAmount
  IN  /\ IF given = Unset /\ r = Unset
           THEN Goto(f, "pricing", "threw") /\ UNCHANGED task
           ELSE /\ Goto(f, "pricing", AfterTask(f))
                /\ task' = [task EXCEPT ![f].fee =
                     IF given = Unset THEN WeightToFee(task[f].overall, r) ELSE given]
      /\ UNCHANGED <<chainState, message>>

\* oakAdapter.getExtrinsicWeight of the task returns; the overall weight.
WeighTask(f) ==
  LET weight == callWeight[Oak]
  IN  /\ Goto(f, "weighingTask", "pricingTask")
      /\ message' = [message EXCEPT
           ![f].atMost = weight,
           ![f].overall = OverallWeight(Oak, weight, CallerInstructionCount(f))]
      /\ UNCHANGED <<chainState, task>>

\* oakAdapter.weightToFee and getLocation return, and the caller's adapter
\* sends the message.
PriceTask(f) ==
  /\ IF rate[Oak] = Unset \/ Oak \notin ready
       THEN Goto(f, "pricingTask", "threw") /\ UNCHANGED message
       ELSE /\ Goto(f, "pricingTask", "sent")
            /\ message' = [message EXCEPT ![f].fee =
                             WeightToFee(message[f].overall, rate[Oak])]
  /\ UNCHANGED <<chainState, task>>

FlowStep(f) == Begin(f) \/ Weigh(f) \/ Price(f) \/ WeighTask(f) \/ PriceTask(f)
-----------------------------------------------------------------------------
\* The instructions of the message that schedules a task.  AstarAdapter
\* lists five, to which the pallet adds DescendOrigin; MoonbeamAdapter
\* leaves the message to a pallet, which makes four.
MessageLength(f) == IF f \in CallerIsAstar THEN 5 + 1 ELSE 4

\* The instructions of the message the OAK chain executes a task with.
TaskLength(f) == IF f \in Remote THEN 4 ELSE 6

\* Chain k executes a message of n instructions that buys p.
Executes(k, p, n) ==
  /\ Fits(OverallWeight(k, p.atMost, n), p.overall)
  /\ rate[k] # Unset /\ p.fee >= WeightToFee(p.overall, rate[k])
  /\ Fits(callWeight[k], p.atMost)

\* The message, or the extrinsic of a sovereign flow, schedules the task.
Schedule(f) ==
  /\ Goto(f, "sent", IF f \in Remote => Executes(Oak, message[f], MessageLength(f))
                       THEN "scheduled" ELSE "lost")
  /\ UNCHANGED <<chainState, task, message>>

\* The task is triggered, and its message reaches the destination.
Trigger(f) ==
  /\ Goto(f, "scheduled", IF Executes(Destination[f], task[f], TaskLength(f))
                            THEN "executed" ELSE "lost")
  /\ UNCHANGED <<chainState, task, message>>

Running(f) == pc[f] \notin {"idle", "executed", "lost", "threw"}

\* A runtime upgrade or a governance call changes a rate or a weight.
Upgrade(k) ==
  /\ upgrades < MaxUpgrades
  /\ upgrades' = upgrades + 1
  /\ \E r \in Rates, w \in Weights :
       /\ rate' = [rate EXCEPT ![k] = r]
       /\ callWeight' = [callWeight EXCEPT ![k] = w]
       /\ dearer' = [f \in Flows |-> dearer[f] \/
            /\ Running(f) /\ k \in {Oak, Destination[f]}
            /\ \/ ~Fits(w, callWeight[k])
               \/ r = Unset
               \/ rate[k] # Unset /\ r # Unset /\ r > rate[k]]
  /\ UNCHANGED <<ready, pc, task, message>>

\* The application initializes another adapter (module ChainAdapter).
Initialize(k) ==
  /\ k \notin ready
  /\ ready' = ready \cup {k}
  /\ UNCHANGED <<rate, callWeight, upgrades, dearer, pc, task, message>>

Next ==
  \/ \E f \in Flows : FlowStep(f) \/ Schedule(f) \/ Trigger(f)
  \/ \E k \in Chains : Upgrade(k) \/ Initialize(k)

Spec == Init /\ [][Next]_vars

-----------------------------------------------------------------------------
(***************************************************************************)
(* What a flow computes is enough for both messages: a task of a flow that *)
(* is given no fee, and no overall weight or instruction count below the   *)
(* one needed, is lost only when something it depends on became dearer     *)
(* between its first step and its execution.  Rates and weights that fall, *)
(* or move between its reads, do not hurt it.                              *)
(***************************************************************************)
Generous(f) ==
  /\ Options[f].instructionCount = 0 \/ Options[f].instructionCount >= TaskLength(f)
  /\ Options[f].overallWeight # Unset
       => \A w \in Weights : Fits(OverallWeight(Destination[f], w, TaskLength(f)),
                                 Options[f].overallWeight)
  /\ Options[f].executionFeeAmount = Unset

PaidMessagesExecute == \A f \in Flows : pc[f] = "lost" /\ Generous(f) => dearer[f]

(***************************************************************************)
(* A flow whose queries are answered throws only for what its caller can   *)
(* put right: an adapter that is not initialized, or a fee asset the chain *)
(* has no rate for.                                                        *)
(***************************************************************************)
ThrowsOnlyWhenUnready ==
  [][\A f \in Flows : pc[f] # "threw" /\ pc'[f] = "threw" =>
       \E k \in {Oak, Destination[f]} : k \notin ready \/ rate[k] = Unset]_vars

(***************************************************************************)
(* "Schedule XCMP price task with PayThroughRemoteDerivativeAccount",      *)
(* "Schedule XCMP task with PayThroughSoverignAccount" (sdk/src/index.ts   *)
(* lines 134 and 206): when every flow has a fee for its task, the task    *)
(* extrinsic of one of them at least can be created.                       *)
(***************************************************************************)
FailsToBuild(f) ==
  pc[f] = "threw" /\ task[f].fee > 0 /\ message[f].overall = NoWeight

SomeTaskIsBuilt == \E f \in Flows : ~FailsToBuild(f)
=============================================================================
