------------------------- MODULE ScheduleFlow_proofs -------------------------
(***************************************************************************)
(* What ScheduleFlow says of weights, fees and messages, for every set of  *)
(* flows and chains, all weights and fee rates, all options and every      *)
(* number of upgrades.                                                     *)
(***************************************************************************)
EXTENDS ScheduleFlow, TLAPS

\* The facts about the constants the proofs use.
LEMMA Constants ==
  /\ \A f \in Flows : Kind[f] \in {"timeRemote", "priceRemote", "timeSovereign", "priceSovereign"}
  /\ \A f \in Flows : Destination[f] \in Chains
  /\ \A f \in Flows : Options[f].instructionCount \in Nat
  /\ \A f \in Flows : Options[f].overallWeight \in Weight \cup {Unset}
  /\ \A f \in Flows : Options[f].executionFeeAmount \in Nat \cup {Unset}
  /\ Oak \in Chains /\ MaxUpgrades \in Nat
  /\ \A k \in Chains : InstructionWeight[k] \in Weight
  /\ Weights \subseteq Weight /\ Rates \ {Unset} \subseteq Nat
BY FlowAssumption
-----------------------------------------------------------------------------
(***************************************************************************)
(* Weights and fees: Weight.add and Weight.muln of weights are weights, a  *)
(* fee is a natural number and does not fall when the rate rises.          *)
(***************************************************************************)
LEMMA ProductType == ASSUME NEW a \in Nat, NEW b \in Nat PROVE a * b \in Nat
OBVIOUS

LEMMA ProductMonotone ==
  ASSUME NEW a \in Nat, NEW r \in Nat, NEW s \in Nat, r <= s
  PROVE  a * r <= a * s
<1>1. PICK d \in Nat : s = r + d
  <2>. s - r \in Nat /\ s = r + (s - r)
    OBVIOUS
  <2>. QED  OBVIOUS
<1>2. a * s = a * r + a * d
  BY <1>1
<1>3. a * d \in Nat /\ a * r \in Nat
  BY ProductType
<1>. QED  BY <1>2, <1>3

LEMMA OverallType ==
  ASSUME NEW k \in Chains, NEW w \in Weight, NEW n \in Nat
  PROVE  OverallWeight(k, w, n) \in Weight
<1>. DEFINE i == InstructionWeight[k]
<1>1. i \in Weight
  BY Constants
<1>2. i.refTime \in Nat /\ i.proofSize \in Nat
  BY <1>1 DEF Weight
<1>3. i.refTime * n \in Nat /\ i.proofSize * n \in Nat
  BY <1>2, ProductType
<1>. HIDE DEF i
<1>4. Add(w, Muln(i, n)) \in Weight
  BY <1>3 DEF Add, Muln, Weight
<1>. QED  BY <1>4 DEF OverallWeight, i

LEMMA OverallMonotone ==
  ASSUME NEW k \in Chains, NEW w \in Weight, NEW m \in Nat, NEW n \in Nat, m <= n
  PROVE  Fits(OverallWeight(k, w, m), OverallWeight(k, w, n))
<1>. DEFINE i == InstructionWeight[k]
<1>1. i \in Weight
  BY Constants
<1>2. i.refTime \in Nat /\ i.proofSize \in Nat
  BY <1>1 DEF Weight
<1>3. /\ i.refTime * m \in Nat /\ i.refTime * n \in Nat /\ i.refTime * m <= i.refTime * n
      /\ i.proofSize * m \in Nat /\ i.proofSize * n \in Nat /\ i.proofSize * m <= i.proofSize * n
  BY <1>2, ProductType, ProductMonotone
<1>. HIDE DEF i
<1>4. Fits(Add(w, Muln(i, m)), Add(w, Muln(i, n)))
  BY <1>3 DEF Add, Muln, Weight, Fits
<1>. QED  BY <1>4 DEF OverallWeight, i

LEMMA FeeType ==
  ASSUME NEW w \in Weight, NEW r \in Nat
  PROVE  WeightToFee(w, r) \in Nat
<1>. w.refTime \in Nat
  BY DEF Weight
<1>. w.refTime * r \in Nat
  BY ProductType
<1>. QED  BY DEF WeightToFee, RefTimePerSecond

LEMMA FeeMonotone ==
  ASSUME NEW w \in Weight, NEW r \in Nat, NEW s \in Nat, r <= s
  PROVE  WeightToFee(w, r) <= WeightToFee(w, s)
<1>. w.refTime \in Nat
  BY DEF Weight
<1>. DEFINE x == w.refTime * r
            y == w.refTime * s
<1>1. x \in Nat /\ y \in Nat /\ x <= y
  BY ProductType, ProductMonotone
<1>. HIDE DEF x, y
<1>2. x \div 2 <= y \div 2
  BY <1>1
<1>. QED  BY <1>2 DEF WeightToFee, RefTimePerSecond, x, y

LEMMA FitsTransitive ==
  ASSUME NEW u \in Weight, NEW v \in Weight, NEW w \in Weight, Fits(u, v), Fits(v, w)
  PROVE  Fits(u, w)
BY DEF Fits, Weight
-----------------------------------------------------------------------------
LEMMA TypeInit == Init => TypeOK
BY Constants DEF Init, TypeOK, Purchase, Weight, NoWeight

\* What a step of a flow makes of what it buys.
LEMMA WeighType ==
  ASSUME TypeOK, NEW f \in Flows, Weigh(f)
  PROVE  task' \in [Flows -> Purchase]
<1>. DEFINE weight == callWeight[Destination[f]]
            count == IF Options[f].instructionCount = 0 THEN OakInstructionCount(f)
                                                        ELSE Options[f].instructionCount
            overall == IF Options[f].overallWeight = Unset
                         THEN OverallWeight(Destination[f], weight, count)
                         ELSE Options[f].overallWeight
<1>1. weight \in Weight
  BY Constants DEF TypeOK
<1>2. count \in Nat
  BY Constants DEF OakInstructionCount
<1>3. overall \in Weight
  BY <1>1, <1>2, Constants, OverallType
<1>4. task' = [task EXCEPT ![f].atMost = weight, ![f].overall = overall]
  BY DEF Weigh
<1>. HIDE DEF weight, count, overall
<1>. QED  BY <1>1, <1>3, <1>4 DEF TypeOK, Purchase

LEMMA PriceType ==
  ASSUME TypeOK, NEW f \in Flows, Price(f)
  PROVE  task' \in [Flows -> Purchase]
<1>. DEFINE r == rate[Destination[f]]
            given == Options[f].executionFeeAmount
            fee == IF given = Unset THEN WeightToFee(task[f].overall, r) ELSE given
<1>1. CASE given = Unset /\ r = Unset
  BY <1>1 DEF Price, TypeOK
<1>2. CASE ~(given = Unset /\ r = Unset)
  <2>1. task[f].overall \in Weight
    BY DEF TypeOK, Purchase
  <2>2. fee \in Nat
    <3>1. CASE given = Unset
      <4>. r \in Nat
        BY <1>2, <3>1, Constants DEF TypeOK
      <4>. QED  BY <2>1, <3>1, FeeType
    <3>2. CASE given # Unset
      BY <3>2, Constants
    <3>. QED  BY <3>1, <3>2
  <2>3. task' = [task EXCEPT ![f].fee = fee]
    BY <1>2 DEF Price
  <2>. HIDE DEF fee
  <2>. QED  BY <2>2, <2>3 DEF TypeOK, Purchase
<1>. QED  BY <1>1, <1>2

LEMMA WeighTaskType ==
  ASSUME TypeOK, NEW f \in Flows, WeighTask(f)
  PROVE  message' \in [Flows -> Purchase]
<1>. DEFINE overall == OverallWeight(Oak, callWeight[Oak], CallerInstructionCount(f))
<1>1. callWeight[Oak] \in Weight
  BY Constants DEF TypeOK
<1>2. overall \in Weight
  BY <1>1, Constants, OverallType DEF CallerInstructionCount
<1>3. message' = [message EXCEPT ![f].atMost = callWeight[Oak], ![f].overall = overall]
  BY DEF WeighTask
<1>. HIDE DEF overall
<1>. QED  BY <1>1, <1>2, <1>3 DEF TypeOK, Purchase

LEMMA PriceTaskType ==
  ASSUME TypeOK, NEW f \in Flows, PriceTask(f)
  PROVE  message' \in [Flows -> Purchase]
<1>. DEFINE fee == WeightToFee(message[f].overall, rate[Oak])
<1>1. CASE rate[Oak] = Unset \/ Oak \notin ready
  BY <1>1 DEF PriceTask, TypeOK
<1>2. CASE ~(rate[Oak] = Unset \/ Oak \notin ready)
  <2>. rate[Oak] \in Nat /\ message[f].overall \in Weight
    BY <1>2, Constants DEF TypeOK, Purchase
  <2>1. fee \in Nat
    BY FeeType
  <2>2. message' = [message EXCEPT ![f].fee = fee]
    BY <1>2 DEF PriceTask
  <2>. HIDE DEF fee
  <2>. QED  BY <2>1, <2>2 DEF TypeOK, Purchase
<1>. QED  BY <1>1, <1>2

\* The steps that leave chains and adapters alone.
FlowMoves(f) == FlowStep(f) \/ Schedule(f) \/ Trigger(f)

LEMMA FlowIs ==
  ASSUME TypeOK, NEW f \in Flows, FlowMoves(f)
  PROVE  /\ UNCHANGED chainState
         /\ pc' \in [Flows -> {"idle", "weighing", "pricing", "weighingTask", "pricingTask",
                               "sent", "scheduled", "executed", "lost", "threw"}]
         /\ \A g \in Flows : g # f =>
              pc'[g] = pc[g] /\ task'[g] = task[g] /\ message'[g] = message[g]
BY DEF FlowMoves, FlowStep, Begin, Weigh, Price, WeighTask, PriceTask, Schedule, Trigger, Goto,
       AfterTask, TypeOK

LEMMA TypeStep == TypeOK /\ [Next]_vars => TypeOK'
<1>. SUFFICES ASSUME TypeOK, [Next]_vars PROVE TypeOK'
  OBVIOUS
<1>1. ASSUME NEW f \in Flows, FlowMoves(f) PROVE TypeOK'
  <2>1. task' \in [Flows -> Purchase] /\ message' \in [Flows -> Purchase]
    <3>1. CASE Weigh(f)
      BY <3>1, WeighType DEF Weigh, TypeOK
    <3>2. CASE Price(f)
      BY <3>2, PriceType DEF Price, TypeOK
    <3>3. CASE WeighTask(f)
      BY <3>3, WeighTaskType DEF WeighTask, TypeOK
    <3>4. CASE PriceTask(f)
      BY <3>4, PriceTaskType DEF PriceTask, TypeOK
    <3>5. CASE Begin(f) \/ Schedule(f) \/ Trigger(f)
      BY <3>5 DEF Begin, Schedule, Trigger, TypeOK
    <3>. QED  BY <1>1, <3>1, <3>2, <3>3, <3>4, <3>5 DEF FlowMoves, FlowStep
  <2>. QED  BY <1>1, <2>1, FlowIs DEF TypeOK, chainState
<1>2. ASSUME NEW k \in Chains, Upgrade(k) PROVE TypeOK'
  <2>1. PICK r \in Rates, w \in Weights :
          /\ rate' = [rate EXCEPT ![k] = r] /\ callWeight' = [callWeight EXCEPT ![k] = w]
    BY <1>2 DEF Upgrade
  <2>2. dearer' \in [Flows -> BOOLEAN]
    BY <1>2, Zenon DEF Upgrade
  <2>3. upgrades' \in 0 .. MaxUpgrades
    BY <1>2, Constants DEF Upgrade, TypeOK
  <2>. QED  BY <1>2, <2>1, <2>2, <2>3 DEF Upgrade, TypeOK
<1>3. ASSUME NEW k \in Chains, Initialize(k) PROVE TypeOK'
  BY <1>3 DEF Initialize, TypeOK
<1>4. CASE UNCHANGED vars
  BY <1>4 DEF vars, TypeOK
<1>. QED  BY <1>1, <1>2, <1>3, <1>4 DEF Next, FlowMoves

(***************************************************************************)
(* TypeOK: whatever the options and the rates, what a flow computes are    *)
(* weights and fees, never the result of arithmetic on a missing rate.     *)
(***************************************************************************)
THEOREM TypeCorrect == Spec => []TypeOK
BY TypeInit, TypeStep, PTL DEF Spec
-----------------------------------------------------------------------------
(***************************************************************************)
(* The invariant of what a flow has bought: the weight of the call it was  *)
(* told covers that of the call as it is now, the overall weight covers    *)
(* the message, and the fee covers the overall weight, for the task once   *)
(* it is weighed and priced, and for the message of a remote flow.         *)
(***************************************************************************)
Weighed(f) == pc[f] \in {"pricing", "weighingTask", "pricingTask", "sent", "scheduled"} =>
  /\ Fits(callWeight[Destination[f]], task[f].atMost)
  /\ Fits(OverallWeight(Destination[f], task[f].atMost, TaskLength(f)), task[f].overall)

Priced(f) == pc[f] \in {"weighingTask", "pricingTask", "sent", "scheduled"} =>
  /\ rate[Destination[f]] # Unset
  /\ task[f].fee >= WeightToFee(task[f].overall, rate[Destination[f]])

TaskWeighed(f) == f \in Remote /\ pc[f] \in {"pricingTask", "sent"} =>
  /\ Fits(callWeight[Oak], message[f].atMost)
  /\ Fits(OverallWeight(Oak, message[f].atMost, MessageLength(f)), message[f].overall)

TaskPriced(f) == f \in Remote /\ pc[f] = "sent" =>
  /\ rate[Oak] # Unset
  /\ message[f].fee >= WeightToFee(message[f].overall, rate[Oak])

\* Only a remote flow prices a message.
PlaceIs(f) == pc[f] \in {"weighingTask", "pricingTask"} => f \in Remote

Bought(f) ==
  /\ PlaceIs(f)
  /\ ~dearer[f] /\ Generous(f) =>
       Weighed(f) /\ Priced(f) /\ TaskWeighed(f) /\ TaskPriced(f) /\ pc[f] # "lost"

Paid == TypeOK /\ \A f \in Flows : Bought(f)

LEMMA PaidInit == Init => Paid
<1>. SUFFICES ASSUME Init PROVE Paid
  OBVIOUS
<1>1. \A f \in Flows : pc[f] = "idle"
  BY DEF Init
<1>. QED  BY <1>1, TypeInit DEF Paid, Bought, PlaceIs, Weighed, Priced, TaskWeighed, TaskPriced

\* A flow the step leaves alone, with the chains.
LEMMA BoughtFrame ==
  ASSUME UNCHANGED <<rate, callWeight, dearer>>, NEW f \in Flows, Bought(f),
         pc'[f] = pc[f], task'[f] = task[f], message'[f] = message[f]
  PROVE  Bought(f)'
BY DEF Bought, PlaceIs, Weighed, Priced, TaskWeighed, TaskPriced

\* The overall weight a generous flow computes, or was given, covers its task.
LEMMA OverallCovers ==
  ASSUME TypeOK, NEW f \in Flows, Generous(f), Weigh(f)
  PROVE  /\ pc'[f] = "pricing" /\ task'[f].atMost = callWeight[Destination[f]]
         /\ Fits(OverallWeight(Destination[f], task'[f].atMost, TaskLength(f)), task'[f].overall)
<1>. DEFINE weight == callWeight[Destination[f]]
            count == IF Options[f].instructionCount = 0 THEN OakInstructionCount(f)
                                                        ELSE Options[f].instructionCount
            overall == IF Options[f].overallWeight = Unset
                         THEN OverallWeight(Destination[f], weight, count)
                         ELSE Options[f].overallWeight
<1>1. weight \in Weights /\ weight \in Weight
  BY Constants DEF TypeOK
<1>2. count \in Nat /\ TaskLength(f) \in Nat /\ TaskLength(f) <= count
  BY Constants DEF OakInstructionCount, TaskLength, Generous
<1>3. Fits(OverallWeight(Destination[f], weight, TaskLength(f)), overall)
  BY <1>1, <1>2, Constants, OverallMonotone DEF Generous
<1>4. task' = [task EXCEPT ![f].atMost = weight, ![f].overall = overall] /\ pc'[f] = "pricing"
  BY DEF Weigh, Goto, TypeOK
<1>5. task[f] \in Purchase
  BY DEF TypeOK
<1>. HIDE DEF weight, count, overall
<1>6. task'[f].atMost = weight /\ task'[f].overall = overall
  BY <1>4, <1>5 DEF TypeOK, Purchase
<1>. QED  BY <1>3, <1>4, <1>6 DEF weight

LEMMA BoughtStep ==
  ASSUME TypeOK, NEW f \in Flows, FlowMoves(f), Bought(f)
  PROVE  Bought(f)'
<1>0. UNCHANGED <<ready, rate, callWeight, dearer>>
  BY FlowIs DEF chainState
<1>. /\ task[f] \in Purchase /\ message[f] \in Purchase
     /\ callWeight[Destination[f]] \in Weight /\ callWeight[Oak] \in Weight
  BY Constants DEF TypeOK
<1>1. CASE Begin(f)
  BY <1>0, <1>1 DEF Begin, Goto, TypeOK, Bought, PlaceIs, Weighed, Priced, TaskWeighed,
                    TaskPriced
<1>2. CASE Weigh(f)
  <2>1. pc'[f] = "pricing"
    BY <1>2 DEF Weigh, Goto, TypeOK
  <2>2. Generous(f) => Weighed(f)'
    BY <1>0, <1>2, OverallCovers DEF Weighed, Fits, Weight
  <2>. QED  BY <1>0, <2>1, <2>2 DEF Bought, PlaceIs, Priced, TaskWeighed, TaskPriced
<1>3. CASE Price(f)
  <2>1. CASE Options[f].executionFeeAmount = Unset /\ rate[Destination[f]] = Unset
    <3>. pc'[f] = "threw"
      BY <1>3, <2>1 DEF Price, Goto, TypeOK
    <3>. QED  BY DEF Bought, PlaceIs, Weighed, Priced, TaskWeighed, TaskPriced
  <2>2. CASE ~(Options[f].executionFeeAmount = Unset /\ rate[Destination[f]] = Unset)
    <3>1. pc[f] = "pricing" /\ pc'[f] = AfterTask(f) /\ message' = message
      BY <1>3, <2>2 DEF Price, Goto, TypeOK
    <3>2. task'[f].overall = task[f].overall /\ task'[f].atMost = task[f].atMost
      BY <1>3, <2>2 DEF Price, TypeOK, Purchase
    <3>3. PlaceIs(f)' /\ ~(f \in Remote /\ pc'[f] \in {"pricingTask", "sent"}) /\ pc'[f] # "lost"
      BY <3>1 DEF AfterTask, PlaceIs
    <3>4. ~dearer[f] /\ Generous(f) => Weighed(f)'
      BY <1>0, <3>1, <3>2 DEF Bought, Weighed
    <3>5. Generous(f) => Priced(f)'
      <4>. SUFFICES ASSUME Generous(f) PROVE Priced(f)'
        OBVIOUS
      <4>1. Options[f].executionFeeAmount = Unset /\ rate[Destination[f]] # Unset
        BY <2>2 DEF Generous
      <4>2. task'[f].fee = WeightToFee(task[f].overall, rate[Destination[f]])
        BY <1>3, <4>1 DEF Price, TypeOK, Purchase
      <4>3. WeightToFee(task[f].overall, rate[Destination[f]]) \in Nat
        BY <4>1, Constants, FeeType DEF TypeOK, Purchase
      <4>. QED  BY <1>0, <3>2, <4>1, <4>2, <4>3 DEF Priced
    <3>. QED  BY <1>0, <3>3, <3>4, <3>5 DEF Bought, TaskWeighed, TaskPriced
  <2>. QED  BY <2>1, <2>2
<1>4. CASE WeighTask(f)
  <2>1. pc[f] = "weighingTask" /\ pc'[f] = "pricingTask" /\ task' = task
    BY <1>4 DEF WeighTask, Goto, TypeOK
  <2>2. /\ message'[f].atMost = callWeight[Oak]
        /\ message'[f].overall = OverallWeight(Oak, callWeight[Oak], CallerInstructionCount(f))
    BY <1>4 DEF WeighTask, TypeOK, Purchase
  <2>3. CallerInstructionCount(f) = MessageLength(f) /\ MessageLength(f) \in Nat
    BY DEF CallerInstructionCount, MessageLength
  <2>4. TaskWeighed(f)'
    BY <1>0, <2>2, <2>3, Constants, OverallMonotone DEF TaskWeighed, Fits, Weight
  <2>. QED  BY <1>0, <2>1, <2>4 DEF Bought, PlaceIs, Weighed, Priced, TaskPriced
<1>5. CASE PriceTask(f)
  <2>1. CASE rate[Oak] = Unset \/ Oak \notin ready
    <3>. pc'[f] = "threw"
      BY <1>5, <2>1 DEF PriceTask, Goto, TypeOK
    <3>. QED  BY DEF Bought, PlaceIs, Weighed, Priced, TaskWeighed, TaskPriced
  <2>2. CASE ~(rate[Oak] = Unset \/ Oak \notin ready)
    <3>1. pc[f] = "pricingTask" /\ pc'[f] = "sent" /\ task' = task
      BY <1>5, <2>2 DEF PriceTask, Goto, TypeOK
    <3>2. /\ message'[f].atMost = message[f].atMost
          /\ message'[f].overall = message[f].overall
          /\ message'[f].fee = WeightToFee(message[f].overall, rate[Oak])
      BY <1>5, <2>2 DEF PriceTask, TypeOK, Purchase
    <3>3. WeightToFee(message[f].overall, rate[Oak]) \in Nat
      BY <2>2, Constants, FeeType DEF TypeOK, Purchase
    <3>4. TaskPriced(f)'
      BY <1>0, <2>2, <3>2, <3>3 DEF TaskPriced
    <3>. QED  BY <1>0, <3>1, <3>2, <3>4 DEF Bought, PlaceIs, Weighed, Priced, TaskWeighed
  <2>. QED  BY <2>1, <2>2
<1>6. CASE Schedule(f)
  <2>1. /\ pc[f] = "sent" /\ task' = task /\ message' = message
        /\ pc'[f] = IF f \in Remote => Executes(Oak, message[f], MessageLength(f))
                      THEN "scheduled" ELSE "lost"
    BY <1>6 DEF Schedule, Goto, TypeOK
  <2>2. ~dearer[f] /\ Generous(f) => (f \in Remote => Executes(Oak, message[f], MessageLength(f)))
    BY <2>1 DEF Bought, TaskWeighed, TaskPriced, Executes
  <2>3. pc'[f] \in {"scheduled", "lost"} /\ (~dearer[f] /\ Generous(f) => pc'[f] = "scheduled")
    BY <2>1, <2>2
  <2>. QED  BY <1>0, <2>1, <2>3 DEF Bought, PlaceIs, Weighed, Priced, TaskWeighed, TaskPriced
<1>7. CASE Trigger(f)
  <2>1. /\ pc[f] = "scheduled" /\ task' = task /\ message' = message
        /\ pc'[f] = IF Executes(Destination[f], task[f], TaskLength(f))
                      THEN "executed" ELSE "lost"
    BY <1>7 DEF Trigger, Goto, TypeOK
  <2>2. ~dearer[f] /\ Generous(f) => Executes(Destination[f], task[f], TaskLength(f))
    BY <2>1 DEF Bought, Weighed, Priced, Executes
  <2>3. pc'[f] \in {"executed", "lost"} /\ (~dearer[f] /\ Generous(f) => pc'[f] = "executed")
    BY <2>1, <2>2
  <2>. QED  BY <1>0, <2>1, <2>3 DEF Bought, PlaceIs, Weighed, Priced, TaskWeighed, TaskPriced
<1>. QED  BY <1>1, <1>2, <1>3, <1>4, <1>5, <1>6, <1>7 DEF FlowMoves, FlowStep

\* An upgrade a running flow does not find dearer.
LEMMA UpgradeIs ==
  ASSUME TypeOK, NEW k \in Chains, Upgrade(k), NEW f \in Flows, ~dearer'[f]
  PROVE  /\ ~dearer[f]
         /\ Running(f) => \A j \in {Oak, Destination[f]} :
              /\ Fits(callWeight'[j], callWeight[j])
              /\ rate[j] # Unset => rate'[j] # Unset /\ rate'[j] <= rate[j]
<1>1. PICK r \in Rates, w \in Weights :
        /\ rate' = [rate EXCEPT ![k] = r]
        /\ callWeight' = [callWeight EXCEPT ![k] = w]
        /\ dearer' = [g \in Flows |-> dearer[g] \/
            /\ Running(g) /\ k \in {Oak, Destination[g]}
            /\ \/ ~Fits(w, callWeight[k])
               \/ r = Unset
               \/ rate[k] # Unset /\ r # Unset /\ r > rate[k]]
  BY DEF Upgrade
<1>2. ~(dearer[f] \/
          /\ Running(f) /\ k \in {Oak, Destination[f]}
          /\ \/ ~Fits(w, callWeight[k])
             \/ r = Unset
             \/ rate[k] # Unset /\ r # Unset /\ r > rate[k])
  BY <1>1, Zenon
<1>3. ASSUME Running(f), NEW j \in {Oak, Destination[f]}
      PROVE  /\ Fits(callWeight'[j], callWeight[j])
             /\ rate[j] # Unset => rate'[j] # Unset /\ rate'[j] <= rate[j]
  <2>. j \in Chains /\ callWeight[j] \in Weight
    BY Constants DEF TypeOK
  <2>. (rate[j] # Unset => rate[j] \in Nat) /\ (r # Unset => r \in Nat)
    BY Constants DEF TypeOK
  <2>1. CASE j = k
    <3>. callWeight'[j] = w /\ rate'[j] = r
      BY <1>1, <2>1 DEF TypeOK
    <3>. QED  BY <1>2, <1>3, <2>1
  <2>2. CASE j # k
    <3>. callWeight'[j] = callWeight[j] /\ rate'[j] = rate[j]
      BY <1>1, <2>2 DEF TypeOK
    <3>. QED  BY DEF Fits, Weight
  <2>. QED  BY <2>1, <2>2
<1>. QED  BY <1>2, <1>3

LEMMA BoughtUpgrade ==
  ASSUME TypeOK, TypeOK', NEW k \in Chains, Upgrade(k), NEW f \in Flows, Bought(f)
  PROVE  Bought(f)'
<1>0. UNCHANGED <<pc, task, message>>
  BY DEF Upgrade
<1>. SUFFICES ASSUME ~dearer'[f], Generous(f)
              PROVE  /\ Weighed(f)' /\ Priced(f)' /\ TaskWeighed(f)' /\ TaskPriced(f)'
                     /\ pc'[f] # "lost"
  BY <1>0 DEF Bought, PlaceIs
<1>1. ~dearer[f] /\ Weighed(f) /\ Priced(f) /\ TaskWeighed(f) /\ TaskPriced(f) /\ pc[f] # "lost"
  BY UpgradeIs DEF Bought
<1>2. CASE ~Running(f)
  <2>. pc[f] \in {"idle", "executed", "threw"}
    BY <1>1, <1>2 DEF Running
  <2>. QED  BY <1>0 DEF Weighed, Priced, TaskWeighed, TaskPriced
<1>3. CASE Running(f)
  <2>. DEFINE D == Destination[f]
  <2>1. \A j \in {Oak, D} : /\ Fits(callWeight'[j], callWeight[j])
                            /\ rate[j] # Unset => rate'[j] # Unset /\ rate'[j] <= rate[j]
    BY <1>3, UpgradeIs
  <2>. D \in Chains /\ Oak \in Chains
    BY Constants
  <2>2. \A j \in Chains : /\ callWeight[j] \in Weight /\ callWeight'[j] \in Weight
                          /\ rate[j] # Unset => rate[j] \in Nat
                          /\ rate'[j] # Unset => rate'[j] \in Nat
    BY Constants DEF TypeOK
  <2>3. task[f] \in Purchase /\ message[f] \in Purchase
    BY DEF TypeOK
  <2>. HIDE DEF D
  <2>4. ASSUME NEW j \in {Oak, D}, NEW p \in Purchase, Fits(callWeight[j], p.atMost)
        PROVE  Fits(callWeight'[j], p.atMost)
    BY <2>1, <2>2, <2>4, FitsTransitive DEF Purchase
  <2>5. ASSUME NEW j \in {Oak, D}, NEW p \in Purchase, rate[j] # Unset,
               p.fee >= WeightToFee(p.overall, rate[j])
        PROVE  rate'[j] # Unset /\ p.fee >= WeightToFee(p.overall, rate'[j])
    <3>. rate[j] \in Nat /\ rate'[j] \in Nat /\ rate'[j] <= rate[j] /\ rate'[j] # Unset
      BY <2>1, <2>2, <2>5
    <3>. p.overall \in Weight /\ p.fee \in Nat
      BY DEF Purchase
    <3>. WeightToFee(p.overall, rate'[j]) <= WeightToFee(p.overall, rate[j])
         /\ WeightToFee(p.overall, rate'[j]) \in Nat /\ WeightToFee(p.overall, rate[j]) \in Nat
      BY FeeMonotone, FeeType
    <3>. QED  BY <2>5
  <2>6. Weighed(f)' /\ TaskWeighed(f)'
    BY <1>0, <1>1, <2>3, <2>4 DEF Weighed, TaskWeighed, D
  <2>7. Priced(f)' /\ TaskPriced(f)'
    BY <1>0, <1>1, <2>3, <2>5 DEF Priced, TaskPriced, D
  <2>. QED  BY <1>0, <1>1, <2>6, <2>7
<1>. QED  BY <1>2, <1>3

LEMMA PaidStep == Paid /\ [Next]_vars => Paid'
<1>. SUFFICES ASSUME Paid, [Next]_vars, NEW g \in Flows PROVE Bought(g)'
  BY TypeStep DEF Paid
<1>. TypeOK /\ TypeOK' /\ Bought(g)
  BY TypeStep DEF Paid
<1>1. ASSUME NEW f \in Flows, FlowMoves(f) PROVE Bought(g)'
  <2>1. CASE f = g
    BY <1>1, <2>1, BoughtStep
  <2>2. CASE f # g
    BY <1>1, <2>2, FlowIs, BoughtFrame DEF chainState
  <2>. QED  BY <2>1, <2>2
<1>2. ASSUME NEW k \in Chains, Upgrade(k) PROVE Bought(g)'
  BY <1>2, BoughtUpgrade
<1>3. ASSUME NEW k \in Chains, Initialize(k) PROVE Bought(g)'
  BY <1>3, BoughtFrame DEF Initialize
<1>4. CASE UNCHANGED vars
  BY <1>4, BoughtFrame DEF vars
<1>. QED  BY <1>1, <1>2, <1>3, <1>4 DEF Next, FlowMoves

(***************************************************************************)
(* PaidMessagesExecute: weights and rates may fall, and move between the   *)
(* reads of a flow, but a message is lost only when one of those the flow  *)
(* depends on has risen, or vanished, while it was on its way.             *)
(***************************************************************************)
THEOREM PaidExecutes == Spec => []PaidMessagesExecute
<1>1. Paid => PaidMessagesExecute
  BY DEF Paid, Bought, PaidMessagesExecute
<1>. QED  BY <1>1, PaidInit, PaidStep, PTL DEF Spec
-----------------------------------------------------------------------------
(***************************************************************************)
(* ThrowsOnlyWhenUnready: a flow throws at a missing adapter or rate only, *)
(* whatever its options.  It holds of the two functions whose task         *)
(* extrinsic can be created.                                               *)
(***************************************************************************)
THEOREM ThrowsUnready ==
  ASSUME \A f \in Flows : Kind[f] \in {"timeRemote", "priceSovereign"}
  PROVE  Spec => ThrowsOnlyWhenUnready
<1>1. ASSUME TypeOK, [Next]_vars, NEW f \in Flows, pc[f] # "threw", pc'[f] = "threw"
      PROVE  \E k \in {Oak, Destination[f]} : k \notin ready \/ rate[k] = Unset
  <2>0. AfterTask(f) # "threw"
    <3>1. CASE Kind[f] = "timeRemote"
      <4>. f \in Remote
        BY <3>1 DEF Remote
      <4>. QED  BY <3>1 DEF AfterTask, Encodes, ArgumentCount, CallArity, SequenceName,
                           InstructionSequence
    <3>2. CASE Kind[f] = "priceSovereign"
      BY <3>2 DEF AfterTask, Encodes, ArgumentCount, CallArity
    <3>. QED  BY <3>1, <3>2
  <2>1. PICK g \in Flows : FlowMoves(g)
    BY <1>1 DEF Next, FlowMoves, Upgrade, Initialize, vars
  <2>2. g = f
    BY <1>1, <2>1, FlowIs
  <2>3. CASE Begin(f)
    BY <1>1, <2>3 DEF Begin, Goto, TypeOK
  <2>4. CASE Price(f)
    BY <1>1, <2>0, <2>4 DEF Price, Goto, TypeOK
  <2>5. CASE PriceTask(f)
    BY <1>1, <2>5 DEF PriceTask, Goto, TypeOK
  <2>6. ~Weigh(f) /\ ~WeighTask(f) /\ ~Schedule(f) /\ ~Trigger(f)
    BY <1>1 DEF Weigh, WeighTask, Schedule, Trigger, Goto, TypeOK
  <2>. QED  BY <2>1, <2>2, <2>3, <2>4, <2>5, <2>6 DEF FlowMoves, FlowStep
<1>2. TypeOK /\ [Next]_vars =>
        [\A f \in Flows : pc[f] # "threw" /\ pc'[f] = "threw" =>
           \E k \in {Oak, Destination[f]} : k \notin ready \/ rate[k] = Unset]_vars
  BY <1>1
<1>. QED  BY <1>2, TypeCorrect, PTL DEF Spec, ThrowsOnlyWhenUnready

(***************************************************************************)
(* The other two functions never get their task extrinsic encoded: of      *)
(* priceRemote the arguments are one too many (15 for 14), of              *)
(* timeSovereign the name of the sequence is not one the chain has.        *)
(***************************************************************************)
NeverBuilt ==
  \A f \in Flows : Kind[f] \in {"priceRemote", "timeSovereign"} =>
    pc[f] \in {"idle", "weighing", "pricing", "threw"}

\* The flows priceRemote and timeSovereign never build their task, for any
\* options, rates and weights.
THEOREM NotBuilt == Spec => []NeverBuilt
<1>1. Init => NeverBuilt
  BY DEF Init, NeverBuilt
<1>2. TypeOK /\ NeverBuilt /\ [Next]_vars => NeverBuilt'
  <2>. SUFFICES ASSUME TypeOK, NeverBuilt, [Next]_vars, NEW f \in Flows,
                       Kind[f] \in {"priceRemote", "timeSovereign"}
                PROVE  pc'[f] \in {"idle", "weighing", "pricing", "threw"}
    BY DEF NeverBuilt
  <2>. pc[f] \in {"idle", "weighing", "pricing", "threw"}
    BY DEF NeverBuilt
  <2>0. AfterTask(f) = "threw"
    <3>1. CASE Kind[f] = "priceRemote"
      <4>1. ArgumentCount(f) = 15 /\ CallArity(f) = 14
        BY <3>1 DEF ArgumentCount, CallArity
      <4>. QED  BY <4>1 DEF AfterTask, Encodes
    <3>2. CASE Kind[f] = "timeSovereign"
      <4>. f \notin Remote
        BY <3>2 DEF Remote
      <4>. QED  BY <3>2 DEF AfterTask, Encodes, SequenceName, InstructionSequence
    <3>. QED  BY <3>1, <3>2
  <2>1. CASE pc' = pc
    BY <2>1
  <2>2. ASSUME NEW g \in Flows, FlowMoves(g)
        PROVE  pc'[f] \in {"idle", "weighing", "pricing", "threw"}
    <3>1. CASE g # f
      BY <2>2, <3>1, FlowIs
    <3>2. CASE g = f
      BY <2>0, <2>2, <3>2 DEF FlowMoves, FlowStep, Begin, Weigh, Price, WeighTask, PriceTask,
         Schedule, Trigger, Goto, TypeOK
    <3>. QED  BY <3>1, <3>2
  <2>. QED  BY <2>1, <2>2 DEF Next, FlowMoves, Upgrade, Initialize, vars
<1>. QED  BY <1>1, <1>2, TypeCorrect, PTL DEF Spec
=============================================================================
