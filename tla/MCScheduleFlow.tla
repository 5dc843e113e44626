--------------------------- MODULE MCScheduleFlow ---------------------------
(* Tasks that Turing executes on Shiden: two flows that pay through the     *)
(* remote derivative account, one with an overall weight and one with an    *)
(* instruction count given, and a price flow that pays through the          *)
(* sovereign account.                                                       *)
EXTENDS ScheduleFlow, TLC

CONSTANTS viaAstar, viaMoonbeam, sovereign, turing, shiden

MCKind == [f \in Flows |-> IF f = sovereign THEN "priceSovereign" ELSE "timeRemote"]
MCDestination == [f \in Flows |-> shiden]
NoOptions == [instructionCount |-> 0, overallWeight |-> Unset,
              executionFeeAmount |-> Unset]
MCOptions == [f \in Flows |->
  CASE f = viaAstar    -> [NoOptions EXCEPT !.overallWeight = [refTime |-> 6, proofSize |-> 6]]
    [] f = viaMoonbeam -> [NoOptions EXCEPT !.instructionCount = 5]
    [] f = sovereign   -> NoOptions]
MCWeights == {[refTime |-> 1, proofSize |-> 2], [refTime |-> 2, proofSize |-> 1],
              [refTime |-> 1, proofSize |-> 1]}
\* As in the tables, instructions on an OAK chain have no proof size.
MCInstructionWeight == [k \in Chains |-> [refTime |-> 1, proofSize |-> IF k = turing THEN 0 ELSE 1]]
MCRates == {1, 3, Unset}

\* The other two functions, without options.
OtherKind == [f \in Flows |-> IF f = sovereign THEN "timeSovereign" ELSE "priceRemote"]
OtherOptions == [f \in Flows |-> NoOptions]
=============================================================================
