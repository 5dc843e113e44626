--------------------------- MODULE MCTaskScripts ---------------------------
(* The tests of cancel.test.ts (a task that does not exist; schedule,       *)
(* cancel, cancel again) followed by one of dynamicDispatchTask.test.ts     *)
(* (schedule a recurring task, cancel); the demo scripts beside a test and  *)
(* beside one another, all with one account; a demo with a listener that    *)
(* awaits it and gives up after a while, and one that waits for ever.       *)
EXTENDS TaskScripts, TLC

CONSTANTS nonexistent, n1, s2, c2, again2, s3, c3, fixed, recurring, alice, patient, hasty

MCTests == {n1, s2, c2, again2, s3, c3}
MCTarget == (n1 :> nonexistent) @@ (c2 :> s2) @@ (again2 :> s2) @@ (c3 :> s3)
MCSender == [k \in Calls |-> alice]
MCOwner == [t \in Tasks |-> alice]
MCFrequency == [t \in Tasks |-> CASE t = s3 -> 1 [] t = recurring -> 2 [] OTHER -> 0]
MCTestOf == [k \in Calls |->
  CASE k = n1 -> 1 [] k \in {s2, c2, again2} -> 2 [] k \in {s3, c3} -> 3 [] OTHER -> 0]
MCAfter == [k \in Calls |->
  CASE k = c2 -> {s2} [] k = again2 -> {s2, c2} [] k = c3 -> {s3} [] OTHER -> {}]
MCListenAfter == [l \in Listeners |-> {recurring}]
MCMethod == [l \in Listeners |-> "DelegationIncreased"]
MCScenarios == {{s2, c2, again2, s3, c3}, {n1, s2, c2}, {s2, c2, recurring}, {s3, c3, fixed},
                {fixed, recurring}, {recurring, patient, hasty}}
=============================================================================
