------------------------------ MODULE TaskLife ------------------------------
(***************************************************************************)
(* What the calls that schedule and cancel tasks promise, without clocks,  *)
(* nonces, pools and blocks: a task is scheduled once; it ends when it has *)
(* run for the last time, which a recurring one never does, or when one    *)
(* call cancels it, and does not come back; and a caller is told the truth *)
(* about its call: done when it had its effect, failed when it had none    *)
(* and never will.                                                         *)
(***************************************************************************)
CONSTANTS
  Schedules,  \* a call schedules the task of its name
  Cancels,
  Target,     \* Target[k]: the task that k in Cancels is given
  Recurring   \* tasks that run for ever

VARIABLES
  life,       \* life[t]
  effective,  \* the calls that had their effect
  told        \* told[k]: what the caller of k knows

vars == <<life, effective, told>>

Init ==
  /\ life = [t \in Schedules |-> "none"]
  /\ effective = {}
  /\ told = [k \in Schedules \cup Cancels |-> "nothing"]

Change(t, from, to) == life[t] = from /\ life' = [life EXCEPT ![t] = to]

\* A call has its effect once, and before its caller is told.
Take(k) ==
  /\ k \notin effective /\ told[k] = "nothing"
  /\ effective' = effective \cup {k}
  /\ UNCHANGED told

Schedule(t) == Take(t) /\ Change(t, "none", "scheduled")

Cancel(k) ==
  /\ Target[k] \in Schedules
  /\ Take(k) /\ Change(Target[k], "scheduled", "cancelled")

\* Tasks run for the last time.
Finish ==
  /\ \E T \in SUBSET {t \in Schedules \ Recurring : life[t] = "scheduled"} :
       life' = [t \in Schedules |-> IF t \in T THEN "finished" ELSE life[t]]
  /\ UNCHANGED <<effective, told>>

Tell(k) ==
  /\ told[k] = "nothing"
  /\ told' = [told EXCEPT ![k] = IF k \in effective THEN "done" ELSE "failed"]
  /\ UNCHANGED <<life, effective>>

Next ==
  \/ \E t \in Schedules : Schedule(t)
  \/ \E k \in Cancels : Cancel(k)
  \/ \E k \in Schedules \cup Cancels : Tell(k)
  \/ Finish

Spec == Init /\ [][Next]_vars
=============================================================================
