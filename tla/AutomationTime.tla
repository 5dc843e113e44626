--------------------------- MODULE AutomationTime ---------------------------
(***************************************************************************)
(* The automationTime pallet of the chain, as far as the test helpers and  *)
(* the demo scripts depend on it: the storage their queries read, the      *)
(* dispatch of scheduleDynamicDispatchTask and cancelTask, and the events. *)
(* The names are those of packages/api-augment; the pallet itself is not   *)
(* part of the repository.                                                 *)
(*                                                                         *)
(* Time counts slots of slotSizeSeconds, so that every time is a multiple  *)
(* of it.  The id of a task is unique on the chain; a task is named by the *)
(* call that schedules it.                                                 *)
(***************************************************************************)
EXTENDS Naturals, FiniteSets

CONSTANTS
  Tasks,
  Owner,            \* Owner[t]: the account that schedules t
  Bonding,          \* the tasks whose call is delegatorBondMore
  Frequency,        \* Frequency[t]: of a recurring task, 0 if t is fixed
  MaxTime           \* bound: slots that begin

ASSUME PalletAssumption ==
  /\ IsFiniteSet(Tasks)
  /\ Bonding \subseteq Tasks
  /\ Frequency \in [Tasks -> Nat]
  /\ MaxTime \in Nat

VARIABLES
  time,   \* the current slot
  due,    \* due[t]: the slots t is scheduled for, {} if there is no such task
  head    \* methods of the events of the last block

pallet == <<time, due, head>>

\* Of the errors, those a call of the scripts can meet: slots do not fill.
Errors == {"PastTime", "TaskDoesNotExist"}

\* Of the events, only those a script listens to.
Methods == {"DelegationIncreased"}

PalletTypeOK ==
  /\ time \in 0 .. MaxTime
  /\ due \in [Tasks -> SUBSET Nat]
  /\ head \subseteq Methods

PalletInit ==
  /\ time = 0
  /\ due = [t \in Tasks |-> {}]
  /\ head = {}
-----------------------------------------------------------------------------
\* automationTime.scheduledTasksV3
ScheduledTasks(slot) == {t \in Tasks : slot \in due[t]}

\* The errors that apply to the dispatch of a schedule.
ScheduleErrors(slots) ==
  IF \E s \in slots : s <= time THEN {"PastTime"} ELSE {}

\* "Tasks can only can be cancelled by their owners."
CancelErrors(account, t) ==
  IF due[t] # {} /\ Owner[t] = account THEN {} ELSE {"TaskDoesNotExist"}

\* The dispatch, which is without effect where an error applies.
Scheduled(t, slots) ==
  due' = IF ScheduleErrors(slots) = {} THEN [due EXCEPT ![t] = slots] ELSE due

Cancelled(account, t) ==
  due' = IF CancelErrors(account, t) = {} THEN [due EXCEPT ![t] = {}] ELSE due

\* What is left of t when slot has been run; a recurring task is rescheduled.
Remaining(t, slot) ==
  IF slot \in due[t] /\ Frequency[t] > 0 THEN {slot + Frequency[t]} ELSE due[t] \ {slot}

\* A slot begins: its tasks are triggered; the call of a task may fail.
NextSlot ==
  /\ time < MaxTime
  /\ time' = time + 1
  /\ due' = [t \in Tasks |-> Remaining(t, time + 1)]
  /\ head' \in {{}} \cup {{"DelegationIncreased"} : t \in ScheduledTasks(time + 1) \cap Bonding}
=============================================================================
