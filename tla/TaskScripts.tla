---------------------------- MODULE TaskScripts ----------------------------
(***************************************************************************)
(* The programs that schedule and cancel dynamic dispatch tasks:           *)
(*   - the functional tests (test/functional/), which call the helpers of  *)
(*     test/utils/helpFn.ts over AutomationTimeApi.ts.  A test awaits one  *)
(*     helper after the other.  The tests run one after the other, but     *)
(*     when one exceeds its timeout the next begins while the calls of the *)
(*     first go on;                                                        *)
(*   - the demo scripts scheduleFixedDynamicDispatchTask.js and            *)
(*     scheduleRecurringDynamicDispatchTask.js, each a process of its own  *)
(*     that schedules one task, and listeners (module ListenEvents).       *)
(*                                                                         *)
(* A call computes its slots from the clock, signs (a test with the next   *)
(* index of its account, a demo with the nonce of its account), submits,   *)
(* waits for finality, and reads the chain.  Forks and lost transactions   *)
(* are in module SendExtrinsic, and left out here: every accepted          *)
(* transaction gets into the one chain.                                    *)
(***************************************************************************)
EXTENDS AutomationTime, ListenEvents

CONSTANTS
  Calls,       \* a call schedules the task of its name, or cancels one
  Cancels,     \* the calls that cancel
  Demos,       \* the calls of demo scripts; the others are of tests
  Verified,    \* the calls of the helpers that verify what they did
  Target,      \* Target[k]: the id that k in Cancels is given
  Sender,      \* Sender[k]: the account of its keyring pair
  TestOf,      \* TestOf[k]: number of the test of k, 0 for a demo
  After,       \* After[k]: the calls that its test awaits before k
  ListenAfter, \* ListenAfter[l]: the calls a script awaits before it listens
  Scenarios,   \* sets of calls and listeners that run together
  Hour, Day    \* in slots

Schedules == Calls \ Cancels

ASSUME ScriptAssumption ==
  /\ IsFiniteSet(Calls) /\ Cancels \subseteq Calls /\ Demos \subseteq Schedules
  /\ Verified \subseteq Calls \ Demos
  /\ Schedules \subseteq Tasks
  /\ Target \in [Cancels -> Tasks]
  /\ \A k \in Schedules : Owner[k] = Sender[k]
  /\ TestOf \in [Calls -> Nat]
  /\ \A k \in Calls : TestOf[k] = 0 <=> k \in Demos
  /\ After \in [Calls -> SUBSET Calls]
  \* A test awaits one helper after the other.
  /\ \A j, k \in Calls \ Demos :
       j # k /\ TestOf[j] = TestOf[k] => j \in After[k] \/ k \in After[j]
  /\ \A k \in Calls : \A j \in After[k] : After[j] \subseteq After[k] /\ TestOf[j] = TestOf[k]
  /\ ListenAfter \in [Listeners -> SUBSET Calls]
  /\ Scenarios \subseteq SUBSET (Calls \cup Listeners)
  /\ Hour \in Nat \ {0} /\ Day \in Nat \ {0}

VARIABLES
  active,   \* the calls and listeners of this run
  pc,       \* pc[k]: the await k is at, or how it ended
  clock,    \* clock[k]: what k has read from the clock
  nonce,    \* nonce[k]: the nonce k is signed with
  pool,     \* the submitted transactions that are not in the chain
  chain,    \* the calls whose transactions are in the chain
  errors,   \* errors[k]: the dispatch errors of k's transaction
  expired   \* the tests that have exceeded their timeout

callVars == <<active, pc, clock, nonce, pool, chain, errors, expired>>
vars == <<pallet, listenVars, callVars>>

Settled == {"returned", "rejected", "crashed"}

TypeOK ==
  /\ PalletTypeOK /\ ListenTypeOK
  /\ active \in Scenarios
  /\ pc \in [Calls -> {"idle", "signing", "built", "sent", "reading", "usurped"} \cup Settled]
  /\ clock \in [Calls -> 0 .. MaxTime]
  /\ nonce \in [Calls -> Nat]
  /\ pool \subseteq Calls /\ chain \subseteq Calls /\ pool \cap chain = {}
  /\ errors \in [Calls -> SUBSET Errors]
  /\ expired \subseteq Nat

Init ==
  /\ PalletInit /\ ListenInit
  /\ active \in Scenarios
  /\ pc = [k \in Calls |-> "idle"]
  /\ clock = [k \in Calls |-> 0]
  /\ nonce = [k \in Calls |-> 0]
  /\ pool = {} /\ chain = {}
  /\ errors = [k \in Calls |-> {}]
  /\ expired = {}

Goto(k, from, to) == pc[k] = from /\ pc' = [pc EXCEPT ![k] = to]
-----------------------------------------------------------------------------
\* A call of test n is not made when one it awaits has not returned; what is
\* thrown ends the test.
Over(k) == pc[k] \in Settled \/ \E j \in After[k] : pc[j] \in Settled \ {"returned"}

Finished(n) == \A k \in active \cap Calls : TestOf[k] = n => Over(k)

\* Tests run one after the other, in the order of their numbers.
Turn(n) == \A k \in active \cap Calls :
  TestOf[k] > 0 /\ TestOf[k] < n => Finished(TestOf[k]) \/ TestOf[k] \in expired

\* Jest gives up on test n and goes on with the next; nothing stops its calls.
Expire(n) ==
  /\ Turn(n) /\ n \notin expired /\ ~Finished(n)
  /\ expired' = expired \cup {n}
  /\ UNCHANGED <<pallet, listenVars, active, pc, clock, nonce, pool, chain, errors>>

\* Mutant: the current hour (day) is taken for the next.
CurrentSlots(k) ==
  CASE Frequency[k] > 0 -> {clock[k] - (clock[k] % Hour)}
    [] Frequency[k] = 0 /\ k \in Demos ->
         {clock[k] - (clock[k] % Hour) + i * Hour : i \in 0 .. 4}
    [] OTHER -> {clock[k] - (clock[k] % Day) + i * Day : i \in 0 .. 2}

\* The execution times k has computed.  Recurring: the next hour.  Fixed: the
\* next five hours in the demo, three days at one hour of the day in the
\* tests (module Recurrer).
Slots(k) ==
  CASE Frequency[k] > 0 -> {clock[k] - (clock[k] % Hour) + Hour}
    [] Frequency[k] = 0 /\ k \in Demos ->
         {clock[k] - (clock[k] % Hour) + i * Hour : i \in 1 .. 5}
    [] OTHER -> {clock[k] - (clock[k] % Day) + i * Day : i \in 1 .. 3}

\* Mutant: the awaited calls are not awaited.
BeginUnawaited(k) ==
  /\ k \in active /\ Turn(TestOf[k])
  /\ Goto(k, "idle", "signing")
  /\ clock' = [clock EXCEPT ![k] = IF k \in Cancels THEN 0 ELSE time]
  /\ UNCHANGED <<pallet, listenVars, active, nonce, pool, chain, errors, expired>>

\* The call: a schedule takes its execution times from the clock.
Begin(k) ==
  /\ k \in active /\ Turn(TestOf[k])
  /\ \A j \in After[k] : pc[j] = "returned"
  /\ Goto(k, "idle", "signing")
  /\ clock' = [clock EXCEPT ![k] = IF k \in Cancels THEN 0 ELSE time]
  /\ UNCHANGED <<pallet, listenVars, active, nonce, pool, chain, errors, expired>>

Of(account, S) == {k \in S : Sender[k] = account}

AccountNonce(account) == Cardinality(Of(account, chain))

Clashing(k) == {j \in Of(Sender[k], pool) : nonce[j] = nonce[k]}

\* system_accountNextIndex: past the chain and past the pool.
NextIndex(account) ==
  CHOOSE n \in AccountNonce(account) .. AccountNonce(account) + Cardinality(pool) :
    /\ \A k \in Of(account, pool) : nonce[k] # n
    /\ \A m \in AccountNonce(account) .. n : m < n => \E k \in Of(account, pool) : nonce[k] = m

\* The extrinsic is signed: by the helpers of the tests with nonce -1, for
\* the next index; by a demo with no nonce given, for which the polkadot API
\* takes the account's nonce on the chain, whatever is in the pool.
Sign(k) ==
  /\ Goto(k, "signing", "built")
  /\ nonce' = [nonce EXCEPT ![k] = IF k \in Demos THEN AccountNonce(Sender[k])
                                                 ELSE NextIndex(Sender[k])]
  /\ UNCHANGED <<pallet, listenVars, active, clock, pool, chain, errors, expired>>

\* The pool takes k, in place of a transaction with its nonce if there is one.
Submit(k) ==
  /\ nonce[k] >= AccountNonce(Sender[k])
  /\ pc[k] = "built"
  /\ pc' = [j \in Calls |-> IF j = k THEN "sent"
                            ELSE IF j \in Clashing(k) THEN "usurped" ELSE pc[j]]
  /\ pool' = (pool \ Clashing(k)) \cup {k}
  /\ UNCHANGED <<pallet, listenVars, active, clock, nonce, chain, errors, expired>>

Refusable(k) == nonce[k] < AccountNonce(Sender[k]) \/ Clashing(k) # {}

\* Mutant: nothing catches the refusal.
RefusedUncaught(k) ==
  /\ Refusable(k) /\ k \in Demos
  /\ Goto(k, "built", "crashed")
  /\ UNCHANGED <<pallet, listenVars, active, clock, nonce, pool, chain, errors, expired>>

\* The node refuses k: the helper of the tests rejects, and the demo, which
\* neither awaits nor catches signAndSend, ends with an unhandled rejection.
Refused(k) ==
  /\ Refusable(k)
  /\ Goto(k, "built", IF k \in Demos THEN "crashed" ELSE "rejected")
  /\ UNCHANGED <<pallet, listenVars, active, clock, nonce, pool, chain, errors, expired>>

ErrorsOf(k) == IF k \in Cancels THEN CancelErrors(Sender[k], Target[k])
                                ELSE ScheduleErrors(Slots(k))

\* A block with k is built: k is dispatched.
Include(k) ==
  /\ k \in pool /\ nonce[k] = AccountNonce(Sender[k])
  /\ pool' = pool \ {k} /\ chain' = chain \cup {k}
  /\ errors' = [errors EXCEPT ![k] = ErrorsOf(k)]
  /\ IF k \in Cancels THEN Cancelled(Sender[k], Target[k]) ELSE Scheduled(k, Slots(k))
  /\ head' = {} /\ Publish({})
  /\ UNCHANGED <<time, subscription, timer, answer, active, pc, clock, nonce, expired>>

\* Mutant: any status will do.
FinalizedEarly(k) ==
  /\ Goto(k, "sent", IF errors[k] # {} THEN "rejected"
                     ELSE IF k \in Verified THEN "reading" ELSE "returned")
  /\ UNCHANGED <<pallet, listenVars, active, clock, nonce, pool, chain, errors, expired>>

\* Mutant: the dispatch error is not looked at.
FinalizedUnchecked(k) ==
  /\ k \in chain
  /\ Goto(k, "sent", IF k \in Verified THEN "reading" ELSE "returned")
  /\ UNCHANGED <<pallet, listenVars, active, clock, nonce, pool, chain, errors, expired>>

\* The callback runs with a Finalized status: a dispatch error rejects.  The
\* helpers that verify go on to read the block and the tasks of a slot.
Finalized(k) ==
  /\ k \in chain
  /\ Goto(k, "sent", IF errors[k] # {} THEN "rejected"
                     ELSE IF k \in Verified THEN "reading" ELSE "returned")
  /\ UNCHANGED <<pallet, listenVars, active, clock, nonce, pool, chain, errors, expired>>

\* The verification: what is compared with the id is the second character
\* of the account and of the id of each scheduled task, so that no task is
\* found, and the assertion is that none is found.
Verify(k) ==
  /\ Goto(k, "reading", "returned")
  /\ UNCHANGED <<pallet, listenVars, active, clock, nonce, pool, chain, errors, expired>>

CallStep(k) ==
  \/ Begin(k) \/ Sign(k) \/ Submit(k) \/ Refused(k) \/ Include(k) \/ Finalized(k)
  \/ Verify(k)
-----------------------------------------------------------------------------
Tick ==
  /\ NextSlot
  /\ Publish(head')
  /\ UNCHANGED <<subscription, timer, answer, callVars>>

StartListening(l) ==
  /\ l \in active /\ \A k \in ListenAfter[l] : pc[k] = "returned"
  /\ Listen(l)
  /\ UNCHANGED <<pallet, callVars>>

ListenerStep(l) == ListenStep(l, head) /\ UNCHANGED <<pallet, callVars>>

Tests == {TestOf[k] : k \in Calls} \ {0}

Next ==
  \/ \E k \in Calls : CallStep(k)
  \/ \E n \in Tests : Expire(n)
  \/ \E l \in Listeners : StartListening(l) \/ ListenerStep(l)
  \/ Tick

Spec == Init /\ [][Next]_vars

\* While a call has begun and can go on, some call does: the node answers,
\* builds blocks and makes them final, and the event loop runs what is due.
\* Timers fire.
Fairness ==
  /\ WF_vars(\E k \in Calls : CallStep(k) /\ pc[k] # "idle")
  /\ WF_vars(\E l \in HasTimeout : TimerFires(l) /\ UNCHANGED <<pallet, callVars>>)

FairSpec == Spec /\ Fairness
-----------------------------------------------------------------------------
(***************************************************************************)
(* "Make sure the task has been canceled" (helpFn.ts line 298; the check   *)
(* that follows cannot fail): when a cancellation has returned, the task   *)
(* is in no slot and comes back in none, whether or not it was triggered   *)
(* and has rescheduled itself while the cancellation was under way.        *)
(***************************************************************************)
CancelledIsGone ==
  \A k \in Cancels : pc[k] = "returned" => due[Target[k]] = {}

(***************************************************************************)
(* "Repeated cancellation ... will fail" (cancel.test.ts line 54): of all  *)
(* calls that cancel a task, however they overlap, at most one returns.    *)
(***************************************************************************)
CancelReturnsOnce ==
  \A k \in Cancels : pc[k] = "returned" =>
    \A j \in Cancels \ {k} : Target[j] = Target[k] => pc[j] # "returned"

(***************************************************************************)
(* A schedule that has returned is on the chain until somebody cancels it: *)
(* a fixed task with those of the computed slots that are still to come, a *)
(* recurring one with the next multiple of its frequency (helpFn.ts lines  *)
(* 149 to 176).                                                            *)
(***************************************************************************)
\* The next slot of a recurring task.
IsNext(k, s) ==
  \/ s \in Slots(k) /\ s > time
  \/ /\ s \in time + 1 .. time + Frequency[k]
     /\ \E first \in Slots(k) : first < s /\ (s - first) % Frequency[k] = 0

IsScheduled(k) ==
  IF Frequency[k] = 0 THEN due[k] = {s \in Slots(k) : s > time}
                      ELSE \E s \in due[k] : due[k] = {s} /\ IsNext(k, s)

ReturnedScheduleRuns ==
  \A k \in Schedules : pc[k] = "returned" =>
    \/ IsScheduled(k)
    \/ \E j \in Cancels : Target[j] = k /\ j \in chain /\ errors[j] = {}

(***************************************************************************)
(* The execution times a call has computed are in the past for the chain   *)
(* only if a slot has begun since the call read the clock; never because   *)
(* the code and the chain count differently (recurrer.ts lines 23 and 60,  *)
(* scheduleFixedDynamicDispatchTask.js line 15).                           *)
(***************************************************************************)
PastOnlyWhenLate ==
  \A k \in Schedules : "PastTime" \in errors[k] => clock[k] < time

(***************************************************************************)
(* Calls that a test awaits never take the nonce of one another: the node  *)
(* refuses or replaces a transaction only where another call that was      *)
(* signed with its nonce overlaps with it, of a demo beside it, which does *)
(* not look at the pool, or of a test that has expired                     *)
(* (AutomationTimeApi.ts lines 202 and 223, constants.ts line 6,           *)
(* scheduleFixedDynamicDispatchTask.js line 36).                           *)
(***************************************************************************)
Overlaps(k, j) == j \in active /\ j # k /\ j \notin After[k] /\ k \notin After[j]
                  /\ (k \in Demos \/ j \in Demos \/ TestOf[k] \in expired
                                  \/ TestOf[j] \in expired)

NodeRefused(k) ==
  pc[k] \in {"usurped", "crashed"} \/ (pc[k] = "rejected" /\ k \notin chain)

Signed(k) == pc[k] \notin {"idle", "signing"}

Contested(k) ==
  \E j \in Calls : /\ Sender[j] = Sender[k] /\ Overlaps(k, j)
                  /\ Signed(j) /\ nonce[j] = nonce[k]

RefusedOnlyInOverlap == \A k \in Calls : NodeRefused(k) => Contested(k)

(***************************************************************************)
(* However calls overlap, expire and are replaced in the pool, a task has  *)
(* one life and a caller is told the truth about its call: one that        *)
(* returned had its effect, and one that rejected or crashed has none and  *)
(* never will (helpFn.ts lines 126 to 141): see TaskLife.                  *)
(***************************************************************************)
Effective == {k \in chain : errors[k] = {}}

Life(t) ==
  CASE t \notin Effective -> "none"
    [] t \in Effective /\ due[t] # {} -> "scheduled"
    [] OTHER -> IF \E k \in Cancels \cap Effective : Target[k] = t THEN "cancelled" ELSE "finished"

Told(k) ==
  CASE pc[k] = "returned" -> "done"
    [] pc[k] \in {"rejected", "crashed"} -> "failed"
    [] OTHER -> "nothing"

Tasking == INSTANCE TaskLife WITH
  Recurring <- {t \in Schedules : Frequency[t] > 0},
  life <- [t \in Schedules |-> Life(t)], effective <- Effective,
  told <- [k \in Schedules \cup Cancels |-> Told(k)]

ImplementsTaskLife == Tasking!Spec

(***************************************************************************)
(* Every call that begins ends, and there are finitely many, so eventually *)
(* none is under way: it returns, rejects, or its process ends,            *)
(* unless another transaction takes its place in the pool, for which the   *)
(* callback of sendExtrinsicToChain has no case (helpFn.ts lines 126, 149  *)
(* and 179).                                                               *)
(***************************************************************************)
EveryCallEnds ==
  <>[](\A k \in Calls : pc[k] # "idle" => pc[k] \in Settled \cup {"usurped"})
=============================================================================
