---------------------------- MODULE ListenEvents ----------------------------
(***************************************************************************)
(* listenEvents of the demo scripts (demo/src/utils.js): a subscription to *)
(* system.events that is given up after a timeout.  The timer, the answer  *)
(* of the node and the callbacks that are queued race one another.         *)
(*                                                                         *)
(* The polkadot API resolves the subscription, which sets unsub, before it *)
(* runs the first callback, and runs every callback in a task of its own:  *)
(* one that is queued still runs after unsub().  A listener has a process  *)
(* of its own, which an uncaught exception ends.  The parameter conditions *)
(* is left out: an event passes whatever it is (lines 109 to 120).         *)
(***************************************************************************)
EXTENDS Sequences, Naturals

CONSTANTS
  Listeners,
  Method,     \* Method[l]: the event l waits for
  HasTimeout  \* the listeners with a timeout

VARIABLES
  subscription,  \* subscription[l]: unsub is set iff it is live or closed
  timer,         \* timer[l]: of setTimeout
  queue,         \* queue[l]: of each callback to run, whether it has the event
  answer         \* answer[l]: how the promise settled

listenVars == <<subscription, timer, queue, answer>>

ListenTypeOK ==
  /\ subscription \in [Listeners -> {"none", "asked", "live", "failed", "closed"}]
  /\ timer \in [Listeners -> {"none", "pending", "cleared", "fired"}]
  /\ queue \in [Listeners -> Seq(BOOLEAN)]
  /\ answer \in [Listeners -> {"pending", "found", "null", "crashed"}]

ListenInit ==
  /\ subscription = [l \in Listeners |-> "none"]
  /\ timer = [l \in Listeners |-> "none"]
  /\ queue = [l \in Listeners |-> <<>>]
  /\ answer = [l \in Listeners |-> "pending"]

\* resolve() has an effect the first time it is called.
Resolve(l, value) ==
  answer' = [answer EXCEPT ![l] = IF @ = "pending" THEN value ELSE @]

\* The events of a block reach every open subscription.
Publish(methods) ==
  queue' = [l \in Listeners |-> IF subscription[l] = "live"
                                  THEN Append(queue[l], Method[l] \in methods)
                                  ELSE queue[l]]
-----------------------------------------------------------------------------
\* The call, up to the await of the subscription.
Listen(l) ==
  /\ subscription[l] = "none"
  /\ subscription' = [subscription EXCEPT ![l] = "asked"]
  /\ timer' = [timer EXCEPT ![l] = IF l \in HasTimeout THEN "pending" ELSE "none"]
  /\ UNCHANGED <<queue, answer>>

\* The node answers with the events of its last block.
Subscribed(l, methods) ==
  /\ subscription[l] = "asked" /\ answer[l] # "crashed"
  /\ subscription' = [subscription EXCEPT ![l] = "live"]
  /\ queue' = [queue EXCEPT ![l] = <<Method[l] \in methods>>]
  /\ UNCHANGED <<timer, answer>>

\* It refuses, which is only logged.
SubscribeFails(l) ==
  /\ subscription[l] = "asked" /\ answer[l] # "crashed"
  /\ subscription' = [subscription EXCEPT ![l] = "failed"]
  /\ UNCHANGED <<timer, queue, answer>>

\* Mutant: the timer goes on when the event is found.
CallbackKeepsTimer(l) ==
  /\ queue[l] # <<>>
  /\ queue' = [queue EXCEPT ![l] = Tail(@)]
  /\ IF Head(queue[l])
       THEN /\ subscription' = [subscription EXCEPT ![l] = "closed"]
            /\ UNCHANGED timer
            /\ Resolve(l, "found")
       ELSE UNCHANGED <<subscription, timer, answer>>

\* One run of the callback.
Callback(l) ==
  /\ queue[l] # <<>>
  /\ queue' = [queue EXCEPT ![l] = Tail(@)]
  /\ IF Head(queue[l])
       THEN /\ subscription' = [subscription EXCEPT ![l] = "closed"]
            /\ timer' = [timer EXCEPT ![l] = IF @ = "pending" THEN "cleared" ELSE @]
            /\ Resolve(l, "found")
       ELSE UNCHANGED <<subscription, timer, answer>>

\* Mutant: resolve() without null.
TimerFiresVoid(l) ==
  /\ timer[l] = "pending"
  /\ timer' = [timer EXCEPT ![l] = "fired"]
  /\ IF subscription[l] \in {"live", "closed"}
       THEN subscription' = [subscription EXCEPT ![l] = "closed"] /\ Resolve(l, "undefined")
       ELSE answer' = [answer EXCEPT ![l] = "crashed"] /\ UNCHANGED subscription
  /\ UNCHANGED queue

\* Mutant: the timer does nothing while there is no subscription to close.
TimerFiresIfLive(l) ==
  /\ timer[l] = "pending"
  /\ timer' = [timer EXCEPT ![l] = "fired"]
  /\ IF subscription[l] = "live"
       THEN subscription' = [subscription EXCEPT ![l] = "closed"] /\ Resolve(l, "null")
       ELSE UNCHANGED <<subscription, answer>>
  /\ UNCHANGED queue

\* The timer: unsub() throws where unsub is still null.
TimerFires(l) ==
  /\ timer[l] = "pending"
  /\ timer' = [timer EXCEPT ![l] = "fired"]
  /\ IF subscription[l] \in {"live", "closed"}
       THEN subscription' = [subscription EXCEPT ![l] = "closed"] /\ Resolve(l, "null")
       ELSE answer' = [answer EXCEPT ![l] = "crashed"] /\ UNCHANGED subscription
  /\ UNCHANGED queue

ListenStep(l, methods) ==
  Subscribed(l, methods) \/ SubscribeFails(l) \/ Callback(l) \/ TimerFires(l)
-----------------------------------------------------------------------------
(***************************************************************************)
(* A listener that has answered holds nothing: its subscription is closed  *)
(* and its timer does not run, whichever of the event and the timeout came *)
(* first, callbacks that were queued before unsub() included (lines 94 to  *)
(* 99 and 145 to 149).                                                     *)
(***************************************************************************)
QuietAfterAnswer ==
  \A l \in Listeners : answer[l] \in {"found", "null"} =>
    subscription[l] = "closed" /\ timer[l] # "pending"

(***************************************************************************)
(* A listener with a timeout ends, whether or not the node answers and     *)
(* whatever events arrive; where the node has not answered by then, by an  *)
(* exception in the timer (line 96).                                       *)
(***************************************************************************)
ListenerEnds ==
  <>[](\A l \in HasTimeout : subscription[l] # "none" => answer[l] # "pending")
=============================================================================
