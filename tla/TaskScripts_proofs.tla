------------------------- MODULE TaskScripts_proofs -------------------------
(***************************************************************************)
(* What TaskScripts says of cancellations, schedules, nonces and           *)
(* listeners, for every set of tests and scripts, every assignment of      *)
(* accounts and every number of slots.                                     *)
(***************************************************************************)
EXTENDS TaskScripts, FiniteSetTheorems, FunctionTheorems, WellFoundedInduction, TLAPS

LEMMA Least ==
  ASSUME NEW S \in SUBSET Nat, S # {}
  PROVE  \E n \in S : \A m \in S : n <= m
<1>1. PICK n \in S : \A m \in S : ~(<<m, n>> \in OpToRel(<, Nat))
  BY ONLY NatLessThanWellFounded, WFMin, S \in SUBSET Nat, S # {}
<1>2. ASSUME NEW m \in S
      PROVE  n <= m
  <2>1. <<m, n>> \in Nat \X Nat /\ <<m, n>>[1] = m /\ <<m, n>>[2] = n
    OBVIOUS
  <2>2. <<m, n>> \notin {ss \in Nat \X Nat : ss[1] < ss[2]}
    BY <1>1 DEF OpToRel
  <2> QED BY <2>1, <2>2
<1> QED BY <1>2

\* Rounding down to a multiple, and the multiples after it.
LEMMA Rounding ==
  ASSUME NEW x \in Nat, NEW h \in Nat \ {0}
  PROVE  /\ x % h \in 0 .. h - 1
         /\ x - (x % h) \in Nat
         /\ \A i \in Nat \ {0} : x - (x % h) + i * h \in Nat /\ x < x - (x % h) + i * h
<1>1. x % h \in 0 .. h - 1
  OBVIOUS
<1>2. x - (x % h) \in Nat
  OBVIOUS
<1>3. ASSUME NEW i \in Nat \ {0}
      PROVE  x - (x % h) + i * h \in Nat /\ x < x - (x % h) + i * h
  <2>1. i * h >= h /\ i * h \in Nat
    OBVIOUS
  <2> QED BY <1>1, <1>2, <2>1
<1> QED BY <1>1, <1>2, <1>3

LEMMA NextMultiple ==
  ASSUME NEW x \in Nat, NEW f \in Nat \ {0}, x % f = 0
  PROVE  (x + f) % f = 0
<1>1. PICK q \in Nat : x = f * q
  <2>1. x = f * (x \div f) + (x % f) /\ x \div f \in Nat
    OBVIOUS
  <2> QED BY <2>1
<1>2. PICK d \in Int, r \in 0 .. f - 1 : r = (x + f) % f /\ x + f = f * d + r
  <2>1. (x + f) % f \in 0 .. f - 1 /\ (x + f) \div f \in Int
    OBVIOUS
  <2>2. x + f = f * ((x + f) \div f) + ((x + f) % f)
    OBVIOUS
  <2> QED BY <2>1, <2>2
<1>3. PICK e \in Int : e = q + 1 - d
  OBVIOUS
<1>4. r = f * e
  BY <1>1, <1>2, <1>3
<1>5. e <= 0 /\ e >= 0
  <2>1. e >= 1 => f * e >= f
    OBVIOUS
  <2>2. e <= -1 => f * e <= -f
    OBVIOUS
  <2> QED BY <1>4, <2>1, <2>2
<1> QED BY <1>2, <1>4, <1>5

\* The facts about the constants the proofs use.
LEMMA Constants ==
  /\ IsFiniteSet(Calls) /\ Cancels \subseteq Calls /\ Schedules \subseteq Calls
  /\ Schedules \subseteq Tasks /\ Demos \subseteq Schedules
  /\ \A k \in Cancels : Target[k] \in Tasks
  /\ \A t \in Tasks : Frequency[t] \in Nat
  /\ \A k \in Calls : After[k] \subseteq Calls /\ TestOf[k] \in Nat
  /\ Hour \in Nat \ {0} /\ Day \in Nat \ {0} /\ MaxTime \in Nat
BY ScriptAssumption, PalletAssumption DEF Schedules

\* The execution times a schedule computes are past what it read from the
\* clock; those of a recurring task are one.
LEMMA SlotsAfter ==
  ASSUME TypeOK, NEW k \in Schedules
  PROVE  /\ Slots(k) \in SUBSET Nat
         /\ \A s \in Slots(k) : clock[k] < s
         /\ Frequency[k] > 0 => \E s \in Nat : Slots(k) = {s}
<1>1. clock[k] \in Nat /\ Frequency[k] \in Nat
  BY Constants DEF TypeOK
<1>2. /\ \A i \in 1 .. 5 : /\ clock[k] - (clock[k] % Hour) + i * Hour \in Nat
                           /\ clock[k] < clock[k] - (clock[k] % Hour) + i * Hour
      /\ \A i \in 1 .. 3 : /\ clock[k] - (clock[k] % Day) + i * Day \in Nat
                           /\ clock[k] < clock[k] - (clock[k] % Day) + i * Day
  <2>1. \A i \in Nat \ {0} : /\ clock[k] - (clock[k] % Hour) + i * Hour \in Nat
                              /\ clock[k] < clock[k] - (clock[k] % Hour) + i * Hour
    BY <1>1, Constants, Rounding
  <2>2. \A i \in Nat \ {0} : /\ clock[k] - (clock[k] % Day) + i * Day \in Nat
                              /\ clock[k] < clock[k] - (clock[k] % Day) + i * Day
    BY <1>1, Constants, Rounding
  <2>3. 1 .. 5 \subseteq Nat \ {0} /\ 1 .. 3 \subseteq Nat \ {0}
    OBVIOUS
  <2> HIDE <1>1
  <2> QED BY ONLY <2>1, <2>2, <2>3
<1>3. /\ clock[k] - (clock[k] % Hour) + Hour \in Nat
      /\ clock[k] < clock[k] - (clock[k] % Hour) + Hour
  <2>1. 1 * Hour = Hour
    BY Constants
  <2> QED BY <1>2, <2>1
<1>4. CASE Frequency[k] > 0
  BY <1>3, <1>4 DEF Slots
<1>5. CASE Frequency[k] = 0 /\ k \in Demos
  BY <1>2, <1>5 DEF Slots
<1>6. CASE Frequency[k] = 0 /\ k \notin Demos
  BY <1>2, <1>6 DEF Slots
<1> QED BY <1>1, <1>4, <1>5, <1>6

\* The index the node answers: past the chain, and free in the pool.
LEMMA NextIndexIs ==
  ASSUME TypeOK, NEW a
  PROVE  /\ AccountNonce(a) \in Nat
         /\ NextIndex(a) \in Nat /\ NextIndex(a) >= AccountNonce(a)
         /\ \A k \in Of(a, pool) : nonce[k] # NextIndex(a)
<1> DEFINE N == AccountNonce(a)
           C == Cardinality(pool)
           Free == {n \in N .. N + C : \A k \in Of(a, pool) : nonce[k] # n}
<1>1. /\ IsFiniteSet(Of(a, pool)) /\ Cardinality(Of(a, pool)) <= C
      /\ C \in Nat /\ N \in Nat
      /\ nonce \in [Calls -> Nat] /\ pool \subseteq Calls
  BY Constants, FS_Subset, FS_CardinalityType DEF TypeOK, Of, AccountNonce
<1>2. Free # {}
  <2> SUFFICES ASSUME \A n \in N .. N + C : \E k \in Of(a, pool) : nonce[k] = n
               PROVE  FALSE
    OBVIOUS
  <2> DEFINE g == [n \in N .. N + C |-> CHOOSE k \in Of(a, pool) : nonce[k] = n]
  <2>1. \A n \in N .. N + C : g[n] \in Of(a, pool) /\ nonce[g[n]] = n
    OBVIOUS
  <2>2. g \in Injection(N .. N + C, Of(a, pool))
    BY <2>1 DEF Injection, IsInjective
  <2>3. Cardinality(N .. N + C) <= Cardinality(Of(a, pool))
    BY <1>1, <2>2, FS_Injection
  <2>4. Cardinality(N .. N + C) = C + 1
    BY <1>1, FS_Interval
  <2> QED BY <1>1, <2>3, <2>4, FS_CardinalityType
<1>3. PICK n \in Free : \A m \in Free : n <= m
  <2>1. Free \in SUBSET Nat
    BY <1>1
  <2> HIDE DEF Free
  <2> QED BY <1>2, <2>1, Least
<1>4. /\ n \in N .. N + C /\ \A k \in Of(a, pool) : nonce[k] # n
      /\ \A m \in N .. n : m < n => \E k \in Of(a, pool) : nonce[k] = m
  BY <1>1, <1>3
<1> HIDE DEF N, C
<1>5. /\ NextIndex(a) \in N .. N + C
      /\ \A k \in Of(a, pool) : nonce[k] # NextIndex(a)
  BY <1>4 DEF NextIndex, N, C
<1> QED BY <1>1, <1>5 DEF N
-----------------------------------------------------------------------------
(***************************************************************************)
(* That the pool and the chain have no call in common needs what the pc of *)
(* a call says of its transaction.                                         *)
(***************************************************************************)
Phases ==
  \A k \in Calls :
    /\ k \in pool => pc[k] = "sent"
    /\ k \in chain => pc[k] \in {"sent", "reading", "returned", "rejected"}
    /\ pc[k] \in {"reading", "returned"} => k \in chain /\ errors[k] = {}
    /\ errors[k] # {} => k \in chain

PhaseInv == TypeOK /\ Phases

LEMMA TypeInit == Init => TypeOK
BY Constants DEF Init, PalletInit, ListenInit, TypeOK, PalletTypeOK, ListenTypeOK

\* The callbacks of a listener that Publish leaves alone or adds to.
LEMMA PublishType ==
  ASSUME ListenTypeOK, NEW methods, Publish(methods)
  PROVE  queue' \in [Listeners -> Seq(BOOLEAN)]
<1>1. ASSUME NEW l \in Listeners
      PROVE  /\ queue[l] \in Seq(BOOLEAN)
             /\ Append(queue[l], Method[l] \in methods) \in Seq(BOOLEAN)
  <2>1. (Method[l] \in methods) \in BOOLEAN
    OBVIOUS
  <2> QED BY <2>1 DEF ListenTypeOK
<1> QED BY <1>1 DEF Publish

LEMMA BooleanTail == \A q \in Seq(BOOLEAN) : q # <<>> => Tail(q) \in Seq(BOOLEAN)
OBVIOUS

LEMMA ListenType ==
  ASSUME ListenTypeOK, NEW l \in Listeners, NEW methods,
         Listen(l) \/ ListenStep(l, methods)
  PROVE  ListenTypeOK'
<1>1. CASE Listen(l)
  BY <1>1 DEF Listen, ListenTypeOK
<1>2. CASE Subscribed(l, methods)
  <2>1. <<Method[l] \in methods>> \in Seq(BOOLEAN)
    <3>1. (Method[l] \in methods) \in BOOLEAN
      OBVIOUS
    <3> QED BY <3>1
  <2> QED BY <1>2, <2>1 DEF Subscribed, ListenTypeOK
<1>3. CASE SubscribeFails(l)
  BY <1>3 DEF SubscribeFails, ListenTypeOK
<1>4. CASE Callback(l)
  <2>1. queue' \in [Listeners -> Seq(BOOLEAN)]
    <3>1. queue[l] \in Seq(BOOLEAN) /\ queue[l] # <<>>
      BY <1>4 DEF Callback, ListenTypeOK
    <3> QED BY <1>4, <3>1, BooleanTail DEF Callback, ListenTypeOK
  <2> QED BY <1>4, <2>1 DEF Callback, Resolve, ListenTypeOK
<1>5. CASE TimerFires(l)
  BY <1>5 DEF TimerFires, Resolve, ListenTypeOK
<1> QED BY <1>1, <1>2, <1>3, <1>4, <1>5 DEF ListenStep

LEMMA TypeStep == PhaseInv /\ [Next]_vars => TypeOK'
<1> SUFFICES ASSUME PhaseInv, [Next]_vars PROVE TypeOK'
  OBVIOUS
<1> USE Constants DEF PhaseInv
<1>1. ASSUME NEW k \in Calls, Begin(k) PROVE TypeOK'
  BY <1>1 DEF Begin, Goto, pallet, listenVars, TypeOK, PalletTypeOK, ListenTypeOK
<1>2. ASSUME NEW k \in Calls, Sign(k) PROVE TypeOK'
  <2>1. NextIndex(Sender[k]) \in Nat /\ AccountNonce(Sender[k]) \in Nat
    BY NextIndexIs
  <2> QED BY <1>2, <2>1 DEF Sign, Goto, pallet, listenVars, TypeOK, PalletTypeOK, ListenTypeOK
<1>3. ASSUME NEW k \in Calls, Submit(k) PROVE TypeOK'
  <2>1. k \notin chain
    BY <1>3 DEF Submit, Phases
  <2>2. pool' \subseteq Calls /\ pool' \cap chain = {}
    BY <1>3, <2>1 DEF Submit, TypeOK
  <2> QED BY <1>3, <2>2 DEF Submit, pallet, listenVars, TypeOK, PalletTypeOK, ListenTypeOK
<1>4. ASSUME NEW k \in Calls, Refused(k) \/ Finalized(k) \/ Verify(k) PROVE TypeOK'
  BY <1>4 DEF Refused, Finalized, Verify, Goto, Settled, pallet, listenVars, TypeOK,
     PalletTypeOK, ListenTypeOK
<1>5. ASSUME NEW k \in Calls, Include(k) PROVE TypeOK'
  <2>1. ErrorsOf(k) \subseteq Errors
    BY DEF ErrorsOf, CancelErrors, ScheduleErrors, Errors
  <2>2. due' \in [Tasks -> SUBSET Nat]
    <3>1. k \in Cancels \/ (k \in Schedules /\ Slots(k) \in SUBSET Nat)
      BY SlotsAfter DEF Schedules
    <3> QED BY <1>5, <3>1 DEF Include, Cancelled, Scheduled, TypeOK, PalletTypeOK
  <2>3. queue' \in [Listeners -> Seq(BOOLEAN)]
    BY <1>5, PublishType DEF Include, TypeOK
  <2>4. pool' \subseteq Calls /\ chain' \subseteq Calls /\ pool' \cap chain' = {}
    BY <1>5 DEF Include, TypeOK
  <2> QED BY <1>5, <2>1, <2>2, <2>3, <2>4 DEF Include, TypeOK, PalletTypeOK, ListenTypeOK
<1>6. ASSUME NEW n \in Tests, Expire(n) PROVE TypeOK'
  <2>1. n \in Nat
    BY DEF Tests
  <2> QED BY <1>6, <2>1 DEF Expire, pallet, listenVars, TypeOK, PalletTypeOK, ListenTypeOK
<1>7. ASSUME NEW l \in Listeners, StartListening(l) \/ ListenerStep(l) PROVE TypeOK'
  <2>1. ListenTypeOK'
    BY <1>7, ListenType DEF StartListening, ListenerStep, TypeOK
  <2> QED BY <1>7, <2>1 DEF StartListening, ListenerStep, pallet, callVars, TypeOK,
          PalletTypeOK
<1>8. ASSUME Tick PROVE TypeOK'
  <2>1. queue' \in [Listeners -> Seq(BOOLEAN)]
    BY <1>8, PublishType DEF Tick, TypeOK
  <2>2. \A t \in Tasks : Remaining(t, time + 1) \in SUBSET Nat
    BY DEF Remaining, TypeOK, PalletTypeOK
  <2>3. PalletTypeOK'
    BY <1>8, <2>2 DEF Tick, NextSlot, Methods, TypeOK, PalletTypeOK
  <2> QED BY <1>8, <2>1, <2>3 DEF Tick, callVars, TypeOK, ListenTypeOK
<1>9. CASE UNCHANGED vars
  BY <1>9 DEF vars, pallet, listenVars, callVars, TypeOK, PalletTypeOK, ListenTypeOK
<1> QED
  BY <1>1, <1>2, <1>3, <1>4, <1>5, <1>6, <1>7, <1>8, <1>9 DEF Next, CallStep

LEMMA PhasesStep == PhaseInv /\ [Next]_vars => Phases'
<1> SUFFICES ASSUME PhaseInv, [Next]_vars, NEW k \in Calls
             PROVE  /\ k \in pool' => pc'[k] = "sent"
                    /\ k \in chain' => pc'[k] \in {"sent", "reading", "returned", "rejected"}
                    /\ pc'[k] \in {"reading", "returned"} => k \in chain' /\ errors'[k] = {}
                    /\ errors'[k] # {} => k \in chain'
  BY DEF Phases
<1> USE DEF PhaseInv, Phases, TypeOK
<1>1. CASE UNCHANGED <<pc, pool, chain, errors>>
  BY <1>1
<1>2. ASSUME NEW j \in Calls, Begin(j) \/ Sign(j) \/ Refused(j) \/ Finalized(j) \/ Verify(j)
      PROVE  /\ UNCHANGED <<pool, chain, errors>>
             /\ k # j => pc'[k] = pc[k]
             /\ pc[k] \notin Settled \/ k # j
             /\ k = j => pc[k] # "usurped" /\ pc'[k] \notin {"idle", "sent", "usurped"}
             /\ k = j /\ pc[k] = "sent" => k \in chain /\ pc'[k] \in {"reading", "returned", "rejected"}
             /\ k = j /\ pc[k] = "reading" => pc'[k] = "returned"
             /\ k = j /\ pc'[k] \in {"reading", "returned"} => k \in chain /\ errors[k] = {}
  BY <1>2 DEF Begin, Sign, Refused, Finalized, Verify, Goto, Settled
<1>3. ASSUME NEW j \in Calls, Submit(j)
      PROVE  /\ UNCHANGED <<chain, errors>>
             /\ pool' = (pool \ Clashing(j)) \cup {j}
             /\ pc[j] = "built" /\ Clashing(j) \subseteq pool
             /\ pc'[k] = IF k = j THEN "sent" ELSE IF k \in Clashing(j) THEN "usurped" ELSE pc[k]
  BY <1>3 DEF Submit, Clashing, Of
<1>4. ASSUME NEW j \in Calls, Include(j)
      PROVE  /\ UNCHANGED pc
             /\ j \in pool /\ pool' = pool \ {j} /\ chain' = chain \cup {j}
             /\ k # j => errors'[k] = errors[k]
  BY <1>4 DEF Include
<1> QED
  BY <1>1, <1>2, <1>3, <1>4 DEF Next, CallStep, Expire, StartListening, ListenerStep, Tick,
     callVars, vars

LEMMA PhaseStep == PhaseInv /\ [Next]_vars => PhaseInv'
BY TypeStep, PhasesStep DEF PhaseInv

LEMMA PhaseInit == Init => PhaseInv
BY TypeInit DEF Init, PhaseInv, Phases

(***************************************************************************)
(* Every variable keeps its type; in particular no transaction is both in  *)
(* the pool and in the chain.                                              *)
(***************************************************************************)
THEOREM TypeCorrect == Spec => []TypeOK
<1>1. PhaseInv => TypeOK
  BY DEF PhaseInv
<1> QED BY <1>1, PhaseInit, PhaseStep, PTL DEF Spec
-----------------------------------------------------------------------------
(***************************************************************************)
(* What is scheduled is in the chain, so that a task that was cancelled    *)
(* cannot come back: its call was dispatched before, and is not again.     *)
(***************************************************************************)
CancelInv ==
  /\ PhaseInv
  /\ \A t \in Tasks : due[t] # {} => t \in chain
  /\ \A k \in Cancels : k \in chain /\ errors[k] = {} =>
       Target[k] \in chain /\ due[Target[k]] = {}
  /\ \A j, k \in Cancels :
       {j, k} \subseteq chain /\ errors[j] = {} /\ errors[k] = {} /\ Target[j] = Target[k] => j = k

\* The steps that change what is scheduled: dispatch, and the slots.
LEMMA DueStep ==
  ASSUME TypeOK, [Next]_vars
  PROVE  \/ \E k \in Calls : Include(k)
         \/ Tick /\ UNCHANGED <<chain, errors>>
         \/ UNCHANGED <<due, time, chain, errors>>
BY DEF Next, CallStep, Begin, Sign, Submit, Refused, Finalized, Verify, Expire,
   StartListening, ListenerStep, Tick, callVars, pallet, vars

LEMMA CancelStep == CancelInv /\ [Next]_vars => CancelInv'
<1> SUFFICES ASSUME CancelInv, [Next]_vars PROVE CancelInv'
  OBVIOUS
<1> USE Constants DEF CancelInv
<1>1. PhaseInv'
  BY PhaseStep
<1>2. ASSUME NEW k \in Calls, Include(k)
      PROVE  CancelInv'
  <2>1. /\ k \in pool /\ k \notin chain /\ chain' = chain \cup {k}
        /\ errors' = [errors EXCEPT ![k] = ErrorsOf(k)]
        /\ errors \in [Calls -> SUBSET Errors] /\ due \in [Tasks -> SUBSET Nat]
    BY <1>2 DEF Include, PhaseInv, TypeOK, PalletTypeOK
  <2>2. CASE k \in Cancels
    <3>1. /\ Target[k] \in Tasks
          /\ due' = IF ErrorsOf(k) = {} THEN [due EXCEPT ![Target[k]] = {}] ELSE due
          /\ ErrorsOf(k) = {} => due[Target[k]] # {}
      BY <1>2, <2>2 DEF Include, Cancelled, ErrorsOf, CancelErrors
    <3>2. \A t \in Tasks : due'[t] # {} => t \in chain'
      BY <2>1, <3>1
    <3>3. \A j \in Cancels : j \in chain' /\ errors'[j] = {} =>
            Target[j] \in chain' /\ due'[Target[j]] = {}
      BY <2>1, <3>1
    <3>4. \A i, j \in Cancels : {i, j} \subseteq chain' /\ errors'[i] = {}
            /\ errors'[j] = {} /\ Target[i] = Target[j] => i = j
      <4>1. \A j \in Cancels : j \in chain' /\ j # k =>
              j \in chain /\ errors'[j] = errors[j]
        BY <2>1
      <4>2. errors'[k] = ErrorsOf(k)
        BY <2>1
      <4>3. \A j \in Cancels : j \in chain /\ errors[j] = {} /\ ErrorsOf(k) = {} =>
              Target[j] # Target[k]
        BY <3>1
      <4> QED BY <4>1, <4>2, <4>3
    <3> QED BY <1>1, <3>2, <3>3, <3>4
  <2>3. CASE k \in Schedules
    <3>1. \A t \in Tasks : t # k => due'[t] = due[t]
      BY <1>2, <2>1, <2>3 DEF Include, Scheduled, Schedules
    <3>2. k \notin Cancels
      BY <2>3 DEF Schedules
    <3> QED BY <1>1, <2>1, <3>1, <3>2
  <2> QED BY <2>2, <2>3 DEF Schedules
<1>3. CASE Tick /\ UNCHANGED <<chain, errors>>
  <2>1. \A t \in Tasks : due[t] = {} => due'[t] = {}
    BY <1>3 DEF Tick, NextSlot, Remaining
  <2> QED BY <1>1, <1>3, <2>1
<1>4. CASE UNCHANGED <<due, time, chain, errors>>
  BY <1>1, <1>4
<1> QED BY <1>2, <1>3, <1>4, DueStep DEF PhaseInv

LEMMA CancelInvariant == Spec => []CancelInv
<1>1. Init => CancelInv
  BY PhaseInit, Constants DEF Init, PalletInit, CancelInv
<1> QED BY <1>1, CancelStep, PTL DEF Spec

(***************************************************************************)
(* When a cancellation has returned the task is gone for good, for every   *)
(* set of calls that overlap and however often the task was triggered.     *)
(***************************************************************************)
THEOREM CancelledGone == Spec => []CancelledIsGone
<1>1. CancelInv => CancelledIsGone
  BY Constants DEF CancelInv, PhaseInv, Phases, CancelledIsGone
<1> QED BY <1>1, CancelInvariant, PTL

(***************************************************************************)
(* Of all calls that cancel a task, however they overlap, one returns at   *)
(* the most.                                                               *)
(***************************************************************************)
THEOREM CancelOnce == Spec => []CancelReturnsOnce
<1>1. CancelInv => CancelReturnsOnce
  BY Constants DEF CancelInv, PhaseInv, Phases, CancelReturnsOnce
<1> QED BY <1>1, CancelInvariant, PTL
-----------------------------------------------------------------------------
(***************************************************************************)
(* A call has read the clock before it is dispatched, and reads it once.   *)
(***************************************************************************)
LateInv ==
  /\ PhaseInv
  /\ \A k \in Calls : clock[k] <= time
  /\ PastOnlyWhenLate

LEMMA LateStep == LateInv /\ [Next]_vars => LateInv'
<1> SUFFICES ASSUME LateInv, [Next]_vars PROVE LateInv'
  OBVIOUS
<1> USE Constants DEF LateInv
<1>1. PhaseInv'
  BY PhaseStep
<1>2. /\ \A k \in Calls : clock[k] \in Nat /\ errors[k] \in SUBSET Errors
      /\ clock \in [Calls -> Nat] /\ errors \in [Calls -> SUBSET Errors] /\ time \in Nat
  BY DEF PhaseInv, TypeOK, PalletTypeOK
<1>3. ASSUME NEW k \in Calls, Include(k)
      PROVE  LateInv'
  <2>1. /\ UNCHANGED <<clock, time>>
        /\ errors' = [errors EXCEPT ![k] = ErrorsOf(k)]
    BY <1>3 DEF Include
  <2>2. k \in Schedules /\ "PastTime" \in ErrorsOf(k) => clock[k] < time
    <3> SUFFICES ASSUME k \in Schedules, "PastTime" \in ErrorsOf(k)
                 PROVE  clock[k] < time
      OBVIOUS
    <3>1. PICK s \in Slots(k) : s <= time
      BY DEF ErrorsOf, ScheduleErrors, Schedules
    <3>2. s \in Nat /\ clock[k] < s
      BY <3>1, SlotsAfter DEF PhaseInv
    <3> QED BY <1>2, <3>1, <3>2
  <2> QED BY <1>1, <1>2, <2>1, <2>2 DEF PastOnlyWhenLate
<1>4. CASE Tick
  <2>1. time' = time + 1 /\ UNCHANGED <<clock, errors>>
    BY <1>4 DEF Tick, NextSlot, callVars
  <2> QED BY <1>1, <1>2, <2>1 DEF PastOnlyWhenLate
<1>5. ASSUME NEW k \in Calls, Begin(k)
      PROVE  LateInv'
  <2>1. /\ UNCHANGED <<time, errors>> /\ errors[k] = {}
        /\ clock' = [clock EXCEPT ![k] = IF k \in Cancels THEN 0 ELSE time]
    BY <1>5 DEF Begin, Goto, pallet, PhaseInv, Phases
  <2> QED BY <1>1, <1>2, <2>1 DEF PastOnlyWhenLate
<1>6. CASE UNCHANGED <<time, clock, errors>>
  BY <1>1, <1>6 DEF PastOnlyWhenLate
<1> QED
  BY <1>3, <1>4, <1>5, <1>6 DEF Next, CallStep, Sign, Submit, Refused, Finalized, Verify,
     Expire, StartListening, ListenerStep, callVars, pallet, vars

(***************************************************************************)
(* The chain finds an execution time in the past only where a slot has     *)
(* begun since the call read the clock: every time that is computed from   *)
(* the clock, for every hour and day, is after it.                         *)
(***************************************************************************)
THEOREM PastWhenLate == Spec => []PastOnlyWhenLate
<1>1. Init => LateInv
  BY PhaseInit, Constants DEF Init, PalletInit, LateInv, PastOnlyWhenLate
<1>2. LateInv => PastOnlyWhenLate
  BY DEF LateInv
<1> QED BY <1>1, <1>2, LateStep, PTL DEF Spec
-----------------------------------------------------------------------------
(***************************************************************************)
(* A task that was dispatched without an error is scheduled as its call    *)
(* computed, or was cancelled, whether or not its call has returned.       *)
(***************************************************************************)
CancelledByCall(k) == \E j \in Cancels : Target[j] = k /\ j \in chain /\ errors[j] = {}

RunsInv ==
  /\ PhaseInv
  /\ \A k \in Schedules : k \in chain /\ errors[k] = {} => IsScheduled(k) \/ CancelledByCall(k)

\* What is in the chain stays as it was signed and dispatched.
LEMMA ChainStays ==
  ASSUME PhaseInv, [Next]_vars, NEW k \in Calls, k \in chain
  PROVE  /\ k \in chain' /\ errors'[k] = errors[k] /\ clock'[k] = clock[k]
         /\ Slots(k)' = Slots(k)
<1>1. /\ k \in chain' /\ clock'[k] = clock[k] /\ errors'[k] = errors[k]
  <2>1. ASSUME NEW j \in Calls, Include(j)
        PROVE  k \in chain' /\ clock'[k] = clock[k] /\ errors'[k] = errors[k]
    BY <2>1 DEF Include, PhaseInv, TypeOK
  <2>2. ASSUME NEW j \in Calls, Begin(j)
        PROVE  k \in chain' /\ clock'[k] = clock[k] /\ errors'[k] = errors[k]
    BY <2>2 DEF Begin, Goto, PhaseInv, TypeOK, Phases
  <2>3. CASE UNCHANGED <<chain, clock, errors>>
    BY <2>3
  <2> QED
    BY <2>1, <2>2, <2>3 DEF Next, CallStep, Sign, Submit, Refused, Finalized, Verify, Expire,
       StartListening, ListenerStep, Tick, callVars, vars
<1> QED BY <1>1 DEF Slots

LEMMA RunsStep == RunsInv /\ [Next]_vars => RunsInv'
<1> SUFFICES ASSUME RunsInv, [Next]_vars,
                    NEW k \in Schedules, k \in chain', errors'[k] = {}
             PROVE  IsScheduled(k)' \/ CancelledByCall(k)'
  BY PhaseStep DEF RunsInv
<1> USE Constants DEF RunsInv
<1>0. /\ time \in Nat /\ Frequency[k] \in Nat
      /\ errors \in [Calls -> SUBSET Errors] /\ due \in [Tasks -> SUBSET Nat]
  BY DEF PhaseInv, TypeOK, PalletTypeOK
<1>1. CancelledByCall(k) => CancelledByCall(k)'
  BY ChainStays DEF CancelledByCall
<1>2. k \in chain => Slots(k)' = Slots(k) /\ errors[k] = {}
  BY ChainStays
<1>3. ASSUME NEW j \in Calls, Include(j)
      PROVE  IsScheduled(k)' \/ CancelledByCall(k)'
  <2>1. /\ j \in pool /\ j \notin chain /\ chain' = chain \cup {j} /\ UNCHANGED <<time, clock>>
        /\ errors' = [errors EXCEPT ![j] = ErrorsOf(j)]
    BY <1>3 DEF Include, PhaseInv, TypeOK
  <2>2. CASE j = k
    <3>1. Slots(k)' = Slots(k) /\ Slots(k) \in SUBSET Nat
      BY <2>1, SlotsAfter DEF Slots, PhaseInv
    <3>2. ScheduleErrors(Slots(k)) = {}
      BY <1>0, <2>1, <2>2 DEF ErrorsOf, Schedules
    <3>3. due'[k] = Slots(k) /\ \A s \in Slots(k) : s > time
      BY <1>0, <1>3, <2>2, <3>1, <3>2 DEF Include, Scheduled, ScheduleErrors, Schedules
    <3>4. Frequency[k] > 0 => \E s \in Nat : Slots(k) = {s}
      BY SlotsAfter DEF PhaseInv
    <3> QED BY <1>0, <2>1, <3>1, <3>3, <3>4 DEF IsScheduled, IsNext
  <2>3. CASE j # k /\ due'[k] = due[k]
    <3>1. k \in chain
      BY <2>1, <2>3
    <3>2. IsScheduled(k) => IsScheduled(k)'
      BY <1>2, <2>1, <2>3, <3>1 DEF IsScheduled, IsNext
    <3> QED BY <1>1, <1>2, <3>1, <3>2
  <2>4. CASE j # k /\ due'[k] # due[k]
    <3>1. j \in Cancels /\ Target[j] = k /\ ErrorsOf(j) = {}
      BY <1>0, <1>3, <2>4 DEF Include, Cancelled, Scheduled, ErrorsOf, Schedules
    <3> QED BY <1>0, <2>1, <3>1 DEF CancelledByCall
  <2> QED BY <2>2, <2>3, <2>4
<1>4. CASE Tick /\ UNCHANGED <<chain, errors>>
  <2>1. /\ k \in chain /\ Slots(k)' = Slots(k) /\ time' = time + 1
        /\ due'[k] = Remaining(k, time + 1)
    BY <1>2, <1>4 DEF Tick, NextSlot
  <2> SUFFICES ASSUME IsScheduled(k) PROVE IsScheduled(k)'
    BY <1>1, <1>2, <2>1
  <2>2. Slots(k) \in SUBSET Nat /\ (Frequency[k] > 0 => \E s \in Nat : Slots(k) = {s})
    BY SlotsAfter DEF PhaseInv
  <2>3. CASE Frequency[k] = 0
    <3>1. due[k] = {s \in Slots(k) : s > time} /\ due'[k] = due[k] \ {time + 1}
      BY <2>1, <2>3 DEF IsScheduled, Remaining
    <3>2. due'[k] = {s \in Slots(k) : s > time + 1}
      BY <1>0, <2>2, <3>1
    <3> QED BY <2>1, <2>3, <3>2 DEF IsScheduled
  <2>4. CASE Frequency[k] > 0
    <3>1. PICK first \in Nat : Slots(k) = {first}
      BY <2>2, <2>4
    <3>2. PICK s \in Nat : due[k] = {s} /\ IsNext(k, s)
      BY <1>0, <2>4 DEF IsScheduled
    <3>3. \/ s = first /\ s > time
          \/ s \in time + 1 .. time + Frequency[k] /\ first < s /\ (s - first) % Frequency[k] = 0
      BY <3>1, <3>2 DEF IsNext
    <3>4. CASE s = time + 1
      <4>1. due'[k] = {s + Frequency[k]}
        BY <2>1, <2>4, <3>2, <3>4 DEF Remaining
      <4>2. first < s + Frequency[k] /\ (s + Frequency[k] - first) % Frequency[k] = 0
        <5>1. s - first \in Nat /\ (s - first) % Frequency[k] = 0
          BY <1>0, <2>4, <3>3
        <5>2. (s - first + Frequency[k]) % Frequency[k] = 0
          BY <1>0, <2>4, <5>1, NextMultiple
        <5>3. s - first + Frequency[k] = s + Frequency[k] - first
          BY <1>0
        <5> QED BY <1>0, <2>4, <5>1, <5>2, <5>3
      <4>3. s + Frequency[k] \in time' + 1 .. time' + Frequency[k]
        BY <1>0, <2>1, <2>4, <3>4
      <4> QED BY <2>1, <2>4, <3>1, <4>1, <4>2, <4>3 DEF IsScheduled, IsNext
    <3>5. CASE s # time + 1
      <4>1. due'[k] = {s}
        BY <1>0, <2>1, <3>2, <3>5 DEF Remaining
      <4>2. \/ s = first /\ s > time'
            \/ s \in time' + 1 .. time' + Frequency[k] /\ first < s
                 /\ (s - first) % Frequency[k] = 0
        BY <1>0, <2>1, <3>3, <3>5
      <4> QED BY <2>1, <2>4, <3>1, <4>1, <4>2 DEF IsScheduled, IsNext
    <3> QED BY <3>4, <3>5
  <2> QED BY <1>0, <2>3, <2>4
<1>5. CASE UNCHANGED <<due, time, chain, errors>>
  <2>1. k \in chain /\ Slots(k)' = Slots(k)
    BY <1>2, <1>5
  <2>2. IsScheduled(k) => IsScheduled(k)'
    BY <1>5, <2>1 DEF IsScheduled, IsNext
  <2> QED BY <1>1, <1>2, <2>1, <2>2
<1> QED BY <1>3, <1>4, <1>5, DueStep DEF PhaseInv

(***************************************************************************)
(* A schedule that has returned runs in those of its slots that are still  *)
(* to come, a recurring one in the next multiple of its frequency, until   *)
(* somebody cancels it; for every frequency and every hour and day.        *)
(***************************************************************************)
THEOREM ReturnedRuns == Spec => []ReturnedScheduleRuns
<1>1. Init => RunsInv
  BY PhaseInit, Constants DEF Init, RunsInv
<1>2. RunsInv => ReturnedScheduleRuns
  BY Constants DEF RunsInv, PhaseInv, Phases, ReturnedScheduleRuns, CancelledByCall
<1> QED BY <1>1, <1>2, RunsStep, PTL DEF Spec
-----------------------------------------------------------------------------
(***************************************************************************)
(* When a call begins, those it awaits have returned and the tests before  *)
(* its own are over or have expired; so two calls that are under way at    *)
(* the same time overlap.  A call that is signed has a nonce the node      *)
(* takes, unless one it overlaps with has the same, which was in the pool  *)
(* when a demo signed or has got there since.                              *)
(***************************************************************************)
Began ==
  \A k \in Calls : pc[k] # "idle" =>
    /\ k \in active
    /\ \A j \in After[k] : pc[j] = "returned"
    /\ \A j \in active \cap Calls : TestOf[j] > 0 /\ TestOf[j] < TestOf[k] =>
         TestOf[j] \in expired \/ Over(j)

OverlapInv ==
  /\ PhaseInv
  /\ Began
  /\ \A k \in Calls : pc[k] = "built" /\ Refusable(k) => Contested(k)
  /\ RefusedOnlyInOverlap

LEMMA BothUnderWay ==
  ASSUME PhaseInv, Began, NEW j \in Calls, NEW k \in Calls, j # k,
         pc[j] \in {"signing", "built", "sent"}, pc[k] \in {"signing", "built", "sent"}
  PROVE  Overlaps(k, j)
<1>1. /\ j \in active /\ k \in active /\ j \notin After[k] /\ k \notin After[j]
  BY DEF Began
<1>2. ASSUME NEW i \in {j, k}, NEW l \in {j, k}, i \notin Demos, l \notin Demos,
             TestOf[i] < TestOf[l]
      PROVE  TestOf[i] \in expired
  <2>1. TestOf[i] > 0
    BY <1>2, Constants, ScriptAssumption
  <2>2. TestOf[i] \in expired \/ Over(i)
    BY <1>1, <1>2, <2>1 DEF Began
  <2>3. ~Over(i)
    BY <1>2 DEF Over, Settled, Began
  <2> QED BY <2>2, <2>3
<1>3. j \notin Demos /\ k \notin Demos => TestOf[j] # TestOf[k]
  BY <1>1, ScriptAssumption
<1>4. TestOf[j] < TestOf[k] \/ TestOf[k] < TestOf[j] \/ TestOf[j] = TestOf[k]
  BY Constants
<1> QED BY <1>1, <1>2, <1>3, <1>4 DEF Overlaps

\* How a call ended, what it has signed and which tests have expired stays.
LEMMA Stays ==
  ASSUME PhaseInv, [Next]_vars
  PROVE  /\ active' = active /\ expired \subseteq expired'
         /\ \A k \in Calls : pc[k] \in Settled => pc'[k] = pc[k]
         /\ \A k \in Calls : Over(k) => Over(k)'
         /\ \A k \in Calls : Signed(k) => Signed(k)' /\ nonce'[k] = nonce[k]
         /\ \A k \in Calls : Signed(k) /\ Contested(k) => Contested(k)'
<1>1. active' = active /\ expired \subseteq expired'
  BY DEF Next, CallStep, Begin, Sign, Submit, Refused, Include, Finalized, Verify, Expire,
     StartListening, ListenerStep, Tick, callVars, vars
<1>2. ASSUME NEW k \in Calls, pc[k] \in Settled
      PROVE  pc'[k] = pc[k]
  <2>1. ASSUME NEW j \in Calls, Submit(j)
        PROVE  pc'[k] = pc[k]
    BY <1>2, <2>1 DEF Submit, Clashing, Of, Settled, PhaseInv, Phases
  <2> QED
    BY <1>2, <2>1 DEF Next, CallStep, Begin, Sign, Refused, Include, Finalized, Verify, Goto,
       Expire, StartListening, ListenerStep, Tick, callVars, vars, Settled, PhaseInv, TypeOK
<1>3. \A k \in Calls : Over(k) => Over(k)'
  BY <1>2, Constants DEF Over
<1>4. ASSUME NEW k \in Calls, Signed(k)
      PROVE  Signed(k)' /\ nonce'[k] = nonce[k]
  <2>1. ASSUME NEW j \in Calls, Sign(j)
        PROVE  Signed(k)' /\ nonce'[k] = nonce[k]
    BY <1>4, <2>1 DEF Sign, Goto, Signed, PhaseInv, TypeOK
  <2>2. ASSUME NEW j \in Calls, Begin(j) \/ Refused(j) \/ Finalized(j) \/ Verify(j)
        PROVE  Signed(k)' /\ nonce'[k] = nonce[k]
    BY <1>4, <2>2 DEF Begin, Refused, Finalized, Verify, Goto, Signed, PhaseInv, TypeOK
  <2>3. ASSUME NEW j \in Calls, Submit(j) \/ Include(j)
        PROVE  Signed(k)' /\ nonce'[k] = nonce[k]
    BY <1>4, <2>3 DEF Submit, Include, Signed
  <2> QED
    BY <1>4, <2>1, <2>2, <2>3 DEF Next, CallStep, Expire, StartListening, ListenerStep, Tick,
       callVars, vars, Signed
<1>5. \A k \in Calls : Signed(k) /\ Contested(k) => Contested(k)'
  BY <1>1, <1>4 DEF Contested, Overlaps
<1> QED BY <1>1, <1>2, <1>3, <1>4, <1>5

LEMMA BeganStep == PhaseInv /\ Began /\ [Next]_vars => Began'
<1> SUFFICES ASSUME PhaseInv, Began, [Next]_vars, NEW k \in Calls, pc'[k] # "idle"
             PROVE  /\ k \in active'
                    /\ \A j \in After[k] : pc'[j] = "returned"
                    /\ \A j \in active' \cap Calls : TestOf[j] > 0 /\ TestOf[j] < TestOf[k] =>
                         TestOf[j] \in expired' \/ Over(j)'
  BY DEF Began
<1>1. /\ k \in active
      /\ \A j \in After[k] : pc[j] = "returned"
      /\ \A j \in active \cap Calls : TestOf[j] > 0 /\ TestOf[j] < TestOf[k] =>
           TestOf[j] \in expired \/ Over(j)
  <2>1. CASE pc[k] # "idle"
    BY <2>1 DEF Began
  <2>2. ASSUME pc[k] = "idle"
        PROVE  Begin(k)
    BY <2>2 DEF Next, CallStep, Begin, Sign, Submit, Clashing, Of, Refused, Include, Finalized,
       Verify, Goto, Expire, StartListening, ListenerStep, Tick, callVars, vars, PhaseInv,
       TypeOK, Phases
  <2>3. CASE Begin(k)
    BY <2>3 DEF Begin, Turn, Finished
  <2> QED BY <2>1, <2>2, <2>3
<1> QED BY <1>1, Stays, Constants DEF Settled

\* One more transaction of the account that signed it.
LEMMA NonceAfter ==
  ASSUME PhaseInv, NEW j \in Calls, Include(j), NEW a
  PROVE  AccountNonce(a)' = IF Sender[j] = a THEN AccountNonce(a) + 1 ELSE AccountNonce(a)
<1>1. /\ j \notin chain /\ chain' = chain \cup {j} /\ IsFiniteSet(Of(a, chain))
      /\ j \notin Of(a, chain)
  BY Constants, FS_Subset DEF Include, Of, PhaseInv, TypeOK
<1>2. Of(a, chain)' = IF Sender[j] = a THEN Of(a, chain) \cup {j} ELSE Of(a, chain)
  BY <1>1 DEF Of
<1>3. Cardinality(Of(a, chain) \cup {j}) = Cardinality(Of(a, chain)) + 1
  BY <1>1, FS_AddElement
<1> QED BY <1>2, <1>3 DEF AccountNonce

LEMMA BuiltStep ==
  ASSUME OverlapInv, [Next]_vars, NEW k \in Calls, pc'[k] = "built", Refusable(k)'
  PROVE  Contested(k)'
<1> USE DEF OverlapInv
<1>0. PICK P : nonce \in [Calls -> Nat] /\ pool \subseteq Calls /\ pc \in [Calls -> P]
  BY DEF PhaseInv, TypeOK
<1>1. ASSUME NEW j \in Calls, Sign(j)
      PROVE  Contested(k)'
  <2>1. /\ pc[j] = "signing" /\ j \notin pool /\ UNCHANGED <<pool, chain, active, expired>>
        /\ pc' = [pc EXCEPT ![j] = "built"]
        /\ \A i \in Calls : i # j => nonce'[i] = nonce[i]
    BY <1>0, <1>1 DEF Sign, Goto, PhaseInv, Phases
  <2>2. AccountNonce(Sender[k])' = AccountNonce(Sender[k])
    BY <2>1 DEF AccountNonce, Of
  <2>3. CASE j = k
    <3>1. /\ nonce'[k] >= AccountNonce(Sender[k]) /\ AccountNonce(Sender[k]) \in Nat
          /\ nonce'[k] \in Nat
      BY <1>0, <1>1, <2>3, NextIndexIs DEF Sign, PhaseInv
    <3>2. PICK i \in pool : Sender[i] = Sender[k] /\ nonce'[i] = nonce'[k]
      BY <2>1, <2>2, <3>1 DEF Refusable, Clashing, Of
    <3>3. i \in Calls /\ i # k /\ pc[i] = "sent" /\ nonce'[i] = nonce[i] /\ pc'[i] = "sent"
      BY <1>0, <2>1, <2>3, <3>2 DEF PhaseInv, Phases
    <3>4. Overlaps(k, i)
      BY <2>1, <2>3, <3>3, BothUnderWay
    <3> QED BY <2>1, <3>2, <3>3, <3>4 DEF Contested, Overlaps, Signed
  <2>4. CASE j # k
    <3>1. pc[k] = "built" /\ Clashing(k)' = Clashing(k) /\ nonce'[k] = nonce[k]
      BY <1>0, <2>1, <2>4 DEF Clashing, Of
    <3>2. Refusable(k) /\ Signed(k)
      BY <2>2, <3>1 DEF Refusable, Signed
    <3> QED BY <3>1, <3>2, Stays
  <2> QED BY <2>3, <2>4
<1> SUFFICES ASSUME pc[k] = "built", ~Refusable(k), \A j \in Calls : ~Sign(j)
             PROVE  Contested(k)'
  <2>1. CASE \A j \in Calls : ~Sign(j)
    <3>1. pc[k] = "built"
      BY <1>0, <2>1 DEF Next, CallStep, Begin, Submit, Clashing, Of, Refused, Include,
         Finalized, Verify, Goto, Expire, StartListening, ListenerStep, Tick, callVars, vars
    <3>2. Refusable(k) => Contested(k)'
      BY <3>1, Stays DEF Signed
    <3> QED BY <2>1, <3>1, <3>2
  <2> QED BY <1>1, <2>1
<1>2. ASSUME NEW j \in Calls, Submit(j)
      PROVE  Contested(k)'
  <2>1. /\ pc[j] = "built" /\ pc'[j] = "sent" /\ j # k
        /\ UNCHANGED <<nonce, chain, active, expired>> /\ pool' \subseteq pool \cup {j}
    BY <1>0, <1>2 DEF Submit
  <2>2. AccountNonce(Sender[k])' = AccountNonce(Sender[k])
    BY <2>1 DEF AccountNonce, Of
  <2>3. PICK i \in pool' : Sender[i] = Sender[k] /\ nonce[i] = nonce[k]
    BY <2>1, <2>2 DEF Refusable, Clashing, Of
  <2>4. i = j
    BY <2>1, <2>3 DEF Refusable, Clashing, Of
  <2>5. Overlaps(k, j)
    BY <2>1, BothUnderWay
  <2> QED BY <2>1, <2>3, <2>4, <2>5 DEF Contested, Overlaps, Signed
<1>3. ASSUME NEW j \in Calls, Include(j)
      PROVE  FALSE
  <2>1. /\ UNCHANGED nonce /\ pool' \subseteq pool
        /\ j \in pool /\ nonce[j] = AccountNonce(Sender[j])
    BY <1>3 DEF Include
  <2>2. Clashing(k)' \subseteq Clashing(k)
    BY <2>1 DEF Clashing, Of
  <2>3. /\ nonce[k] >= AccountNonce(Sender[k]) /\ nonce[k] < AccountNonce(Sender[k])'
        /\ nonce[k] \in Nat /\ AccountNonce(Sender[k]) \in Nat
    BY <1>0, <2>1, <2>2, NextIndexIs DEF Refusable, PhaseInv
  <2>4. Sender[j] = Sender[k] /\ nonce[j] = nonce[k]
    BY <1>3, <2>1, <2>3, NonceAfter
  <2>5. j \in Clashing(k)
    BY <2>1, <2>4 DEF Clashing, Of
  <2> QED BY <2>5 DEF Refusable
<1>4. ASSUME UNCHANGED <<pool, chain, nonce>>
      PROVE  FALSE
  BY <1>4 DEF Refusable, Clashing, AccountNonce, Of
<1> QED
  BY <1>2, <1>3, <1>4 DEF Next, CallStep, Begin, Refused, Finalized, Verify,
     Expire, StartListening, ListenerStep, Tick, callVars, vars

LEMMA RefusedStep ==
  ASSUME OverlapInv, [Next]_vars, NEW k \in Calls, NodeRefused(k)'
  PROVE  Contested(k)'
<1> USE DEF OverlapInv
<1>0. PICK P : pc \in [Calls -> P]
  BY DEF PhaseInv, TypeOK
<1> SUFFICES ASSUME ~NodeRefused(k) PROVE Signed(k) /\ Contested(k)
  BY Stays DEF RefusedOnlyInOverlap, NodeRefused, Signed
<1>1. ASSUME NEW j \in Calls, Submit(j)
      PROVE  Signed(k) /\ Contested(k)
  <2>1. /\ k # j /\ k \in Clashing(j) /\ pc[j] = "built"
    BY <1>1 DEF Submit, NodeRefused
  <2>2. pc[k] = "sent" /\ Sender[k] = Sender[j] /\ nonce[k] = nonce[j]
    BY <2>1 DEF Clashing, Of, PhaseInv, Phases
  <2>3. Overlaps(k, j)
    BY <2>1, <2>2, BothUnderWay
  <2> QED BY <2>1, <2>2, <2>3 DEF Contested, Signed
<1>2. ASSUME NEW j \in Calls, Refused(j)
      PROVE  Signed(k) /\ Contested(k)
  <2>1. j = k /\ pc[k] = "built" /\ Refusable(k)
    BY <1>0, <1>2 DEF Refused, Goto, NodeRefused
  <2> QED BY <2>1 DEF Signed
<1>3. ASSUME NEW j \in Calls, Begin(j) \/ Sign(j) \/ Finalized(j) \/ Verify(j)
      PROVE  FALSE
  BY <1>0, <1>3 DEF Begin, Sign, Finalized, Verify, Goto, NodeRefused
<1>4. ASSUME UNCHANGED pc, chain \subseteq chain'
      PROVE  FALSE
  BY <1>4 DEF NodeRefused
<1> QED
  BY <1>1, <1>2, <1>3, <1>4 DEF Next, CallStep, Include, Expire, StartListening, ListenerStep,
     Tick, callVars, vars

(***************************************************************************)
(* The node refuses or replaces a transaction of a call only where another *)
(* call of its account has the same nonce and overlaps with it, for a demo *)
(* or a test that has expired: calls that a test awaits never meet.        *)
(***************************************************************************)
THEOREM RefusedInOverlap == Spec => []RefusedOnlyInOverlap
<1>1. Init => OverlapInv
  BY PhaseInit DEF Init, OverlapInv, Began, RefusedOnlyInOverlap, NodeRefused
<1>2. OverlapInv /\ [Next]_vars => OverlapInv'
  <2> SUFFICES ASSUME OverlapInv, [Next]_vars PROVE OverlapInv'
    OBVIOUS
  <2>1. \A k \in Calls : pc'[k] = "built" /\ Refusable(k)' => Contested(k)'
    BY BuiltStep
  <2>2. RefusedOnlyInOverlap'
    BY RefusedStep DEF RefusedOnlyInOverlap
  <2> QED BY <2>1, <2>2, PhaseStep, BeganStep DEF OverlapInv
<1>3. OverlapInv => RefusedOnlyInOverlap
  BY DEF OverlapInv
<1> QED BY <1>1, <1>2, <1>3, PTL DEF Spec
-----------------------------------------------------------------------------
LEMMA QuietStep == TypeOK /\ QuietAfterAnswer /\ [Next]_vars => QuietAfterAnswer'
<1> SUFFICES ASSUME TypeOK, QuietAfterAnswer, [Next]_vars, NEW l \in Listeners
             PROVE  answer'[l] \in {"found", "null"} =>
                      subscription'[l] = "closed" /\ timer'[l] # "pending"
  BY DEF QuietAfterAnswer
<1> USE DEF TypeOK, ListenTypeOK, QuietAfterAnswer
<1>1. CASE UNCHANGED <<subscription, timer, answer>>
  BY <1>1
<1>2. ASSUME NEW j \in Listeners, StartListening(j)
      PROVE  answer'[l] \in {"found", "null"} =>
               subscription'[l] = "closed" /\ timer'[l] # "pending"
  BY <1>2 DEF StartListening, Listen
<1>3. ASSUME NEW j \in Listeners, Subscribed(j, head) \/ SubscribeFails(j)
      PROVE  answer'[l] \in {"found", "null"} =>
               subscription'[l] = "closed" /\ timer'[l] # "pending"
  BY <1>3 DEF Subscribed, SubscribeFails
<1>4. ASSUME NEW j \in Listeners, Callback(j)
      PROVE  answer'[l] \in {"found", "null"} =>
               subscription'[l] = "closed" /\ timer'[l] # "pending"
  BY <1>4 DEF Callback, Resolve
<1>5. ASSUME NEW j \in Listeners, TimerFires(j)
      PROVE  answer'[l] \in {"found", "null"} =>
               subscription'[l] = "closed" /\ timer'[l] # "pending"
  BY <1>5 DEF TimerFires, Resolve
<1> QED
  BY <1>1, <1>2, <1>3, <1>4, <1>5 DEF Next, CallStep, Begin, Sign, Submit, Refused, Include,
     Finalized, Verify, Expire, ListenerStep, ListenStep, Tick, listenVars, vars

(***************************************************************************)
(* A listener that has answered has closed its subscription and its timer, *)
(* whichever of the event and the timeout came first, and callbacks that   *)
(* still run change nothing; for every order of events and slots.          *)
(***************************************************************************)
THEOREM Quiet == Spec => []QuietAfterAnswer
<1>1. Init => QuietAfterAnswer
  BY DEF Init, ListenInit, QuietAfterAnswer
<1> QED BY <1>1, QuietStep, TypeCorrect, PTL DEF Spec
-----------------------------------------------------------------------------
(***************************************************************************)
(* That TaskScripts implements TaskLife.  What is due was scheduled with   *)
(* effect, and what a caller has rejected with is not on the chain with    *)
(* effect, nor on its way there.                                           *)
(***************************************************************************)
LifeInv ==
  /\ CancelInv
  /\ \A t \in Tasks : due[t] # {} => t \in Schedules \cap Effective

LEMMA LifeStep == LifeInv /\ [Next]_vars => LifeInv'
<1> SUFFICES ASSUME LifeInv, [Next]_vars, NEW t \in Tasks, due'[t] # {}
             PROVE  t \in Schedules \cap Effective'
  BY CancelStep DEF LifeInv
<1> USE Constants DEF LifeInv, CancelInv, PhaseInv
<1>1. due[t] # {} => t \in Schedules /\ t \in chain /\ errors[t] = {}
  BY DEF Effective
<1>2. ASSUME NEW k \in Calls, Include(k) PROVE t \in Schedules \cap Effective'
  <2>1. /\ k \notin chain /\ chain' = chain \cup {k}
        /\ errors' = [errors EXCEPT ![k] = ErrorsOf(k)]
        /\ errors \in [Calls -> SUBSET Errors] /\ due \in [Tasks -> SUBSET Nat]
    BY <1>2 DEF Include, TypeOK, PalletTypeOK
  <2>2. CASE due[t] # {}
    BY <1>1, <2>1, <2>2 DEF Effective
  <2>3. CASE due[t] = {}
    <3>1. k \notin Cancels
      BY <1>2, <2>1, <2>3 DEF Include, Cancelled
    <3>2. k \in Schedules /\ due' = IF ErrorsOf(k) = {} THEN [due EXCEPT ![k] = Slots(k)] ELSE due
      BY <1>2, <3>1 DEF Include, Scheduled, ErrorsOf, Schedules
    <3>3. t = k /\ ErrorsOf(k) = {}
      BY <2>1, <2>3, <3>2
    <3> QED BY <2>1, <3>2, <3>3 DEF Effective
  <2> QED BY <2>2, <2>3
<1>3. CASE Tick /\ UNCHANGED <<chain, errors>>
  <2>1. due[t] # {}
    BY <1>3 DEF Tick, NextSlot, Remaining
  <2> QED BY <1>1, <1>3, <2>1 DEF Effective
<1>4. CASE UNCHANGED <<due, time, chain, errors>>
  BY <1>1, <1>4 DEF Effective
<1> QED BY <1>2, <1>3, <1>4, DueStep

LEMMA LifeInvariant == Spec => []LifeInv
<1>1. Init => LifeInv
  <2>1. Init => CancelInv
    BY PhaseInit, Constants DEF Init, PalletInit, CancelInv
  <2> QED BY <2>1 DEF Init, PalletInit, LifeInv
<1> QED BY <1>1, LifeStep, PTL DEF Spec

\* What TaskLife sees.
Lives == [t \in Schedules |-> Life(t)]
Tellings == [k \in Schedules \cup Cancels |-> Told(k)]

LEMMA LifeIs ==
  ASSUME NEW t
  PROVE  /\ t \notin Effective => Life(t) = "none"
         /\ t \in Effective /\ due[t] # {} => Life(t) = "scheduled"
         /\ t \in Effective /\ due[t] = {} /\ (\E k \in Cancels \cap Effective : Target[k] = t) =>
              Life(t) = "cancelled"
         /\ t \in Effective /\ due[t] = {} /\ ~(\E k \in Cancels \cap Effective : Target[k] = t) =>
              Life(t) = "finished"
BY DEF Life

LEMMA NextLifeIs ==
  ASSUME NEW t
  PROVE  /\ t \in Effective' /\ due'[t] # {} => Life(t)' = "scheduled"
         /\ t \in Effective' /\ due'[t] = {} /\ (\E k \in Cancels \cap Effective' : Target[k] = t) =>
              Life(t)' = "cancelled"
         /\ t \in Effective' /\ due'[t] = {} /\ ~(\E k \in Cancels \cap Effective' : Target[k] = t) =>
              Life(t)' = "finished"
         /\ /\ t \in Effective' <=> t \in Effective
            /\ due'[t] = {} <=> due[t] = {}
            /\ (\E k \in Cancels \cap Effective' : Target[k] = t)
                 <=> (\E k \in Cancels \cap Effective : Target[k] = t)
            => Life(t)' = Life(t)
BY DEF Life

LEMMA ToldIs ==
  ASSUME NEW k
  PROVE  /\ pc[k] = "returned" => Told(k) = "done"
         /\ pc[k] \in {"rejected", "crashed"} => Told(k) = "failed"
         /\ pc[k] \notin Settled => Told(k) = "nothing"
         /\ pc'[k] = "returned" => Told(k)' = "done"
         /\ pc'[k] \in {"rejected", "crashed"} => Told(k)' = "failed"
         /\ pc'[k] \notin Settled => Told(k)' = "nothing"
         /\ pc'[k] = pc[k] => Told(k)' = Told(k)
BY DEF Told, Settled

LEMMA BothKinds == Schedules \cup Cancels = Calls
BY ScriptAssumption DEF Schedules

LEMMA SlotsThere == ASSUME NEW k \in Schedules PROVE Slots(k) # {}
<1>1. Frequency[k] \in Nat
  BY Constants
<1>2. CASE Frequency[k] > 0
  BY <1>2 DEF Slots
<1>3. CASE Frequency[k] = 0 /\ k \in Demos
  <2>1. clock[k] - (clock[k] % Hour) + 1 * Hour \in Slots(k)
    BY <1>3 DEF Slots
  <2> QED BY <2>1
<1>4. CASE Frequency[k] = 0 /\ k \notin Demos
  <2>1. clock[k] - (clock[k] % Day) + 1 * Day \in Slots(k)
    BY <1>4 DEF Slots
  <2> QED BY <2>1
<1> QED BY <1>1, <1>2, <1>3, <1>4

SameTasks == UNCHANGED Tasking!vars

LEMMA SameThere ==
  ASSUME UNCHANGED <<due, chain, errors>>
  PROVE  UNCHANGED <<Lives, Effective>>
<1>1. UNCHANGED Effective
  BY DEF Effective
<1>2. \A t \in Schedules : Life(t)' = Life(t)
  BY <1>1, NextLifeIs
<1> QED BY <1>1, <1>2 DEF Lives

\* The dispatch of a call with an error is nothing to the tasks, and of one
\* without it is the effect of that call.
LEMMA IncludeThere ==
  ASSUME LifeInv, NEW k \in Calls, Include(k)
  PROVE  Tasking!Next \/ SameTasks
<1> USE Constants DEF LifeInv, CancelInv, PhaseInv
<1>1. /\ k \in pool /\ k \notin chain /\ chain' = chain \cup {k}
      /\ errors' = [errors EXCEPT ![k] = ErrorsOf(k)]
      /\ errors \in [Calls -> SUBSET Errors] /\ due \in [Tasks -> SUBSET Nat]
      /\ chain \subseteq Calls /\ UNCHANGED <<pc, time>>
  BY DEF Include, TypeOK, PalletTypeOK
<1>2. Effective' = IF ErrorsOf(k) = {} THEN Effective \cup {k} ELSE Effective
  BY <1>1 DEF Effective
<1>3. UNCHANGED Tellings
  BY <1>1, ToldIs DEF Tellings
<1>4. k \notin Effective /\ Told(k) = "nothing" /\ k \in Schedules \cup Cancels
  <2>1. pc[k] = "sent"
    BY <1>1 DEF Phases
  <2> QED BY <1>1, <2>1, ToldIs, BothKinds DEF Effective, Settled
<1>5. ErrorsOf(k) = {} => Tasking!Take(k)
  BY <1>2, <1>3, <1>4 DEF Tasking!Take, Tellings
<1>6. CASE ErrorsOf(k) # {}
  <2>1. UNCHANGED due
    BY <1>6 DEF Include, ErrorsOf, Cancelled, Scheduled
  <2>2. UNCHANGED Effective
    BY <1>2, <1>6
  <2>3. UNCHANGED Lives
    BY <2>1, <2>2, NextLifeIs DEF Lives
  <2> QED BY <1>3, <2>2, <2>3 DEF SameTasks, Tasking!vars, Lives, Tellings
<1>7. CASE ErrorsOf(k) = {} /\ k \in Cancels
  <2> DEFINE t == Target[k]
  <2>1. t \in Tasks /\ due[t] # {} /\ due' = [due EXCEPT ![t] = {}]
    BY <1>7 DEF Include, Cancelled, ErrorsOf, CancelErrors
  <2>2. t \in Schedules /\ t \in Effective
    BY <2>1
  <2>3. Life(t) = "scheduled"
    BY <2>1, <2>2, LifeIs
  <2>4. Life(t)' = "cancelled"
    BY <1>1, <1>2, <1>7, <2>1, <2>2, NextLifeIs
  <2>5. ASSUME NEW j \in Schedules, j # t PROVE Life(j)' = Life(j)
    <3>1. (j \in Effective' <=> j \in Effective) /\ due'[j] = due[j]
      BY <1>2, <1>7, <2>1, <2>5 DEF Schedules
    <3>2. (\E i \in Cancels \cap Effective' : Target[i] = j)
             <=> (\E i \in Cancels \cap Effective : Target[i] = j)
      BY <1>2, <1>7, <2>5
    <3> QED BY <3>1, <3>2, NextLifeIs
  <2>6. Lives[t] = "scheduled" /\ Lives' = [Lives EXCEPT ![t] = "cancelled"]
    BY <2>2, <2>3, <2>4, <2>5 DEF Lives
  <2>7. Tasking!Cancel(k)
    BY <1>5, <1>7, <2>2, <2>6 DEF Tasking!Cancel, Tasking!Change, Lives
  <2> QED BY <1>7, <2>7 DEF Tasking!Next
<1>8. CASE ErrorsOf(k) = {} /\ k \notin Cancels
  <2>1. k \in Schedules /\ k \in Tasks /\ due' = [due EXCEPT ![k] = Slots(k)]
    BY <1>8 DEF Include, Scheduled, ErrorsOf, Schedules
  <2>2. Slots(k) # {}
    BY <2>1, SlotsThere
  <2>3. Life(k) = "none"
    BY <1>4, LifeIs
  <2>4. Life(k)' = "scheduled"
    BY <1>1, <1>2, <1>8, <2>1, <2>2, NextLifeIs
  <2>5. ASSUME NEW j \in Schedules, j # k PROVE Life(j)' = Life(j)
    <3>1. (j \in Effective' <=> j \in Effective) /\ due'[j] = due[j]
      BY <1>2, <1>8, <2>1, <2>5
    <3>2. Cancels \cap Effective' = Cancels \cap Effective
      BY <1>2, <1>8
    <3> QED BY <3>1, <3>2, NextLifeIs
  <2>6. Lives[k] = "none" /\ Lives' = [Lives EXCEPT ![k] = "scheduled"]
    BY <2>1, <2>3, <2>4, <2>5 DEF Lives
  <2>7. Tasking!Schedule(k)
    BY <1>5, <1>8, <2>6 DEF Tasking!Schedule, Tasking!Change, Lives
  <2> QED BY <2>1, <2>7 DEF Tasking!Next
<1> QED BY <1>6, <1>7, <1>8

\* The steps of a call before its dispatch, and those that tell its caller.
LEMMA CallThere ==
  ASSUME LifeInv, NEW k \in Calls,
         Begin(k) \/ Sign(k) \/ Submit(k) \/ Refused(k) \/ Finalized(k) \/ Verify(k)
  PROVE  Tasking!Next \/ SameTasks
<1> USE Constants DEF LifeInv, CancelInv, PhaseInv
<1>1. pc \in [Calls -> {"idle", "signing", "built", "sent", "reading", "usurped"} \cup Settled]
  BY DEF TypeOK
<1>2. UNCHANGED <<due, chain, errors>>
  BY DEF Begin, Sign, Submit, Refused, Finalized, Verify, pallet
<1>3. UNCHANGED <<Lives, Effective>>
  BY <1>2, SameThere
<1>4. CASE Begin(k) \/ Sign(k) \/ Submit(k) \/ (Finalized(k) /\ pc'[k] = "reading")
  <2>1. \A j \in Calls : Told(j)' = Told(j)
    <3> SUFFICES ASSUME NEW j \in Calls PROVE Told(j)' = Told(j)
      OBVIOUS
    <3>1. pc'[j] = pc[j] \/ (pc[j] \notin Settled /\ pc'[j] \notin Settled)
      BY <1>1, <1>4 DEF Begin, Sign, Submit, Finalized, Goto, Settled, Clashing, Of, Phases
    <3> QED BY <3>1, ToldIs
  <2>2. UNCHANGED Tellings
    BY <2>1, BothKinds DEF Tellings
  <2> QED BY <1>3, <2>2 DEF SameTasks, Tasking!vars, Lives, Tellings
<1>5. CASE (Finalized(k) /\ pc'[k] # "reading") \/ Refused(k) \/ Verify(k)
  <2>1. /\ pc[k] \in {"sent", "built", "reading"} /\ \A j \in Calls : j # k => pc'[j] = pc[j]
        /\ \/ pc'[k] = "returned" /\ k \in Effective
           \/ pc'[k] \in {"rejected", "crashed"} /\ k \notin Effective
    BY <1>1, <1>5 DEF Finalized, Refused, Verify, Goto, Phases, Effective
  <2>2. Told(k) = "nothing" /\ Told(k)' = IF k \in Effective THEN "done" ELSE "failed"
    BY <2>1, ToldIs DEF Settled
  <2>3. \A j \in Calls : j # k => Told(j)' = Told(j)
    BY <2>1, ToldIs
  <2>4. /\ Tellings[k] = "nothing"
        /\ Tellings' = [Tellings EXCEPT ![k] = IF k \in Effective THEN "done" ELSE "failed"]
    BY <2>2, <2>3, BothKinds DEF Tellings
  <2>5. Tasking!Tell(k)
    BY <1>3, <2>4 DEF Tasking!Tell, Lives, Tellings
  <2> QED BY <2>5, BothKinds DEF Tasking!Next
<1> QED BY <1>4, <1>5

\* A slot that begins: tasks run, some of those that do not recur for the last time.
LEMMA TickThere ==
  ASSUME LifeInv, Tick, UNCHANGED <<chain, errors>>
  PROVE  Tasking!Next \/ SameTasks
<1> USE Constants DEF LifeInv, CancelInv, PhaseInv
<1>1. /\ UNCHANGED pc /\ due \in [Tasks -> SUBSET Nat]
      /\ due' = [t \in Tasks |-> Remaining(t, time + 1)]
  BY DEF Tick, NextSlot, callVars, TypeOK, PalletTypeOK
<1>2. UNCHANGED Effective
  BY DEF Effective
<1>3. UNCHANGED Tellings
  BY <1>1, ToldIs, BothKinds DEF Tellings
<1> DEFINE T == {t \in Schedules : due[t] # {} /\ due'[t] = {}}
<1>4. ASSUME NEW t \in T
      PROVE  Life(t) = "scheduled" /\ Life(t)' = "finished" /\ ~(Frequency[t] > 0)
  <2>1. t \in Tasks /\ t \in Effective /\ Life(t) = "scheduled"
    BY LifeIs
  <2>2. ~(\E k \in Cancels \cap Effective : Target[k] = t)
    BY <2>1 DEF Effective
  <2>3. Life(t)' = "finished"
    BY <1>2, <2>1, <2>2, NextLifeIs
  <2>4. Remaining(t, time + 1) = {}
    BY <1>1, <2>1
  <2>5. ~(Frequency[t] > 0)
    BY <2>4 DEF Remaining
  <2> QED BY <2>1, <2>3, <2>5
<1>5. ASSUME NEW t \in Schedules, t \notin T PROVE Life(t)' = Life(t)
  <2>1. due[t] = {} => due'[t] = {}
    BY <1>1 DEF Remaining
  <2> QED BY <1>2, <1>5, <2>1, NextLifeIs
<1>6. T \in SUBSET {t \in Schedules \ {u \in Schedules : Frequency[u] > 0} : Lives[t] = "scheduled"}
  BY <1>4 DEF Lives
<1> HIDE DEF T
<1>7. Lives' = [t \in Schedules |-> IF t \in T THEN "finished" ELSE Lives[t]]
  BY <1>4, <1>5 DEF Lives
<1>8. Tasking!Finish
  BY <1>2, <1>3, <1>6, <1>7 DEF Tasking!Finish, Lives, Tellings
<1> QED BY <1>8 DEF Tasking!Next

(***************************************************************************)
(* ImplementsTaskLife: whatever overlaps, expires or is refused, the calls *)
(* of the tests and scripts schedule a task once, cancel it once while it  *)
(* is scheduled, and tell their caller whether they did (helpFn.ts lines   *)
(* 126 to 141 and 149 to 307).                                             *)
(***************************************************************************)
THEOREM Implements == Spec => ImplementsTaskLife
<1>1. Init => Tasking!Init
  <2> SUFFICES ASSUME Init PROVE Tasking!Init
    OBVIOUS
  <2>1. Effective = {}
    BY DEF Init, Effective
  <2>2. \A t \in Schedules : Life(t) = "none"
    BY <2>1, LifeIs
  <2>3. \A k \in Calls : Told(k) = "nothing"
    BY ToldIs DEF Init, Settled
  <2> QED BY <2>1, <2>2, <2>3, BothKinds DEF Tasking!Init
<1>2. LifeInv /\ [Next]_vars => [Tasking!Next]_(Tasking!vars)
  <2> SUFFICES ASSUME LifeInv, [Next]_vars PROVE Tasking!Next \/ SameTasks
    BY DEF SameTasks
  <2> DEFINE Still == UNCHANGED <<due, chain, errors, pc>>
  <2>1. ASSUME NEW k \in Calls, CallStep(k) PROVE Tasking!Next \/ SameTasks
    BY <2>1, IncludeThere, CallThere DEF CallStep
  <2>2. CASE Tick
    BY <2>2, TickThere DEF Tick, callVars
  <2>3. CASE Still
    <3>1. UNCHANGED <<Lives, Effective>>
      BY <2>3, SameThere
    <3>2. UNCHANGED Tellings
      BY <2>3, ToldIs DEF Tellings
    <3> QED BY <3>1, <3>2 DEF SameTasks, Tasking!vars, Lives, Tellings
  <2>4. ASSUME NEW n \in Tests, Expire(n) PROVE Still
    BY <2>4 DEF Expire, pallet
  <2>5. ASSUME NEW l \in Listeners, StartListening(l) \/ ListenerStep(l) PROVE Still
    BY <2>5 DEF StartListening, ListenerStep, pallet, callVars
  <2>6. CASE UNCHANGED vars
    BY <2>3, <2>6 DEF vars, pallet, callVars
  <2> QED BY <2>1, <2>2, <2>3, <2>4, <2>5, <2>6 DEF Next
<1> QED BY <1>1, <1>2, LifeInvariant, PTL DEF Spec, ImplementsTaskLife, Tasking!Spec
=============================================================================
