---------------------------- MODULE StakingLedger ----------------------------
(***************************************************************************)
(* What the staking operations of OakAdapter promise, without queries,     *)
(* hints and the delegations of other accounts: an operation is one        *)
(* transaction on what the account holds, whole or not at all.  It throws  *)
(* only at a moment when it is not permitted, and fails only then or when  *)
(* the staking state was changed while it ran, which bondMore always and   *)
(* setAutoCompound once survives.  A read is answered in one moment.       *)
(***************************************************************************)
EXTENDS Integers

CONSTANTS
  Collators, Delegates, SetAutos, BondMores, AmountReads, PercentageReads,
  Collator, Amount, Percentage, After,
  Free, MinDelegation, MaxDelegationsPerDelegator, Undefined

VARIABLES
  open,       \* the collators that are candidates
  stake,      \* stake[k]: what the account has staked at k
  share,      \* share[k]: the percentage it auto-compounds
  spare,      \* what it has not staked
  held,       \* the number of its delegations
  state,      \* state[o] of an operation or a read
  disturbed,  \* disturbed[o]: changes of the staking state while o runs, up to 2
  answer

holdings == <<open, stake, share, spare, held>>

vars == <<holdings, state, disturbed, answer>>

Ops == Delegates \cup SetAutos \cup BondMores

Reads == AmountReads \cup PercentageReads

Init ==
  /\ open = Collators
  /\ stake = [k \in Collators |-> 0]
  /\ share = [k \in Collators |-> 0]
  /\ spare = Free
  /\ held = 0
  /\ state = [o \in Ops \cup Reads |-> "idle"]
  /\ disturbed = [o \in Ops |-> 0]
  /\ answer = [r \in Reads |-> Undefined]

Goto(o, from, to) == state[o] = from /\ state' = [state EXCEPT ![o] = to]

Awaited(o) == \A d \in After[o] : state[d] \in {"good", "failed"}

Disturb(except) ==
  disturbed' = [o \in Ops |-> IF state[o] = "running" /\ o \notin except /\ disturbed[o] < 2
                               THEN disturbed[o] + 1 ELSE disturbed[o]]

MayDelegate(o) ==
  /\ Collator[o] \in open /\ stake[Collator[o]] = 0
  /\ MinDelegation <= Amount[o] /\ Amount[o] <= spare
  /\ held < MaxDelegationsPerDelegator

MayBondMore(o) == stake[Collator[o]] > 0 /\ Amount[o] <= spare

MaySetAuto(o) == stake[Collator[o]] > 0

Permitted(o) ==
  \/ o \in Delegates /\ MayDelegate(o)
  \/ o \in SetAutos /\ MaySetAuto(o)
  \/ o \in BondMores /\ MayBondMore(o)

Overtaken(o) ==
  \/ o \in Delegates /\ disturbed[o] > 0
  \/ o \in SetAutos /\ disturbed[o] > 1
-----------------------------------------------------------------------------
Begin(o) ==
  /\ Goto(o, "idle", "running")
  /\ Awaited(o)
  /\ UNCHANGED <<holdings, disturbed, answer>>

Throw(o) ==
  /\ Goto(o, "running", "threw")
  /\ ~Permitted(o)
  /\ UNCHANGED <<holdings, disturbed, answer>>

Fail(o) ==
  /\ Goto(o, "running", "failed")
  /\ ~Permitted(o) \/ Overtaken(o)
  /\ UNCHANGED <<holdings, disturbed, answer>>

Put(o) ==
  /\ stake' = [stake EXCEPT ![Collator[o]] = @ + Amount[o]]
  /\ spare' = spare - Amount[o]

Compound(o) == share' = [share EXCEPT ![Collator[o]] = Percentage[o]]

Succeed(o) ==
  /\ Goto(o, "running", "good")
  /\ \/ o \in Delegates /\ MayDelegate(o) /\ Put(o) /\ Compound(o) /\ held' = held + 1
     \/ o \in SetAutos /\ MaySetAuto(o) /\ Compound(o) /\ UNCHANGED <<stake, spare, held>>
     \/ o \in BondMores /\ MayBondMore(o) /\ Put(o) /\ UNCHANGED <<share, held>>
  /\ Disturb({o})
  /\ UNCHANGED <<open, answer>>

\* Another account moves.
Stir == Disturb({}) /\ UNCHANGED <<holdings, state, answer>>

\* A candidate leaves: what the account has staked there is spare again.
Close(k) ==
  /\ k \in open
  /\ open' = open \ {k}
  /\ stake' = [stake EXCEPT ![k] = 0]
  /\ share' = [share EXCEPT ![k] = 0]
  /\ spare' = spare + stake[k]
  /\ held' = IF stake[k] > 0 THEN held - 1 ELSE held
  /\ Disturb({})
  /\ UNCHANGED <<state, answer>>

Found(n) == IF n = 0 THEN Undefined ELSE n

Read(r) ==
  /\ Goto(r, "idle", "good")
  /\ Awaited(r)
  /\ answer' = [answer EXCEPT ![r] =
       IF r \in AmountReads THEN Found(stake[Collator[r]]) ELSE Found(share[Collator[r]])]
  /\ UNCHANGED <<holdings, disturbed>>

Next ==
  \/ \E o \in Ops : Begin(o) \/ Throw(o) \/ Fail(o) \/ Succeed(o)
  \/ \E r \in Reads : Read(r)
  \/ \E k \in Collators : Close(k)
  \/ Stir

Spec == Init /\ [][Next]_vars
=============================================================================
