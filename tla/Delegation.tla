----------------------------- MODULE Delegation -----------------------------
(***************************************************************************)
(* The staking operations of OakAdapter (packages/adapter/src/chains/      *)
(* oak.ts): delegateWithAutoCompound, setAutoCompound and bondMore of one  *)
(* account, several of which may overlap.  An operation reads the staking  *)
(* state in queries, each an await at which the chain moves on, throws     *)
(* when what it read forbids the extrinsic, and otherwise sends it with    *)
(* the counts it read as "hints".  The chain checks the hints and the      *)
(* operation again when it dispatches the extrinsic; sendExtrinsic returns *)
(* the events of a failed dispatch as it returns those of a good one.      *)
(* getDelegation and getAutoCompoundingDelegationPercentage read back.     *)
(* Queries are answered: one that is rejected ends its operation at the    *)
(* await, before anything is sent.                                         *)
(***************************************************************************)
EXTENDS StakingPallet

CONSTANTS
  Delegates, SetAutos, BondMores,  \* invocations of the three operations
  AmountReads, PercentageReads,    \* and of the two functions that read
  Collator,    \* Collator[o]: its collator argument
  Amount,      \* Amount[o], of the operations that have an amount
  Percentage,  \* Percentage[o], of the operations that have one
  After,       \* After[o]: operations the caller awaits before o
  ExistentialDeposit,
  Undefined

Many == 2  \* no property tells more than one change apart

Ops == Delegates \cup SetAutos \cup BondMores

Reads == AmountReads \cup PercentageReads

ASSUME DelegationAssumption ==
  /\ Delegates \cap SetAutos = {} /\ Delegates \cap BondMores = {}
  /\ SetAutos \cap BondMores = {}
  /\ AmountReads \cap PercentageReads = {} /\ Reads \cap Ops = {}
  /\ Collator \in [Ops \cup Reads -> Collators]
  /\ Amount \in [Delegates \cup BondMores -> Nat]
  /\ Percentage \in [Delegates \cup SetAutos -> 0 .. 100]
  /\ After \in [Ops \cup Reads -> SUBSET Ops]
  /\ ExistentialDeposit \in Nat

VARIABLES
  pc,       \* pc[o]: the await operation or read o is at
  hint,     \* hint[o]: the counts o passes
  errors,   \* errors[o]: the dispatch errors that apply to o, {} if it is ok
  changes,  \* changes[o]: changes of the staking state while o runs, up to Many
  answer    \* answer[r]: what read r returns

vars == <<pallet, moves, pc, hint, errors, changes, answer>>

TypeOK ==
  /\ PalletTypeOK
  /\ pc \in [Ops \cup Reads -> {"idle", "delegatorState", "candidateInfo", "autoCompounding",
                              "sent", "threw", "settled"}]
  /\ hint \in [Ops -> Hints]
  /\ errors \in [Ops -> SUBSET Errors]
  /\ changes \in [Ops -> 0 .. Many]
  /\ answer \in [Reads -> Nat \cup {Undefined}]

Init ==
  /\ PalletInit
  /\ pc = [o \in Ops \cup Reads |-> "idle"]
  /\ hint = [o \in Ops |-> [delegations |-> 0, candidate |-> 0, auto |-> 0]]
  /\ errors = [o \in Ops |-> {}]
  /\ changes = [o \in Ops |-> 0]
  /\ answer = [r \in Reads |-> Undefined]

Running(o) == pc[o] \notin {"idle", "threw", "settled"}

Goto(o, from, to) == pc[o] = from /\ pc' = [pc EXCEPT ![o] = to]
-----------------------------------------------------------------------------
HasEnoughFreeBalance(o) == Free - Staked >= Amount[o] + ExistentialDeposit

\* `!this.hasEnoughFreeBalance(...)` negates the promise, which is truthy.
SaysInsufficient(o) == FALSE

FirstAwait(o) ==
  CASE o \in Delegates -> "delegatorState"
    [] o \in SetAutos  -> "autoCompounding"
    [] o \in BondMores -> "sent"

\* The call, up to its first await; bondMore sends at once.
Begin(o) ==
  /\ \A d \in After[o] : pc[d] = "settled"
  /\ Goto(o, "idle", IF o \notin SetAutos /\ SaysInsufficient(o) THEN "threw"
                                                                 ELSE FirstAwait(o))
  /\ UNCHANGED <<pallet, moves, hint, errors, changes, answer>>

\* Mutant: lte() for lt().
RefusesDelegateLte(o) == Collator[o] \in Delegated \/ Amount[o] <= MinDelegation

\* "Delegation already exists", "Amount must be greater than or equal to".
RefusesDelegate(o) == Collator[o] \in Delegated \/ Amount[o] < MinDelegation

\* Mutant: the position of the delegation (findIndex) is passed, which is -1
\* where there is none, not the number of delegations.
ReadIndex(o) ==
  /\ o \in Delegates
  /\ IF RefusesDelegate(o)
       THEN Goto(o, "delegatorState", "threw") /\ UNCHANGED hint
       ELSE /\ Goto(o, "delegatorState", "candidateInfo")
            /\ hint' = [hint EXCEPT ![o].delegations = -1]
  /\ UNCHANGED <<pallet, moves, errors, changes, answer>>

\* delegateWithAutoCompound gets the delegator state.
ReadDelegator(o) ==
  /\ o \in Delegates
  /\ IF RefusesDelegate(o)
       THEN Goto(o, "delegatorState", "threw") /\ UNCHANGED hint
       ELSE /\ Goto(o, "delegatorState", "candidateInfo")
            /\ hint' = [hint EXCEPT ![o].delegations = Cardinality(Delegated)]
  /\ UNCHANGED <<pallet, moves, errors, changes, answer>>

\* It gets the candidate info: "Candidate info not found".
ReadCandidate(o) ==
  /\ IF Collator[o] \in candidates
       THEN /\ Goto(o, "candidateInfo", "autoCompounding")
            /\ hint' = [hint EXCEPT ![o].candidate = DelegationCount(Collator[o])]
       ELSE Goto(o, "candidateInfo", "threw") /\ UNCHANGED hint
  /\ UNCHANGED <<pallet, moves, errors, changes, answer>>

\* Mutant: the length of the delegations that do not auto-compound.
ReadAutoLengthPlain(o) ==
  /\ o \in Delegates
  /\ Goto(o, "autoCompounding", "sent")
  /\ hint' = [hint EXCEPT ![o].auto = hint[o].delegations]
  /\ UNCHANGED <<pallet, moves, errors, changes, answer>>

\* It gets the auto-compounding delegations and sends the extrinsic.
ReadAutoLength(o) ==
  /\ o \in Delegates
  /\ Goto(o, "autoCompounding", "sent")
  /\ hint' = [hint EXCEPT ![o].auto = AutoCompoundingLength(Collator[o])]
  /\ UNCHANGED <<pallet, moves, errors, changes, answer>>

\* Mutant: the length is passed as it is.
SetAutoReadsExact(o) ==
  /\ o \in SetAutos
  /\ Goto(o, "autoCompounding", "delegatorState")
  /\ hint' = [hint EXCEPT ![o].auto = AutoCompoundingLength(Collator[o])]
  /\ UNCHANGED <<pallet, moves, errors, changes, answer>>

\* setAutoCompound gets the auto-compounding delegations first.
SetAutoReadsLength(o) ==
  /\ o \in SetAutos
  /\ Goto(o, "autoCompounding", "delegatorState")
  /\ hint' = [hint EXCEPT ![o].auto = AutoCompoundingLength(Collator[o]) + 1]
  /\ UNCHANGED <<pallet, moves, errors, changes, answer>>

\* Mutant: a delegator of one collator is not found.
SetAutoReadsSecond(o) ==
  /\ o \in SetAutos
  /\ IF Cardinality(Delegated) > 1
       THEN /\ Goto(o, "delegatorState", "sent")
            /\ hint' = [hint EXCEPT ![o].delegations = Cardinality(Delegated) + 1]
       ELSE Goto(o, "delegatorState", "threw") /\ UNCHANGED hint
  /\ UNCHANGED <<pallet, moves, errors, changes, answer>>

\* Then the delegator state: "Delegator state not found", or it sends.
SetAutoReadsDelegator(o) ==
  /\ o \in SetAutos
  /\ IF Delegated # {}
       THEN /\ Goto(o, "delegatorState", "sent")
            /\ hint' = [hint EXCEPT ![o].delegations = Cardinality(Delegated) + 1]
       ELSE Goto(o, "delegatorState", "threw") /\ UNCHANGED hint
  /\ UNCHANGED <<pallet, moves, errors, changes, answer>>
-----------------------------------------------------------------------------
ErrorsOf(o) ==
  CASE o \in Delegates -> DelegateErrors(Collator[o], Amount[o], Percentage[o], hint[o])
    [] o \in SetAutos  -> SetAutoErrors(Collator[o], hint[o])
    [] o \in BondMores -> BondMoreErrors(Collator[o], Amount[o])

Applied(o) ==
  CASE o \in Delegates -> /\ Bond(Collator[o], Amount[o])
                          /\ SetCompounding(Collator[o], Percentage[o])
    [] o \in SetAutos  -> SetCompounding(Collator[o], Percentage[o]) /\ UNCHANGED bond
    [] o \in BondMores -> Bond(Collator[o], Amount[o]) /\ UNCHANGED compounding

\* Every operation that runs sees one more change of the staking state.
Changed(except) ==
  changes' = [o \in Ops |-> IF Running(o) /\ o \notin except /\ changes[o] < Many
                             THEN changes[o] + 1 ELSE changes[o]]

\* The extrinsic is dispatched, and the operation returns its result.
Dispatch(o) ==
  /\ Goto(o, "sent", "settled")
  /\ errors' = [errors EXCEPT ![o] = ErrorsOf(o)]
  /\ IF ErrorsOf(o) = {}
       THEN Applied(o) /\ UNCHANGED <<candidates, others, autoOthers>> /\ Changed({o})
       ELSE UNCHANGED <<pallet, changes>>
  /\ UNCHANGED <<moves, hint, answer>>

Others == OtherMove /\ Changed({}) /\ UNCHANGED <<pc, hint, errors, answer>>

OpStep(o) ==
  \/ Begin(o)
  \/ ReadDelegator(o) \/ ReadCandidate(o) \/ ReadAutoLength(o)
  \/ SetAutoReadsLength(o) \/ SetAutoReadsDelegator(o)
  \/ Dispatch(o)

\* What is found, or undefined: a delegation that does not auto-compound is
\* not found.
Found(n) == IF n = 0 THEN Undefined ELSE n

\* Mutant: the arguments collator and delegator, whose order in the two
\* functions is not the same, are swapped.
ReadSwapped(r) ==
  /\ \A d \in After[r] : pc[d] = "settled"
  /\ Goto(r, "idle", "settled")
  /\ answer' = [answer EXCEPT ![r] =
       IF r \in AmountReads THEN Found(bond[Collator[r]]) ELSE Undefined]
  /\ UNCHANGED <<pallet, moves, hint, errors, changes>>

\* A read is called, and its one query is answered.
Read(r) ==
  /\ \A d \in After[r] : pc[d] = "settled"
  /\ Goto(r, "idle", "settled")
  /\ answer' = [answer EXCEPT ![r] =
       IF r \in AmountReads THEN Found(bond[Collator[r]]) ELSE Found(compounding[Collator[r]])]
  /\ UNCHANGED <<pallet, moves, hint, errors, changes>>

Next == Others \/ (\E o \in Ops : OpStep(o)) \/ \E r \in Reads : Read(r)

Spec == Init /\ [][Next]_vars
-----------------------------------------------------------------------------
HintErrors == {"TooLowDelegationCount", "TooLowCandidateDelegationCount",
               "TooLowCandidateAutoCompoundingDelegationCount"}

(***************************************************************************)
(* An operation while which nobody changes the staking state is not        *)
(* refused for a reason the adapter has read or should have: delegate      *)
(* fails at most for the balance and for the number of delegations, which  *)
(* it does not look at, setAutoCompound and bondMore at most for the       *)
(* delegation or the balance they do not look at.                          *)
(***************************************************************************)
UndisturbedOutcome ==
  \A o \in Ops : pc[o] = "settled" /\ changes[o] = 0 => errors[o] \subseteq
    (CASE o \in Delegates -> {"InsufficientBalance", "ExceedMaxDelegationsPerDelegator"}
       [] o \in SetAutos  -> {"DelegationDNE"}
       [] o \in BondMores -> {"InsufficientBalance", "DelegatorDNE", "DelegationDNE"})

(***************************************************************************)
(* The "+ 1" of setAutoCompound (lines 468 and 469) leaves room for any    *)
(* one change between its reads and its dispatch, whoever makes it.        *)
(***************************************************************************)
RoomForOneChange ==
  \A o \in SetAutos : changes[o] <= 1 => errors[o] \cap HintErrors = {}

(***************************************************************************)
(* delegateWithAutoCompound and setAutoCompound throw only what the chain  *)
(* would refuse, whatever the hints, unless the state changed meanwhile.   *)
(***************************************************************************)
ThrowsWhatChainRefuses ==
  [][\A o \in Ops : pc[o] # "threw" /\ pc'[o] = "threw" /\ changes[o] = 0
       => ErrorsOf(o) \ HintErrors # {}]_vars

(***************************************************************************)
(* A caller that awaits a good delegation can then use it, in any overlap  *)
(* with other operations of the account, while its collator is a           *)
(* candidate: what follows fails for the counts or the balance only        *)
(* (test/compound/compound.test.ts).                                       *)
(***************************************************************************)
Follows(o) == \E d \in After[o] : /\ d \in Delegates /\ Collator[d] = Collator[o]
                                  /\ pc[d] = "settled" /\ errors[d] = {}

AwaitedDelegationIsUsable ==
  \A o \in SetAutos \cup BondMores :
    Follows(o) /\ Collator[o] \in candidates /\ pc[o] \in {"threw", "settled"}
      => pc[o] = "settled" /\ errors[o] \subseteq HintErrors \cup {"InsufficientBalance"}

(***************************************************************************)
(* A caller that awaits good operations reads back what they have set, in  *)
(* any overlap with other operations of the account, while the collator is *)
(* a candidate (oak.ts lines 346 and 432, test/compound/compound.test.ts): *)
(* a percentage that no later operation has replaced, undefined for 0, and *)
(* the amounts of all awaited operations, with those of others that are    *)
(* good.                                                                   *)
(***************************************************************************)
Good(r, S) == {o \in S : Collator[o] = Collator[r] /\ pc[o] = "settled" /\ errors[o] = {}}

PercentageIsReadBack ==
  \A r \in PercentageReads : pc[r] = "settled" /\ Collator[r] \in candidates =>
    \A s \in Good(r, After[r] \cap (Delegates \cup SetAutos)) :
      answer[r] \in {Found(Percentage[o]) :
                       o \in Good(r, Delegates \cup SetAutos) \ After[s]}

AmountIsReadBack ==
  \A r \in AmountReads :
    /\ pc[r] = "settled" /\ Collator[r] \in candidates
    /\ Good(r, After[r] \cap (Delegates \cup BondMores)) # {}
    => \E S \in SUBSET Good(r, Delegates \cup BondMores) :
         /\ Good(r, After[r] \cap (Delegates \cup BondMores)) \subseteq S
         /\ answer[r] = SumFunctionOnSet(Amount, S)

ReadsBackWhatWasSet == PercentageIsReadBack /\ AmountIsReadBack

(***************************************************************************)
(* Every operation, for all its queries and the changes between them, is   *)
(* one transaction on what the account holds, and what it stakes is taken  *)
(* from its balance and comes back when the collator leaves: see           *)
(* StakingLedger.                                                          *)
(***************************************************************************)
Outcome(o) == CASE pc[o] \in {"idle", "threw"} -> pc[o]
                [] pc[o] = "settled" -> IF o \in Ops /\ errors[o] # {} THEN "failed" ELSE "good"
                [] OTHER -> "running"

Ledger == INSTANCE StakingLedger WITH
  open <- candidates, stake <- bond, share <- compounding,
  spare <- Free - Staked, held <- Cardinality(Delegated),
  state <- [o \in Ops \cup Reads |-> Outcome(o)], disturbed <- changes

ImplementsStakingLedger == Ledger!Spec

(***************************************************************************)
(* "Insufficient balance" (oak.ts lines 386 and 485): an operation whose   *)
(* amount and existential deposit exceed the free balance, and did so ever *)
(* since it began, is not sent.                                            *)
(***************************************************************************)
InsufficientIsRefused ==
  [][\A o \in Delegates \cup BondMores :
       pc[o] # "sent" /\ pc'[o] = "sent" /\ changes[o] = 0
         => HasEnoughFreeBalance(o)]_vars
=============================================================================
