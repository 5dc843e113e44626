-------------------------- MODULE Delegation_proofs --------------------------
(***************************************************************************)
(* What Delegation says of counts and hints, and of operations that a      *)
(* caller awaits, for every set of collators and operations, every amount  *)
(* and percentage, and every number of moves of others.                    *)
(***************************************************************************)
EXTENDS Delegation, FiniteSetTheorems, TLAPS

\* The facts about the constants the proofs use.
LEMMA Constants ==
  /\ IsFiniteSet(Collators)
  /\ \A o \in Ops \cup Reads : Collator[o] \in Collators /\ After[o] \subseteq Ops
  /\ \A o \in Delegates \cup BondMores : Amount[o] \in Nat
  /\ \A o \in Delegates \cup SetAutos : Percentage[o] \in 0 .. 100
  /\ Delegates \cap SetAutos = {} /\ Delegates \cap BondMores = {}
  /\ SetAutos \cap BondMores = {} /\ Reads \cap Ops = {}
  /\ Free \in Nat /\ MinDelegation \in Nat \ {0} /\ Crowd \in [Collators -> Nat]
  /\ MaxMoves \in Nat
BY DelegationAssumption, PalletAssumption

\* The errors of the three extrinsics, one by one.
LEMMA DelegateErrorsAre ==
  ASSUME NEW k, NEW amount, NEW percentage, NEW h, NEW e \in DelegateErrors(k, amount, percentage, h)
  PROVE  \/ e = "InsufficientBalance"
         \/ e = "DelegationBelowMin" /\ amount < MinDelegation
         \/ e = "ExceedMaxDelegationsPerDelegator"
         \/ e = "AlreadyDelegatedCandidate" /\ k \in Delegated
         \/ e = "CandidateDNE" /\ k \notin candidates
         \/ e = "TooLowDelegationCount" /\ h.delegations < Cardinality(Delegated)
         \/ e = "TooLowCandidateDelegationCount" /\ h.candidate < DelegationCount(k)
         \/ /\ e = "TooLowCandidateAutoCompoundingDelegationCount"
            /\ h.auto < AutoCompoundingLength(k)
BY DEF DelegateErrors

LEMMA SetAutoErrorsAre ==
  ASSUME NEW k, NEW h, NEW e \in SetAutoErrors(k, h)
  PROVE  \/ e = "DelegatorDNE" /\ Delegated = {}
         \/ e = "DelegationDNE" /\ Delegated # {} /\ k \notin Delegated
         \/ e = "TooLowDelegationCount" /\ h.delegations < Cardinality(Delegated)
         \/ /\ e = "TooLowCandidateAutoCompoundingDelegationCount"
            /\ h.auto < AutoCompoundingLength(k)
BY DEF SetAutoErrors

LEMMA BondMoreErrorsAre ==
  ASSUME NEW k, NEW more, NEW e \in BondMoreErrors(k, more)
  PROVE  \/ e = "InsufficientBalance"
         \/ e = "DelegatorDNE" /\ Delegated = {}
         \/ e = "DelegationDNE" /\ Delegated # {} /\ k \notin Delegated
BY DEF BondMoreErrors

LEMMA ErrorsApply ==
  /\ \A k, amount, percentage, h :
       /\ k \in Delegated => "AlreadyDelegatedCandidate" \in DelegateErrors(k, amount, percentage, h)
       /\ amount < MinDelegation => "DelegationBelowMin" \in DelegateErrors(k, amount, percentage, h)
       /\ k \notin candidates => "CandidateDNE" \in DelegateErrors(k, amount, percentage, h)
  /\ \A k, h : Delegated = {} => "DelegatorDNE" \in SetAutoErrors(k, h)
BY DEF DelegateErrors, SetAutoErrors, Errors
-----------------------------------------------------------------------------
\* The counts of the staking state are natural numbers.
LEMMA DelegatedFinite == IsFiniteSet(Delegated) /\ Cardinality(Delegated) \in Nat
BY Constants, FS_Subset, FS_CardinalityType DEF Delegated

LEMMA CountsAreNat ==
  ASSUME TypeOK, NEW k \in Collators
  PROVE  DelegationCount(k) \in Nat /\ AutoCompoundingLength(k) \in Nat
BY DEF TypeOK, PalletTypeOK, DelegationCount, AutoCompoundingLength

\* What the errors of an operation are, by its kind.
LEMMA ErrorsOfAre ==
  ASSUME NEW o
  PROVE  /\ o \in Delegates => ErrorsOf(o) =
              DelegateErrors(Collator[o], Amount[o], Percentage[o], hint[o])
         /\ o \in SetAutos => ErrorsOf(o) = SetAutoErrors(Collator[o], hint[o])
         /\ o \in BondMores => ErrorsOf(o) = BondMoreErrors(Collator[o], Amount[o])
         /\ o \in Ops => ErrorsOf(o) \subseteq Errors
<1>. Delegates \cap SetAutos = {} /\ Delegates \cap BondMores = {} /\ SetAutos \cap BondMores = {}
  BY Constants
<1>1. o \in Delegates => ErrorsOf(o) =
        DelegateErrors(Collator[o], Amount[o], Percentage[o], hint[o])
  BY DEF ErrorsOf
<1>2. o \in SetAutos => ErrorsOf(o) = SetAutoErrors(Collator[o], hint[o])
  BY DEF ErrorsOf
<1>3. o \in BondMores => ErrorsOf(o) = BondMoreErrors(Collator[o], Amount[o])
  BY DEF ErrorsOf
<1>. QED  BY <1>1, <1>2, <1>3 DEF DelegateErrors, SetAutoErrors, BondMoreErrors, Ops

\* What a good operation changes, by its kind.
LEMMA AppliedIs ==
  ASSUME NEW o, Applied(o)
  PROVE  /\ o \in Delegates => Bond(Collator[o], Amount[o])
                               /\ SetCompounding(Collator[o], Percentage[o])
         /\ o \in SetAutos => SetCompounding(Collator[o], Percentage[o]) /\ UNCHANGED bond
         /\ o \in BondMores => Bond(Collator[o], Amount[o]) /\ UNCHANGED compounding
<1>. Delegates \cap SetAutos = {} /\ Delegates \cap BondMores = {} /\ SetAutos \cap BondMores = {}
  BY Constants
<1>1. CASE o \in Delegates
  BY <1>1 DEF Applied
<1>2. CASE o \in SetAutos
  BY <1>2 DEF Applied
<1>3. CASE o \in BondMores
  BY <1>3 DEF Applied
<1>. QED  BY <1>1, <1>2, <1>3

\* Those of the others that auto-compound are some of them.
Base == TypeOK /\ \A k \in Collators : autoOthers[k] <= others[k]

LEMMA BaseInit == Init => Base
BY Constants DEF Init, PalletInit, Base, TypeOK, PalletTypeOK, Hints, Many

LEMMA ChangedType ==
  ASSUME NEW except, changes \in [Ops -> 0 .. Many], Changed(except)
  PROVE  changes' \in [Ops -> 0 .. Many]
BY DEF Changed, Many

LEMMA OthersBase ==
  ASSUME Base, Others
  PROVE  Base'
<1>. UNCHANGED <<pc, hint, errors, answer>> /\ changes' \in [Ops -> 0 .. Many]
  BY ChangedType DEF Base, TypeOK, Others
<1>1. PICK k \in Collators : \/ \E auto \in BOOLEAN : Join(k, auto) \/ Leave(k, auto)
                             \/ TurnAuto(k) \/ CandidateLeaves(k)
  BY DEF Others, OtherMove
<1>2. ASSUME NEW auto \in BOOLEAN, Join(k, auto)
      PROVE  PalletTypeOK' /\ \A j \in Collators : autoOthers'[j] <= others'[j]
  BY <1>2, Constants DEF Base, TypeOK, PalletTypeOK, Join, Move
<1>3. ASSUME NEW auto \in BOOLEAN, Leave(k, auto)
      PROVE  PalletTypeOK' /\ \A j \in Collators : autoOthers'[j] <= others'[j]
  BY <1>3, Constants DEF Base, TypeOK, PalletTypeOK, Leave, Move
<1>4. ASSUME TurnAuto(k)
      PROVE  PalletTypeOK' /\ \A j \in Collators : autoOthers'[j] <= others'[j]
  BY <1>4, Constants DEF Base, TypeOK, PalletTypeOK, TurnAuto, Move
<1>5. ASSUME CandidateLeaves(k)
      PROVE  PalletTypeOK' /\ \A j \in Collators : autoOthers'[j] <= others'[j]
  BY <1>5, Constants DEF Base, TypeOK, PalletTypeOK, CandidateLeaves, Move
<1>6. PalletTypeOK' /\ \A j \in Collators : autoOthers'[j] <= others'[j]
  BY <1>1, <1>2, <1>3, <1>4, <1>5
<1>. QED  BY <1>6 DEF Base, TypeOK

LEMMA DispatchBase ==
  ASSUME Base, NEW o \in Ops, Dispatch(o)
  PROVE  Base'
<1>1. pc' \in [Ops \cup Reads -> {"idle", "delegatorState", "candidateInfo", "autoCompounding",
                                  "sent", "threw", "settled"}]
  BY DEF Base, TypeOK, Dispatch, Goto
<1>2. hint' \in [Ops -> Hints] /\ answer' \in [Reads -> Nat \cup {Undefined}]
  BY DEF Base, TypeOK, Dispatch
<1>3. errors' \in [Ops -> SUBSET Errors]
  BY ErrorsOfAre DEF Base, TypeOK, Dispatch
<1>4. CASE ErrorsOf(o) # {}
  BY <1>1, <1>2, <1>3, <1>4 DEF Dispatch, pallet, Base, TypeOK, PalletTypeOK
<1>5. CASE ErrorsOf(o) = {}
  <2>1. changes' \in [Ops -> 0 .. Many]
    BY <1>5, ChangedType DEF Base, TypeOK, Dispatch
  <2>2. UNCHANGED <<candidates, others, autoOthers, moves>> /\ Applied(o)
    BY <1>5 DEF Dispatch
  <2>3. bond' \in [Collators -> Nat] /\ compounding' \in [Collators -> 0 .. 100]
    <3>. bond \in [Collators -> Nat] /\ compounding \in [Collators -> 0 .. 100]
      BY DEF Base, TypeOK, PalletTypeOK
    <3>1. CASE o \in Delegates
      <4>. Amount[o] \in Nat /\ Percentage[o] \in 0 .. 100
        BY <3>1, Constants
      <4>. QED  BY <3>1, <2>2, AppliedIs DEF Bond, SetCompounding
    <3>2. CASE o \in SetAutos
      BY <3>2, <2>2, AppliedIs, Constants DEF SetCompounding
    <3>3. CASE o \in BondMores
      <4>. Amount[o] \in Nat
        BY <3>3, Constants
      <4>. QED  BY <3>3, <2>2, AppliedIs DEF Bond
    <3>. QED  BY <3>1, <3>2, <3>3 DEF Ops
  <2>. QED  BY <1>1, <1>2, <1>3, <2>1, <2>2, <2>3 DEF Base, TypeOK, PalletTypeOK
<1>. QED  BY <1>4, <1>5

\* A step of an operation before it is dispatched.
Reading(o) ==
  \/ Begin(o)
  \/ ReadDelegator(o) \/ ReadCandidate(o) \/ ReadAutoLength(o)
  \/ SetAutoReadsLength(o) \/ SetAutoReadsDelegator(o)

LEMMA ReadingBase ==
  ASSUME Base, NEW o \in Ops, Reading(o)
  PROVE  Base'
<1>0. UNCHANGED <<pallet, moves, errors, changes, answer>>
  BY DEF Reading, Begin, ReadDelegator, ReadCandidate, ReadAutoLength, SetAutoReadsLength,
         SetAutoReadsDelegator
<1>. Collator[o] \in Collators
  BY Constants
<1>. Cardinality(Delegated) \in Nat /\ DelegationCount(Collator[o]) \in Nat
     /\ AutoCompoundingLength(Collator[o]) \in Nat
  BY DelegatedFinite, CountsAreNat DEF Base
<1>. DEFINE P == {"idle", "delegatorState", "candidateInfo", "autoCompounding",
                  "sent", "threw", "settled"}
<1>. pc \in [Ops \cup Reads -> P] /\ hint \in [Ops -> Hints]
  BY DEF Base, TypeOK
<1>1. CASE Begin(o)
  <2>1. FirstAwait(o) \in P
    BY DEF FirstAwait, Ops
  <2>2. pc' \in [Ops \cup Reads -> P] /\ hint' \in [Ops -> Hints]
    BY <1>1, <2>1 DEF Begin, Goto
  <2>. QED  BY <1>0, <2>2 DEF Base, TypeOK, PalletTypeOK, pallet
<1>2. CASE ReadDelegator(o)
  <2>1. pc' \in [Ops \cup Reads -> P] /\ hint' \in [Ops -> Hints]
    BY <1>2 DEF ReadDelegator, Goto, Hints
  <2>. QED  BY <1>0, <2>1 DEF Base, TypeOK, PalletTypeOK, pallet
<1>3. CASE ReadCandidate(o)
  <2>1. pc' \in [Ops \cup Reads -> P] /\ hint' \in [Ops -> Hints]
    BY <1>3 DEF ReadCandidate, Goto, Hints
  <2>. QED  BY <1>0, <2>1 DEF Base, TypeOK, PalletTypeOK, pallet
<1>4. CASE ReadAutoLength(o)
  <2>1. pc' \in [Ops \cup Reads -> P] /\ hint' \in [Ops -> Hints]
    BY <1>4 DEF ReadAutoLength, Goto, Hints
  <2>. QED  BY <1>0, <2>1 DEF Base, TypeOK, PalletTypeOK, pallet
<1>5. CASE SetAutoReadsLength(o)
  <2>1. pc' \in [Ops \cup Reads -> P] /\ hint' \in [Ops -> Hints]
    BY <1>5 DEF SetAutoReadsLength, Goto, Hints
  <2>. QED  BY <1>0, <2>1 DEF Base, TypeOK, PalletTypeOK, pallet
<1>6. CASE SetAutoReadsDelegator(o)
  <2>1. pc' \in [Ops \cup Reads -> P] /\ hint' \in [Ops -> Hints]
    BY <1>6 DEF SetAutoReadsDelegator, Goto, Hints
  <2>. QED  BY <1>0, <2>1 DEF Base, TypeOK, PalletTypeOK, pallet
<1>. QED  BY <1>1, <1>2, <1>3, <1>4, <1>5, <1>6 DEF Reading

LEMMA ReadBase ==
  ASSUME Base, NEW r \in Reads, Read(r)
  PROVE  Base'
<1>. Collator[r] \in Collators
  BY Constants
<1>1. bond[Collator[r]] \in Nat /\ compounding[Collator[r]] \in Nat
  BY DEF Base, TypeOK, PalletTypeOK
<1>2. answer' \in [Reads -> Nat \cup {Undefined}]
  BY <1>1 DEF Read, Found, Base, TypeOK
<1>3. pc' \in [Ops \cup Reads -> {"idle", "delegatorState", "candidateInfo", "autoCompounding",
                                  "sent", "threw", "settled"}]
  BY DEF Base, TypeOK, Read, Goto
<1>. QED  BY <1>2, <1>3 DEF Base, TypeOK, PalletTypeOK, pallet, Read

LEMMA BaseStep == Base /\ [Next]_vars => Base'
<1>. SUFFICES ASSUME Base, [Next]_vars PROVE Base'
  OBVIOUS
<1>1. CASE Others
  BY <1>1, OthersBase
<1>2. ASSUME NEW o \in Ops, OpStep(o) PROVE Base'
  BY <1>2, DispatchBase, ReadingBase DEF OpStep, Reading
<1>3. ASSUME NEW r \in Reads, Read(r) PROVE Base'
  BY <1>3, ReadBase
<1>4. CASE UNCHANGED vars
  BY <1>4 DEF Base, TypeOK, PalletTypeOK, vars, pallet
<1>. QED  BY <1>1, <1>2, <1>3, <1>4 DEF Next

(***************************************************************************)
(* The types of the staking state, and no collator with more delegations   *)
(* that auto-compound than delegations.                                    *)
(***************************************************************************)
THEOREM BaseInvariant == Spec => []Base
BY BaseInit, BaseStep, PTL DEF Spec

(***************************************************************************)
(* TypeOK: every hint is a count, and no step of the operations, of the    *)
(* pallet or of others takes a count of the staking state below zero.      *)
(***************************************************************************)
THEOREM TypeCorrect == Spec => []TypeOK
<1>1. Base => TypeOK
  BY DEF Base
<1>. QED  BY <1>1, BaseInvariant, PTL
-----------------------------------------------------------------------------
(***************************************************************************)
(* How the counts an operation passes compare with the staking state.      *)
(***************************************************************************)
LEMMA SameCounts ==
  ASSUME UNCHANGED pallet
  PROVE  /\ Delegated' = Delegated /\ Cardinality(Delegated)' = Cardinality(Delegated)
         /\ candidates' = candidates
         /\ \A k : DelegationCount(k)' = DelegationCount(k)
                   /\ AutoCompoundingLength(k)' = AutoCompoundingLength(k)
BY DEF pallet, Delegated, DelegationCount, AutoCompoundingLength

\* One move of others, and one good operation, adds one at most to each count.
GrowsByOne ==
  /\ Cardinality(Delegated)' \in Int /\ Cardinality(Delegated)' <= Cardinality(Delegated) + 1
  /\ \A k \in Collators : /\ AutoCompoundingLength(k)' \in Int
                           /\ AutoCompoundingLength(k)' <= AutoCompoundingLength(k) + 1

LEMMA CardinalityGrows ==
  ASSUME NEW k, Delegated' \subseteq Delegated \cup {k}
  PROVE  Cardinality(Delegated)' \in Int /\ Cardinality(Delegated)' <= Cardinality(Delegated) + 1
<1>1. IsFiniteSet(Delegated) /\ Cardinality(Delegated) \in Nat
  BY DelegatedFinite
<1>2. IsFiniteSet(Delegated \cup {k})
      /\ Cardinality(Delegated \cup {k}) <= Cardinality(Delegated) + 1
      /\ Cardinality(Delegated \cup {k}) \in Nat
  BY <1>1, FS_AddElement, FS_CardinalityType
<1>3. Cardinality(Delegated') <= Cardinality(Delegated \cup {k})
      /\ Cardinality(Delegated') \in Nat
  BY <1>2, FS_Subset, FS_CardinalityType
<1>. QED  BY <1>1, <1>2, <1>3

LEMMA OthersGrow ==
  ASSUME Base, Others
  PROVE  GrowsByOne
<1>1. PICK k \in Collators : \/ \E auto \in BOOLEAN : Join(k, auto) \/ Leave(k, auto)
                             \/ TurnAuto(k) \/ CandidateLeaves(k)
  BY DEF Others, OtherMove
<1>2. Delegated' \subseteq Delegated \cup {k}
  BY <1>1 DEF Delegated, Join, Leave, TurnAuto, CandidateLeaves, Base, TypeOK, PalletTypeOK
<1>3. ASSUME NEW j \in Collators
      PROVE  AutoCompoundingLength(j)' \in Int
             /\ AutoCompoundingLength(j)' <= AutoCompoundingLength(j) + 1
  BY <1>1 DEF AutoCompoundingLength, Join, Leave, TurnAuto, CandidateLeaves, Base, TypeOK,
              PalletTypeOK
<1>. QED  BY <1>2, <1>3, CardinalityGrows DEF GrowsByOne

LEMMA DispatchGrows ==
  ASSUME Base, NEW o \in Ops, Dispatch(o), ErrorsOf(o) = {}
  PROVE  GrowsByOne
<1>. Collator[o] \in Collators /\ bond \in [Collators -> Nat]
     /\ compounding \in [Collators -> 0 .. 100]
  BY Constants DEF Base, TypeOK, PalletTypeOK
<1>1. UNCHANGED <<others, autoOthers>> /\ Applied(o)
  BY DEF Dispatch
<1>2. \/ UNCHANGED bond \/ bond' = [bond EXCEPT ![Collator[o]] = @ + Amount[o]]
  BY <1>1, AppliedIs DEF Bond, Ops
<1>3. \/ UNCHANGED compounding
      \/ compounding' = [compounding EXCEPT ![Collator[o]] = Percentage[o]]
  BY <1>1, AppliedIs DEF SetCompounding, Ops
<1>4. Delegated' \subseteq Delegated \cup {Collator[o]}
  BY <1>2 DEF Delegated
<1>5. ASSUME NEW j \in Collators
      PROVE  AutoCompoundingLength(j)' \in Int
             /\ AutoCompoundingLength(j)' <= AutoCompoundingLength(j) + 1
  <2>. autoOthers[j] \in Nat /\ autoOthers'[j] = autoOthers[j]
    BY <1>1 DEF Base, TypeOK, PalletTypeOK
  <2>. QED  BY DEF AutoCompoundingLength
<1>. QED  BY <1>4, <1>5, CardinalityGrows DEF GrowsByOne

\* A step of an operation before its dispatch moves that operation alone.
LEMMA ReadingIs ==
  ASSUME Base, NEW o \in Ops, Reading(o)
  PROVE  /\ UNCHANGED <<pallet, errors, changes, answer>>
         /\ \A p \in Ops \cup Reads : p # o => pc'[p] = pc[p]
         /\ \A p \in Ops : p # o => hint'[p] = hint[p]
         /\ pc[o] \in {"idle", "delegatorState", "candidateInfo", "autoCompounding"}
         /\ pc'[o] \in {"delegatorState", "candidateInfo", "autoCompounding", "sent", "threw"}
         /\ pc[o] = "idle" => \A d \in After[o] : pc[d] = "settled"
BY DEF Reading, Begin, ReadDelegator, ReadCandidate, ReadAutoLength, SetAutoReadsLength,
       SetAutoReadsDelegator, Goto, FirstAwait, SaysInsufficient, Base, TypeOK, Ops

LEMMA DispatchIs ==
  ASSUME Base, NEW o \in Ops, Dispatch(o)
  PROVE  /\ UNCHANGED <<hint, answer, candidates>>
         /\ \A p \in Ops \cup Reads : p # o => pc'[p] = pc[p]
         /\ pc[o] = "sent" /\ pc'[o] = "settled"
         /\ \A p \in Ops : p # o => errors'[p] = errors[p]
         /\ errors'[o] = ErrorsOf(o) /\ changes'[o] = changes[o]
         /\ ErrorsOf(o) = {} => Applied(o)
         /\ ErrorsOf(o) # {} => UNCHANGED <<pallet, changes>>
<1>1. ErrorsOf(o) = {} => Changed({o}) /\ Applied(o) /\ UNCHANGED candidates
  BY DEF Dispatch
<1>2. changes'[o] = changes[o]
  BY <1>1 DEF Dispatch, Changed
<1>. QED  BY <1>1, <1>2 DEF Dispatch, Goto, Base, TypeOK, pallet

\* What a change of the staking state does to the count of an operation.
LEMMA ChangedIs ==
  ASSUME Base, NEW except, Changed(except), NEW o \in Ops, o \notin except
  PROVE  /\ Running(o) => IF changes[o] < Many THEN changes'[o] = changes[o] + 1
                                               ELSE changes'[o] = changes[o]
         /\ ~Running(o) => changes'[o] = changes[o]
BY DEF Base, TypeOK, Changed
-----------------------------------------------------------------------------
(***************************************************************************)
(* The invariant of the counts: the awaits an operation of each kind can   *)
(* be at, no error before its dispatch, and what its hints are worth as    *)
(* long as nobody, or one other, has changed the staking state.            *)
(***************************************************************************)
PlaceIs(o) ==
  /\ pc[o] = "candidateInfo" => o \in Delegates
  /\ pc[o] = "autoCompounding" => o \in Delegates \cup SetAutos
  /\ pc[o] # "settled" => errors[o] = {}

DelegateReads(o) ==
  changes[o] = 0 =>
    /\ pc[o] \in {"candidateInfo", "autoCompounding", "sent"} =>
         ~RefusesDelegate(o) /\ hint[o].delegations = Cardinality(Delegated)
    /\ pc[o] \in {"autoCompounding", "sent"} =>
         Collator[o] \in candidates /\ hint[o].candidate = DelegationCount(Collator[o])
    /\ pc[o] = "sent" => hint[o].auto = AutoCompoundingLength(Collator[o])

SetAutoReads(o) ==
  /\ changes[o] < Many /\ pc[o] \in {"delegatorState", "sent"} =>
       hint[o].auto + changes[o] >= AutoCompoundingLength(Collator[o]) + 1
  /\ changes[o] < Many /\ pc[o] = "sent" =>
       hint[o].delegations + changes[o] >= Cardinality(Delegated) + 1
  /\ changes[o] = 0 /\ pc[o] = "sent" => Delegated # {}

Undisturbed(o) == pc[o] = "settled" /\ changes[o] = 0 =>
  /\ o \in Delegates => errors[o] \subseteq {"InsufficientBalance",
                                            "ExceedMaxDelegationsPerDelegator"}
  /\ o \in SetAutos => errors[o] \subseteq {"DelegationDNE"}
  /\ o \in BondMores => errors[o] \subseteq {"InsufficientBalance", "DelegatorDNE",
                                            "DelegationDNE"}

HasRoom(o) == changes[o] <= 1 => errors[o] \cap HintErrors = {}

OpCounts(o) ==
  /\ PlaceIs(o)
  /\ o \in Delegates => DelegateReads(o)
  /\ o \in SetAutos => SetAutoReads(o) /\ HasRoom(o)
  /\ Undisturbed(o)

Counts == Base /\ \A o \in Ops : OpCounts(o)

LEMMA CountsInit == Init => Counts
<1>. SUFFICES ASSUME Init PROVE Counts
  OBVIOUS
<1>1. \A o \in Ops : pc[o] = "idle" /\ errors[o] = {}
  BY DEF Init
<1>. QED  BY <1>1, BaseInit DEF Counts, OpCounts, PlaceIs, DelegateReads, SetAutoReads,
                              HasRoom, Undisturbed

\* An operation the step leaves alone, with the staking state.
LEMMA CountsFrame ==
  ASSUME UNCHANGED pallet, NEW o \in Ops, OpCounts(o),
         pc'[o] = pc[o], hint'[o] = hint[o], errors'[o] = errors[o], changes'[o] = changes[o]
  PROVE  OpCounts(o)'
<1>. Delegated' = Delegated /\ Cardinality(Delegated)' = Cardinality(Delegated)
     /\ candidates' = candidates /\ DelegationCount(Collator[o])' = DelegationCount(Collator[o])
     /\ AutoCompoundingLength(Collator[o])' = AutoCompoundingLength(Collator[o])
  BY SameCounts
<1>. QED  BY DEF OpCounts, PlaceIs, DelegateReads, SetAutoReads, HasRoom, Undisturbed,
                 RefusesDelegate

\* An operation that another's change of the staking state overtakes.
LEMMA CountsChange ==
  ASSUME Base, GrowsByOne, NEW o \in Ops, OpCounts(o), NEW except, Changed(except),
         o \notin except, pc'[o] = pc[o], hint'[o] = hint[o], errors'[o] = errors[o]
  PROVE  OpCounts(o)'
<1>. changes[o] \in 0 .. Many /\ hint[o] \in Hints /\ Collator[o] \in Collators
     /\ Cardinality(Delegated) \in Nat /\ AutoCompoundingLength(Collator[o]) \in Nat
  BY Constants, DelegatedFinite, CountsAreNat DEF Base, TypeOK
<1>. /\ Cardinality(Delegated)' \in Int
     /\ Cardinality(Delegated)' <= Cardinality(Delegated) + 1
     /\ AutoCompoundingLength(Collator[o])' \in Int
     /\ AutoCompoundingLength(Collator[o])' <= AutoCompoundingLength(Collator[o]) + 1
  BY DEF GrowsByOne
<1>1. CASE ~Running(o)
  <2>. changes'[o] = changes[o]
    BY <1>1, ChangedIs
  <2>. pc[o] \in {"idle", "threw", "settled"}
    BY <1>1 DEF Running
  <2>. QED  BY DEF OpCounts, PlaceIs, DelegateReads, SetAutoReads, HasRoom, Undisturbed
<1>2. CASE Running(o)
  <2>1. IF changes[o] < Many THEN changes'[o] = changes[o] + 1 ELSE changes'[o] = changes[o]
    BY <1>2, ChangedIs
  <2>2. pc[o] # "settled"
    BY <1>2 DEF Running
  <2>3. changes'[o] # 0 /\ (changes'[o] < Many => changes'[o] = changes[o] + 1)
    BY <2>1 DEF Many
  <2>4. PlaceIs(o)'
    BY <2>2 DEF OpCounts, PlaceIs
  <2>5. o \in SetAutos => SetAutoReads(o)'
    <3>. SUFFICES ASSUME o \in SetAutos PROVE SetAutoReads(o)'
      OBVIOUS
    <3>. SetAutoReads(o)
      BY DEF OpCounts
    <3>. hint[o].auto \in Nat /\ hint[o].delegations \in Nat
      BY DEF Hints
    <3>1. ASSUME changes'[o] < Many, pc[o] \in {"delegatorState", "sent"}
          PROVE  hint[o].auto + changes'[o] >= AutoCompoundingLength(Collator[o])' + 1
      <4>. changes'[o] = changes[o] + 1 /\ changes[o] < Many
        BY <3>1, <2>3, <2>1
      <4>. hint[o].auto + changes[o] >= AutoCompoundingLength(Collator[o]) + 1
        BY <3>1 DEF SetAutoReads
      <4>. QED  OBVIOUS
    <3>2. ASSUME changes'[o] < Many, pc[o] = "sent"
          PROVE  hint[o].delegations + changes'[o] >= Cardinality(Delegated)' + 1
      <4>. changes'[o] = changes[o] + 1 /\ changes[o] < Many
        BY <3>2, <2>3, <2>1
      <4>. hint[o].delegations + changes[o] >= Cardinality(Delegated) + 1
        BY <3>2 DEF SetAutoReads
      <4>. QED  OBVIOUS
    <3>. QED  BY <3>1, <3>2, <2>3 DEF SetAutoReads
  <2>. QED  BY <2>2, <2>3, <2>4, <2>5 DEF OpCounts, PlaceIs, DelegateReads, HasRoom, Undisturbed
<1>. QED  BY <1>1, <1>2

\* An operation that reads, and the hints it takes from what it reads.
LEMMA CountsRead ==
  ASSUME Base, NEW o \in Ops, OpCounts(o), Reading(o)
  PROVE  OpCounts(o)'
<1>0. UNCHANGED <<pallet, errors, changes>> /\ pc[o] # "settled" /\ pc'[o] # "settled"
  BY ReadingIs
<1>. Delegated' = Delegated /\ Cardinality(Delegated)' = Cardinality(Delegated)
     /\ candidates' = candidates /\ DelegationCount(Collator[o])' = DelegationCount(Collator[o])
     /\ AutoCompoundingLength(Collator[o])' = AutoCompoundingLength(Collator[o])
  BY <1>0, SameCounts
<1>. /\ Cardinality(Delegated) \in Nat /\ AutoCompoundingLength(Collator[o]) \in Nat
     /\ DelegationCount(Collator[o]) \in Nat
     /\ changes[o] \in 0 .. Many /\ hint \in [Ops -> Hints] /\ hint[o] \in Hints
  BY Constants, DelegatedFinite, CountsAreNat DEF Base, TypeOK
<1>. PICK P : pc \in [Ops \cup Reads -> P]
  BY DEF Base, TypeOK
<1>. Delegates \cap SetAutos = {} /\ Delegates \cap BondMores = {} /\ SetAutos \cap BondMores = {}
  BY Constants
<1>1. CASE Begin(o)
  <2>1. hint' = hint /\ pc'[o] = FirstAwait(o)
    BY <1>1 DEF Begin, Goto, SaysInsufficient
  <2>2. /\ o \in Delegates => pc'[o] = "delegatorState"
        /\ o \in SetAutos => pc'[o] = "autoCompounding"
        /\ o \in BondMores => pc'[o] = "sent"
    BY <2>1 DEF FirstAwait
  <2>. QED  BY <1>0, <2>2 DEF OpCounts, PlaceIs, DelegateReads, SetAutoReads, HasRoom,
                              Undisturbed, Ops
<1>2. CASE ReadDelegator(o)
  <2>1. o \in Delegates /\ pc[o] = "delegatorState"
    BY <1>2 DEF ReadDelegator, Goto
  <2>2. CASE RefusesDelegate(o)
    <3>. pc'[o] = "threw"
      BY <1>2, <2>2 DEF ReadDelegator, Goto
    <3>. QED  BY <1>0, <2>1 DEF OpCounts, PlaceIs, DelegateReads, HasRoom, Undisturbed
  <2>3. CASE ~RefusesDelegate(o)
    <3>. pc'[o] = "candidateInfo" /\ hint'[o].delegations = Cardinality(Delegated)
      BY <1>2, <2>3 DEF ReadDelegator, Goto, Hints
    <3>. ~RefusesDelegate(o)'
      BY <2>3 DEF RefusesDelegate
    <3>. QED  BY <1>0, <2>1 DEF OpCounts, PlaceIs, DelegateReads, HasRoom, Undisturbed
  <2>. QED  BY <2>2, <2>3
<1>3. CASE ReadCandidate(o)
  <2>1. o \in Delegates /\ pc[o] = "candidateInfo"
    BY <1>3 DEF ReadCandidate, Goto, OpCounts, PlaceIs
  <2>2. CASE Collator[o] \in candidates
    <3>. pc'[o] = "autoCompounding" /\ hint'[o].delegations = hint[o].delegations
         /\ hint'[o].candidate = DelegationCount(Collator[o])
      BY <1>3, <2>2 DEF ReadCandidate, Goto, Hints
    <3>. QED  BY <1>0, <2>1, <2>2 DEF OpCounts, PlaceIs, DelegateReads, HasRoom, Undisturbed,
                                     RefusesDelegate
  <2>3. CASE Collator[o] \notin candidates
    <3>. pc'[o] = "threw"
      BY <1>3, <2>3 DEF ReadCandidate, Goto
    <3>. QED  BY <1>0, <2>1 DEF OpCounts, PlaceIs, DelegateReads, HasRoom, Undisturbed
  <2>. QED  BY <2>2, <2>3
<1>4. CASE ReadAutoLength(o)
  <2>1. o \in Delegates /\ pc[o] = "autoCompounding" /\ pc'[o] = "sent"
    BY <1>4 DEF ReadAutoLength, Goto
  <2>2. /\ hint'[o].delegations = hint[o].delegations
        /\ hint'[o].candidate = hint[o].candidate
        /\ hint'[o].auto = AutoCompoundingLength(Collator[o])
    BY <1>4 DEF ReadAutoLength, Hints
  <2>. QED  BY <1>0, <2>1, <2>2 DEF OpCounts, PlaceIs, DelegateReads, HasRoom, Undisturbed,
                                   RefusesDelegate
<1>5. CASE SetAutoReadsLength(o)
  <2>1. o \in SetAutos /\ pc[o] = "autoCompounding" /\ pc'[o] = "delegatorState"
    BY <1>5 DEF SetAutoReadsLength, Goto
  <2>2. hint'[o].auto = AutoCompoundingLength(Collator[o]) + 1
    BY <1>5 DEF SetAutoReadsLength, Hints
  <2>. QED  BY <1>0, <2>1, <2>2 DEF OpCounts, PlaceIs, SetAutoReads, HasRoom, Undisturbed, Many
<1>6. CASE SetAutoReadsDelegator(o)
  <2>1. o \in SetAutos /\ pc[o] = "delegatorState"
    BY <1>6 DEF SetAutoReadsDelegator, Goto
  <2>2. CASE Delegated # {}
    <3>1. pc'[o] = "sent" /\ hint'[o].delegations = Cardinality(Delegated) + 1
          /\ hint'[o].auto = hint[o].auto
      BY <1>6, <2>2 DEF SetAutoReadsDelegator, Goto, Hints
    <3>. QED  BY <1>0, <2>1, <2>2, <3>1 DEF OpCounts, PlaceIs, SetAutoReads, HasRoom,
                                           Undisturbed, Many
  <2>3. CASE Delegated = {}
    <3>. pc'[o] = "threw"
      BY <1>6, <2>3 DEF SetAutoReadsDelegator, Goto
    <3>. QED  BY <1>0, <2>1 DEF OpCounts, PlaceIs, SetAutoReads, HasRoom, Undisturbed
  <2>. QED  BY <2>2, <2>3
<1>. QED  BY <1>1, <1>2, <1>3, <1>4, <1>5, <1>6 DEF Reading

\* The operation that is dispatched: which errors its hints exclude.
LEMMA CountsDispatch ==
  ASSUME Base, NEW o \in Ops, OpCounts(o), Dispatch(o)
  PROVE  OpCounts(o)'
<1>0. pc[o] = "sent" /\ pc'[o] = "settled" /\ errors'[o] = ErrorsOf(o)
      /\ changes'[o] = changes[o]
  BY DispatchIs
<1>. /\ Cardinality(Delegated) \in Nat /\ AutoCompoundingLength(Collator[o]) \in Nat
     /\ DelegationCount(Collator[o]) \in Nat
     /\ changes[o] \in 0 .. Many /\ hint[o] \in Hints
  BY Constants, DelegatedFinite, CountsAreNat DEF Base, TypeOK
<1>. hint[o].auto \in Nat /\ hint[o].delegations \in Nat
  BY DEF Hints
<1>. Delegates \cap SetAutos = {} /\ Delegates \cap BondMores = {} /\ SetAutos \cap BondMores = {}
  BY Constants
<1>1. CASE o \in Delegates
  <2>. SUFFICES ASSUME changes[o] = 0
                PROVE  ErrorsOf(o) \subseteq {"InsufficientBalance",
                                              "ExceedMaxDelegationsPerDelegator"}
    BY <1>0, <1>1 DEF OpCounts, PlaceIs, DelegateReads, Undisturbed
  <2>1. /\ ~(Amount[o] < MinDelegation) /\ Collator[o] \notin Delegated
        /\ Collator[o] \in candidates
        /\ hint[o].delegations = Cardinality(Delegated)
        /\ hint[o].candidate = DelegationCount(Collator[o])
        /\ hint[o].auto = AutoCompoundingLength(Collator[o])
    BY <1>0, <1>1 DEF OpCounts, DelegateReads, RefusesDelegate
  <2>2. ErrorsOf(o) = DelegateErrors(Collator[o], Amount[o], Percentage[o], hint[o])
    BY <1>1, ErrorsOfAre
  <2>. QED  BY <2>1, <2>2, DelegateErrorsAre
<1>2. CASE o \in SetAutos
  <2>1. ErrorsOf(o) = SetAutoErrors(Collator[o], hint[o])
    BY <1>2, ErrorsOfAre
  <2>2. SetAutoReads(o)
    BY <1>2 DEF OpCounts
  <2>3. changes[o] <= 1 => ~(hint[o].auto < AutoCompoundingLength(Collator[o]))
                           /\ ~(hint[o].delegations < Cardinality(Delegated))
    BY <1>0, <2>2 DEF SetAutoReads, Many
  <2>4. changes[o] <= 1 => ErrorsOf(o) \subseteq {"DelegatorDNE", "DelegationDNE"}
    BY <2>1, <2>3, SetAutoErrorsAre
  <2>5. changes[o] = 0 => ErrorsOf(o) \subseteq {"DelegationDNE"}
    BY <1>0, <2>1, <2>2, <2>4, SetAutoErrorsAre DEF SetAutoReads
  <2>. QED  BY <1>0, <1>2, <2>4, <2>5 DEF OpCounts, PlaceIs, SetAutoReads, HasRoom, Undisturbed,
                                         HintErrors
<1>3. CASE o \in BondMores
  <2>1. ErrorsOf(o) \subseteq {"InsufficientBalance", "DelegatorDNE", "DelegationDNE"}
    BY <1>3, ErrorsOfAre, BondMoreErrorsAre
  <2>. QED  BY <1>0, <1>3, <2>1 DEF OpCounts, PlaceIs, Undisturbed
<1>. QED  BY <1>1, <1>2, <1>3 DEF Ops

LEMMA CountsStep == Counts /\ [Next]_vars => Counts'
<1>. SUFFICES ASSUME Counts, [Next]_vars PROVE Counts'
  OBVIOUS
<1>. Base /\ Base'
  BY BaseStep DEF Counts
<1>. SUFFICES ASSUME NEW p \in Ops PROVE OpCounts(p)'
  BY DEF Counts
<1>. OpCounts(p)
  BY DEF Counts
<1>1. CASE Others
  <2>. Changed({}) /\ UNCHANGED <<pc, hint, errors>>
    BY <1>1 DEF Others
  <2>. QED  BY <1>1, OthersGrow, CountsChange
<1>2. ASSUME NEW o \in Ops, Reading(o) PROVE OpCounts(p)'
  BY <1>2, ReadingIs, CountsRead, CountsFrame
<1>3. ASSUME NEW o \in Ops, Dispatch(o) PROVE OpCounts(p)'
  <2>1. CASE p = o
    BY <1>3, <2>1, CountsDispatch
  <2>2. CASE p # o /\ ErrorsOf(o) = {}
    <3>. Changed({o}) /\ GrowsByOne
      BY <1>3, <2>2, DispatchGrows DEF Dispatch
    <3>. QED  BY <1>3, <2>2, DispatchIs, CountsChange
  <2>3. CASE p # o /\ ErrorsOf(o) # {}
    BY <1>3, <2>3, DispatchIs, CountsFrame
  <2>. QED  BY <2>1, <2>2, <2>3
<1>4. ASSUME NEW r \in Reads, Read(r) PROVE OpCounts(p)'
  <2>. p # r
    BY Constants
  <2>. PICK P : pc \in [Ops \cup Reads -> P]
    BY DEF Base, TypeOK
  <2>. UNCHANGED <<pallet, hint, errors, changes>> /\ pc'[p] = pc[p]
    BY <1>4 DEF Read, Goto
  <2>. QED  BY CountsFrame
<1>5. CASE UNCHANGED vars
  BY <1>5, CountsFrame DEF vars
<1>. QED  BY <1>1, <1>2, <1>3, <1>4, <1>5 DEF Next, OpStep, Reading

(***************************************************************************)
(* What an operation of OakAdapter has read differs from the staking state *)
(* by no more than the changes since, at every place where it awaits.      *)
(***************************************************************************)
THEOREM CountsInvariant == Spec => []Counts
BY CountsInit, CountsStep, PTL DEF Spec

(***************************************************************************)
(* UndisturbedOutcome: while nobody else changes the staking state, an     *)
(* operation of OakAdapter is dispatched with the counts of that state     *)
(* (oak.ts lines 384 to 408 and 459 to 469), so that the pallet refuses it *)
(* only for what the operation does not look at.                           *)
(***************************************************************************)
THEOREM Undisturbing == Spec => []UndisturbedOutcome
<1>. Delegates \cap SetAutos = {} /\ Delegates \cap BondMores = {} /\ SetAutos \cap BondMores = {}
  BY Constants
<1>1. ASSUME Counts PROVE UndisturbedOutcome
  <2>. SUFFICES ASSUME NEW o \in Ops, pc[o] = "settled", changes[o] = 0
                PROVE  errors[o] \subseteq
                   (CASE o \in Delegates -> {"InsufficientBalance",
                                             "ExceedMaxDelegationsPerDelegator"}
                      [] o \in SetAutos  -> {"DelegationDNE"}
                      [] o \in BondMores -> {"InsufficientBalance", "DelegatorDNE",
                                             "DelegationDNE"})
    BY DEF UndisturbedOutcome
  <2>. Undisturbed(o)
    BY <1>1 DEF Counts, OpCounts
  <2>1. CASE o \in Delegates
    BY <2>1 DEF Undisturbed
  <2>2. CASE o \in SetAutos
    BY <2>2 DEF Undisturbed
  <2>3. CASE o \in BondMores
    BY <2>3 DEF Undisturbed
  <2>. QED  BY <2>1, <2>2, <2>3 DEF Ops
<1>. QED  BY <1>1, CountsInvariant, PTL

(***************************************************************************)
(* RoomForOneChange: one change of the staking state by anyone, anywhere   *)
(* between the reads of setAutoCompound and its dispatch, leaves both of   *)
(* its hints (oak.ts lines 468 and 469) large enough.                      *)
(***************************************************************************)
THEOREM RoomForOne == Spec => []RoomForOneChange
<1>1. Counts => RoomForOneChange
  BY DEF Counts, OpCounts, HasRoom, RoomForOneChange, Ops
<1>. QED  BY <1>1, CountsInvariant, PTL

(***************************************************************************)
(* ThrowsWhatChainRefuses: what delegateWithAutoCompound and               *)
(* setAutoCompound throw for is an error the pallet would have answered.   *)
(***************************************************************************)
THEOREM ThrowsAreRefusals == Spec => ThrowsWhatChainRefuses
<1>1. ASSUME Counts, [Next]_vars, NEW p \in Ops,
             pc[p] # "threw", pc'[p] = "threw", changes[p] = 0
      PROVE  ErrorsOf(p) \ HintErrors # {}
  <2>. Base /\ OpCounts(p)
    BY <1>1 DEF Counts
  <2>1. Reading(p)
    <3>1. ~Others /\ ~UNCHANGED vars
      BY <1>1 DEF Others, vars
    <3>2. ASSUME NEW r \in Reads, Read(r) PROVE FALSE
      <4>. p # r
        BY Constants
      <4>. QED  BY <1>1, <3>2 DEF Read, Goto
    <3>3. ASSUME NEW o \in Ops, Dispatch(o) PROVE FALSE
      BY <1>1, <3>3, DispatchIs DEF Ops
    <3>4. ASSUME NEW o \in Ops, Reading(o) PROVE o = p
      BY <1>1, <3>4, ReadingIs DEF Ops
    <3>. QED  BY <1>1, <3>1, <3>2, <3>3, <3>4 DEF Next, OpStep, Reading
  <2>2. ~Begin(p) /\ ~ReadAutoLength(p) /\ ~SetAutoReadsLength(p)
    BY <1>1 DEF Begin, ReadAutoLength, SetAutoReadsLength, Goto, FirstAwait, SaysInsufficient,
                Base, TypeOK, Ops
  <2>3. CASE ReadDelegator(p)
    <3>. p \in Delegates /\ RefusesDelegate(p)
      BY <1>1, <2>3 DEF ReadDelegator, Goto, Base, TypeOK
    <3>. QED  BY ErrorsOfAre, ErrorsApply DEF RefusesDelegate, HintErrors
  <2>4. CASE ReadCandidate(p)
    <3>. p \in Delegates /\ Collator[p] \notin candidates
      BY <1>1, <2>4 DEF ReadCandidate, Goto, Base, TypeOK, OpCounts, PlaceIs
    <3>. QED  BY ErrorsOfAre, ErrorsApply DEF HintErrors
  <2>5. CASE SetAutoReadsDelegator(p)
    <3>. p \in SetAutos /\ Delegated = {}
      BY <1>1, <2>5 DEF SetAutoReadsDelegator, Goto, Base, TypeOK
    <3>. QED  BY ErrorsOfAre, ErrorsApply DEF HintErrors
  <2>. QED  BY <2>1, <2>2, <2>3, <2>4, <2>5 DEF Reading
<1>2. Counts /\ [Next]_vars =>
        [\A o \in Ops : pc[o] # "threw" /\ pc'[o] = "threw" /\ changes[o] = 0
           => ErrorsOf(o) \ HintErrors # {}]_vars
  BY <1>1
<1>. QED  BY <1>2, CountsInvariant, PTL DEF Spec, ThrowsWhatChainRefuses
-----------------------------------------------------------------------------
(***************************************************************************)
(* The invariant of what a caller awaits: what an operation awaits is over *)
(* before it begins, and stays what it was; a good delegation stays as     *)
(* long as its collator is a candidate; the percentage of a collator is    *)
(* that of a good operation, and of none that came before another.         *)
(***************************************************************************)
AwaitsSettled == \A o \in Ops \cup Reads : pc[o] # "idle" => \A d \in After[o] : pc[d] = "settled"

IsGood(o) == pc[o] = "settled" /\ errors[o] = {}

DelegationLasts ==
  \A d \in Delegates : IsGood(d) /\ Collator[d] \in candidates => bond[Collator[d]] > 0

Sets(o, s) == /\ IsGood(o) /\ Collator[o] = Collator[s] /\ o \notin After[s]
              /\ compounding[Collator[s]] = Percentage[o]

LastSets ==
  \A s \in Delegates \cup SetAutos : IsGood(s) /\ Collator[s] \in candidates =>
    \E o \in Delegates \cup SetAutos : Sets(o, s)

Awaited ==
  /\ Counts /\ AwaitsSettled /\ DelegationLasts /\ AwaitedDelegationIsUsable
  /\ LastSets /\ PercentageIsReadBack

LEMMA AwaitedInit == Init => Awaited
<1>. SUFFICES ASSUME Init PROVE Awaited
  OBVIOUS
<1>1. \A o \in Ops \cup Reads : pc[o] = "idle"
  BY DEF Init
<1>2. Ops \subseteq Ops \cup Reads /\ Delegates \subseteq Ops /\ SetAutos \subseteq Ops
      /\ BondMores \subseteq Ops /\ PercentageReads \subseteq Ops \cup Reads
  BY DEF Ops, Reads
<1>. QED  BY <1>1, <1>2, CountsInit DEF Awaited, AwaitsSettled, DelegationLasts, IsGood,
            AwaitedDelegationIsUsable, LastSets, PercentageIsReadBack

\* What a step makes of the place of an operation.
LEMMA PlaceStep ==
  ASSUME Base, [Next]_vars, NEW p \in Ops
  PROVE  /\ pc[p] = "settled" => pc'[p] = "settled" /\ errors'[p] = errors[p]
         /\ pc[p] # "settled" /\ pc'[p] = "settled" => Dispatch(p)
         /\ pc[p] # "threw" /\ pc'[p] = "threw" => Reading(p)
         /\ pc[p] = "threw" => pc'[p] = "threw"
         /\ pc[p] = "idle" /\ pc'[p] # "idle" => \A d \in After[p] : pc[d] = "settled"
<1>1. CASE Others \/ UNCHANGED vars
  BY <1>1 DEF Others, vars
<1>2. ASSUME NEW o \in Ops, Reading(o)
      PROVE  /\ UNCHANGED errors
             /\ p # o => pc'[p] = pc[p]
             /\ p = o => pc[p] \notin {"settled", "threw"} /\ pc'[p] # "settled"
                         /\ (pc[p] = "idle" => \A d \in After[p] : pc[d] = "settled")
  BY <1>2, ReadingIs
<1>3. ASSUME NEW o \in Ops, Dispatch(o)
      PROVE  /\ p # o => pc'[p] = pc[p] /\ errors'[p] = errors[p]
             /\ p = o => pc[p] = "sent" /\ pc'[p] = "settled"
  BY <1>3, DispatchIs
<1>4. ASSUME NEW r \in Reads, Read(r)
      PROVE  UNCHANGED errors /\ pc'[p] = pc[p]
  <2>. p # r
    BY Constants
  <2>. QED  BY <1>4 DEF Read, Goto, Base, TypeOK
<1>. QED  BY <1>1, <1>2, <1>3, <1>4 DEF Next, OpStep, Reading

\* What a step makes of the place and the answer of a read.
LEMMA ReadStep ==
  ASSUME Base, [Next]_vars, NEW q \in Reads
  PROVE  \/ pc'[q] = pc[q] /\ answer'[q] = answer[q]
         \/ pc[q] = "idle" /\ Read(q)
<1>1. CASE Others \/ UNCHANGED vars
  BY <1>1 DEF Others, vars
<1>2. ASSUME NEW o \in Ops, Reading(o) \/ Dispatch(o)
      PROVE  pc'[q] = pc[q] /\ answer'[q] = answer[q]
  <2>. q # o
    BY Constants
  <2>. QED  BY <1>2, ReadingIs, DispatchIs
<1>3. ASSUME NEW r \in Reads, Read(r), r # q
      PROVE  pc'[q] = pc[q] /\ answer'[q] = answer[q]
  BY <1>3 DEF Read, Goto, Base, TypeOK
<1>4. Read(q) => pc[q] = "idle"
  BY DEF Read, Goto
<1>. QED  BY <1>1, <1>2, <1>3, <1>4 DEF Next, OpStep, Reading

LEMMA AwaitsStep ==
  ASSUME Base, [Next]_vars, AwaitsSettled
  PROVE  AwaitsSettled'
<1>. SUFFICES ASSUME NEW o \in Ops \cup Reads, pc'[o] # "idle", NEW d \in After[o]
              PROVE  pc'[d] = "settled"
  BY DEF AwaitsSettled
<1>. d \in Ops
  BY Constants
<1>1. CASE pc[o] # "idle"
  BY <1>1, PlaceStep DEF AwaitsSettled
<1>2. CASE pc[o] = "idle" /\ o \in Ops
  BY <1>2, PlaceStep
<1>3. CASE pc[o] = "idle" /\ o \in Reads
  <2>. Read(o)
    BY <1>3, ReadStep
  <2>. QED  BY PlaceStep DEF Read
<1>. QED  BY <1>1, <1>2, <1>3

\* What a step makes of the account's stake at a collator that stays one.
LEMMA StakeStep ==
  ASSUME Base, [Next]_vars, NEW k \in Collators, k \in candidates'
  PROVE  /\ k \in candidates
         /\ bond'[k] >= bond[k]
         /\ \/ compounding'[k] = compounding[k]
            \/ \E o \in Delegates \cup SetAutos : /\ Dispatch(o) /\ ErrorsOf(o) = {}
                                                  /\ Collator[o] = k
                                                  /\ compounding'[k] = Percentage[o]
<1>. bond \in [Collators -> Nat] /\ compounding \in [Collators -> 0 .. 100]
  BY DEF Base, TypeOK, PalletTypeOK
<1>1. CASE UNCHANGED pallet
  BY <1>1 DEF pallet
<1>2. CASE Others
  <2>1. PICK j \in Collators : \/ \E auto \in BOOLEAN : Join(j, auto) \/ Leave(j, auto)
                               \/ TurnAuto(j) \/ CandidateLeaves(j)
    BY <1>2 DEF Others, OtherMove
  <2>2. CASE CandidateLeaves(j)
    BY <2>2 DEF CandidateLeaves
  <2>3. CASE ~CandidateLeaves(j)
    <3>. UNCHANGED <<candidates, bond, compounding>>
      BY <2>1, <2>3 DEF Join, Leave, TurnAuto
    <3>. QED  OBVIOUS
  <2>. QED  BY <2>2, <2>3
<1>3. ASSUME NEW o \in Ops, Dispatch(o), ErrorsOf(o) = {}
      PROVE  /\ k \in candidates
             /\ bond'[k] >= bond[k]
             /\ \/ compounding'[k] = compounding[k]
                \/ o \in Delegates \cup SetAutos /\ Collator[o] = k
                   /\ compounding'[k] = Percentage[o]
  <2>. UNCHANGED candidates /\ Applied(o)
    BY <1>3 DEF Dispatch
  <2>1. CASE o \in Delegates
    <3>. Amount[o] \in Nat
      BY <2>1, Constants
    <3>. QED  BY <2>1, AppliedIs DEF Bond, SetCompounding
  <2>2. CASE o \in SetAutos
    BY <2>2, AppliedIs DEF SetCompounding
  <2>3. CASE o \in BondMores
    <3>. Amount[o] \in Nat
      BY <2>3, Constants
    <3>. QED  BY <2>3, AppliedIs DEF Bond
  <2>. QED  BY <2>1, <2>2, <2>3 DEF Ops
<1>4. ASSUME NEW o \in Ops, Dispatch(o), ErrorsOf(o) # {} PROVE UNCHANGED pallet
  BY <1>4 DEF Dispatch
<1>5. ASSUME NEW o \in Ops, Reading(o) PROVE UNCHANGED pallet
  BY <1>5, ReadingIs
<1>6. ASSUME NEW r \in Reads, Read(r) PROVE UNCHANGED pallet
  BY <1>6 DEF Read
<1>7. CASE UNCHANGED vars
  BY <1>7, <1>1 DEF vars
<1>. QED  BY <1>1, <1>2, <1>3, <1>4, <1>5, <1>6, <1>7 DEF Next, OpStep, Reading

\* What becomes good stays good, and was dispatched without an error.
LEMMA GoodStep ==
  ASSUME Base, [Next]_vars, NEW o \in Ops
  PROVE  /\ IsGood(o) => IsGood(o)'
         /\ IsGood(o)' /\ ~IsGood(o) => Dispatch(o) /\ ErrorsOf(o) = {}
         /\ Dispatch(o) /\ ErrorsOf(o) = {} => IsGood(o)'
<1>1. pc[o] = "settled" => pc'[o] = "settled" /\ errors'[o] = errors[o]
  BY PlaceStep
<1>2. pc[o] # "settled" /\ pc'[o] = "settled" => Dispatch(o)
  BY PlaceStep
<1>3. Dispatch(o) => pc'[o] = "settled" /\ errors'[o] = ErrorsOf(o)
  BY DispatchIs
<1>. QED  BY <1>1, <1>2, <1>3 DEF IsGood

LEMMA LastsStep ==
  ASSUME Base, [Next]_vars, DelegationLasts
  PROVE  DelegationLasts'
<1>. SUFFICES ASSUME NEW d \in Delegates, IsGood(d)', Collator[d] \in candidates'
              PROVE  bond'[Collator[d]] > 0
  BY DEF DelegationLasts
<1>. d \in Ops /\ Collator[d] \in Collators /\ Amount[d] \in Nat /\ MinDelegation \in Nat \ {0}
  BY Constants DEF Ops
<1>. bond \in [Collators -> Nat] /\ bond' \in [Collators -> Nat]
  BY BaseStep DEF Base, TypeOK, PalletTypeOK
<1>1. CASE IsGood(d)
  BY <1>1, StakeStep DEF DelegationLasts
<1>2. CASE ~IsGood(d)
  <2>1. Dispatch(d) /\ ErrorsOf(d) = {}
    BY <1>2, GoodStep
  <2>2. ~(Amount[d] < MinDelegation)
    BY <2>1, ErrorsOfAre, ErrorsApply
  <2>3. Bond(Collator[d], Amount[d])
    BY <2>1, AppliedIs, DispatchIs
  <2>. QED  BY <2>2, <2>3 DEF Bond
<1>. QED  BY <1>1, <1>2

\* Whom an operation follows is settled before it begins.
LEMMA FollowsStep ==
  ASSUME Base, [Next]_vars, AwaitsSettled, NEW o \in Ops, pc[o] # "idle"
  PROVE  Follows(o)' => Follows(o)
<1>. ASSUME NEW d \in After[o]
     PROVE  d \in Ops /\ pc[d] = "settled" /\ errors'[d] = errors[d]
  BY Constants, PlaceStep DEF AwaitsSettled
<1>. QED  BY DEF Follows

\* A good delegation the caller awaited is there.
LEMMA FollowsDelegated ==
  ASSUME Base, DelegationLasts, NEW o, Follows(o), Collator[o] \in candidates
  PROVE  Collator[o] \in Delegated
<1>. PICK d \in Delegates : Collator[d] = Collator[o] /\ IsGood(d)
  BY DEF Follows, IsGood
<1>. d \in Ops /\ Collator[o] \in Collators
  BY Constants DEF Ops
<1>. QED  BY DEF DelegationLasts, Delegated

LEMMA UsableStep ==
  ASSUME Awaited, [Next]_vars
  PROVE  AwaitedDelegationIsUsable'
<1>. Base /\ AwaitsSettled /\ DelegationLasts /\ AwaitedDelegationIsUsable
  BY DEF Awaited, Counts
<1>. SUFFICES ASSUME NEW o \in SetAutos \cup BondMores, Follows(o)',
                     Collator[o] \in candidates', pc'[o] \in {"threw", "settled"}
              PROVE  pc'[o] = "settled"
                     /\ errors'[o] \subseteq HintErrors \cup {"InsufficientBalance"}
  BY DEF AwaitedDelegationIsUsable
<1>. o \in Ops /\ o \notin Delegates /\ Collator[o] \in Collators
  BY Constants DEF Ops
<1>. Collator[o] \in candidates
  BY StakeStep
<1>1. CASE pc[o] \in {"threw", "settled"}
  <2>. Follows(o)
    BY <1>1, FollowsStep
  <2>. QED  BY <1>1, PlaceStep DEF AwaitedDelegationIsUsable
<1>2. CASE pc[o] \notin {"threw", "settled"} /\ pc'[o] = "threw"
  <2>1. Reading(o)
    BY <1>2, PlaceStep
  <2>2. OpCounts(o)
    BY DEF Awaited, Counts
  <2>3. SetAutoReadsDelegator(o) /\ Delegated = {} /\ pc[o] = "delegatorState"
    BY <1>2, <2>1, <2>2 DEF Reading, Begin, ReadDelegator, ReadCandidate, ReadAutoLength,
      SetAutoReadsLength, SetAutoReadsDelegator, Goto, FirstAwait, SaysInsufficient, Base,
      TypeOK, Ops, OpCounts, PlaceIs
  <2>4. Follows(o)
    BY <2>3, FollowsStep
  <2>. QED  BY <2>3, <2>4, FollowsDelegated
<1>3. CASE pc[o] \notin {"threw", "settled"} /\ pc'[o] = "settled"
  <2>1. Dispatch(o)
    BY <1>3, PlaceStep
  <2>2. pc[o] = "sent" /\ errors'[o] = ErrorsOf(o)
    BY <2>1, DispatchIs
  <2>3. Follows(o)
    BY <2>2, FollowsStep
  <2>4. Collator[o] \in Delegated
    BY <2>3, FollowsDelegated
  <2>5. CASE o \in SetAutos
    BY <1>3, <2>2, <2>4, <2>5, ErrorsOfAre, SetAutoErrorsAre DEF HintErrors
  <2>6. CASE o \in BondMores
    BY <1>3, <2>2, <2>4, <2>6, ErrorsOfAre, BondMoreErrorsAre
  <2>. QED  BY <2>5, <2>6
<1>. QED  BY <1>1, <1>2, <1>3

LEMMA LastSetsStep ==
  ASSUME Base, [Next]_vars, AwaitsSettled, LastSets
  PROVE  LastSets'
<1>. SUFFICES ASSUME NEW s \in Delegates \cup SetAutos, IsGood(s)', Collator[s] \in candidates'
              PROVE  \E o \in Delegates \cup SetAutos : Sets(o, s)'
  BY DEF LastSets
<1>. s \in Ops /\ Collator[s] \in Collators
  BY Constants DEF Ops
<1>. compounding \in [Collators -> 0 .. 100]
  BY DEF Base, TypeOK, PalletTypeOK
\* an operation that is dispatched comes before none that is over
<1>1. ASSUME NEW o \in Ops, Dispatch(o) PROVE o \notin After[s] \/ pc[s] = "idle"
  BY <1>1, DispatchIs DEF AwaitsSettled
<1>2. CASE ~IsGood(s)
  <2>1. Dispatch(s) /\ ErrorsOf(s) = {}
    BY <1>2, GoodStep
  <2>2. SetCompounding(Collator[s], Percentage[s]) /\ pc[s] = "sent"
    BY <2>1, AppliedIs, DispatchIs
  <2>. QED  BY <1>1, <2>1, <2>2 DEF Sets, SetCompounding
<1>3. CASE IsGood(s)
  <2>1. PICK o \in Delegates \cup SetAutos : Sets(o, s)
    BY <1>3, StakeStep DEF LastSets
  <2>2. IsGood(o)'
    BY <2>1, GoodStep DEF Sets, Ops
  <2>3. CASE compounding'[Collator[s]] = compounding[Collator[s]]
    BY <2>1, <2>2, <2>3 DEF Sets
  <2>4. CASE compounding'[Collator[s]] # compounding[Collator[s]]
    <3>1. PICK p \in Delegates \cup SetAutos :
            /\ Dispatch(p) /\ ErrorsOf(p) = {} /\ Collator[p] = Collator[s]
            /\ compounding'[Collator[s]] = Percentage[p]
      BY <2>4, StakeStep
    <3>. p \in Ops
      BY DEF Ops
    <3>2. IsGood(p)' /\ p \notin After[s]
      BY <1>1, <1>3, <3>1, GoodStep DEF IsGood
    <3>. QED  BY <3>1, <3>2 DEF Sets
  <2>. QED  BY <2>3, <2>4
<1>. QED  BY <1>2, <1>3

LEMMA PercentageStep ==
  ASSUME Base, [Next]_vars, AwaitsSettled, LastSets, PercentageIsReadBack
  PROVE  PercentageIsReadBack'
<1>. SUFFICES ASSUME NEW r \in PercentageReads, pc'[r] = "settled", Collator[r] \in candidates',
                     NEW s \in After[r] \cap (Delegates \cup SetAutos),
                     Collator[s] = Collator[r], IsGood(s)'
              PROVE  \E o \in Delegates \cup SetAutos :
                       /\ Collator[o] = Collator[r] /\ IsGood(o)' /\ o \notin After[s]
                       /\ answer'[r] = Found(Percentage[o])
  BY DEF PercentageIsReadBack, Good, IsGood
<1>. r \in Reads /\ r \notin AmountReads /\ s \in Ops /\ Collator[r] \in Collators
  BY Constants, DelegationAssumption DEF Ops, Reads
<1>. Collator[r] \in candidates
  BY StakeStep
<1>1. CASE pc'[r] = pc[r] /\ answer'[r] = answer[r]
  <2>. pc[s] = "settled"
    BY <1>1 DEF AwaitsSettled
  <2>. IsGood(s)
    BY PlaceStep DEF IsGood
  <2>. PICK o \in Good(r, Delegates \cup SetAutos) \ After[s] : answer[r] = Found(Percentage[o])
    BY <1>1 DEF PercentageIsReadBack, Good, IsGood
  <2>. o \in Delegates \cup SetAutos /\ o \in Ops /\ IsGood(o)
    BY DEF Good, IsGood, Ops
  <2>. QED  BY <1>1, GoodStep DEF Good
<1>2. CASE Read(r)
  <2>. UNCHANGED <<pallet, errors>> /\ \A o \in Ops : pc'[o] = pc[o]
    BY <1>2, Constants DEF Read, Goto, Base, TypeOK
  <2>. answer'[r] = Found(compounding[Collator[r]])
    BY <1>2 DEF Read, Base, TypeOK
  <2>. IsGood(s)
    BY DEF IsGood
  <2>. PICK o \in Delegates \cup SetAutos : Sets(o, s)
    BY DEF LastSets
  <2>. o \in Ops /\ IsGood(o)'
    BY DEF Sets, IsGood, Ops
  <2>. QED  BY DEF Sets
<1>. QED  BY <1>1, <1>2, ReadStep

LEMMA AwaitedStep == Awaited /\ [Next]_vars => Awaited'
<1>. SUFFICES ASSUME Awaited, [Next]_vars PROVE Awaited'
  OBVIOUS
<1>. Base /\ Counts
  BY DEF Awaited, Counts
<1>. QED  BY CountsStep, AwaitsStep, LastsStep, UsableStep, LastSetsStep, PercentageStep
          DEF Awaited

(***************************************************************************)
(* A good delegation stays as long as its collator is a candidate; the     *)
(* percentage the chain keeps for it is, for every good operation of       *)
(* OakAdapter, that of a good one that it did not await.                   *)
(***************************************************************************)
THEOREM AwaitedInvariant == Spec => []Awaited
BY AwaitedInit, AwaitedStep, PTL DEF Spec

(***************************************************************************)
(* AwaitedDelegationIsUsable: after an awaited good delegation, and in any *)
(* overlap with other operations, setAutoCompound does not throw, and it   *)
(* and bondMore do not fail for want of the delegation, while the collator *)
(* is a candidate.                                                         *)
(***************************************************************************)
THEOREM Usable == Spec => []AwaitedDelegationIsUsable
<1>1. Awaited => AwaitedDelegationIsUsable
  BY DEF Awaited
<1>. QED  BY <1>1, AwaitedInvariant, PTL

(***************************************************************************)
(* PercentageIsReadBack, a part of ReadsBackWhatWasSet: a caller of        *)
(* getAutoCompoundingDelegationPercentage never reads a percentage that an *)
(* operation it awaited has replaced.                                      *)
(***************************************************************************)
THEOREM PercentageReadBack == Spec => []PercentageIsReadBack
<1>1. Awaited => PercentageIsReadBack
  BY DEF Awaited
<1>. QED  BY <1>1, AwaitedInvariant, PTL
-----------------------------------------------------------------------------
(***************************************************************************)
(* Sums over finite sets.  A sum is the value of a recursive function on   *)
(* the subsets of the set; that it has a value, which one, and that the    *)
(* order does not matter, are shown by induction: where one of these fails *)
(* for a subset of a finite set, it fails for a minimal one.               *)
(***************************************************************************)
\* Of the subsets of a finite set that have a property one is minimal.
LEMMA MinimalSubset ==
  ASSUME NEW S, IsFiniteSet(S), NEW T, T \subseteq SUBSET S, T # {}
  PROVE  \E m \in T : \A t \in T : t \subseteq m => t = m
<1>1. IsWellFoundedOn(StrictSubsetOrdering(S), SUBSET S)
  BY FS_StrictSubsetOrderingWellFounded, FS_FiniteSubsetsOfFinite
<1>2. PICK m \in T : \A t \in T : <<t, m>> \notin StrictSubsetOrdering(S)
  BY <1>1, WFMin
<1>3. ASSUME NEW t \in T, t \subseteq m PROVE t = m
  BY <1>2, <1>3 DEF StrictSubsetOrdering
<1>. QED  BY <1>3

One(s) == CHOOSE x \in s : TRUE

\* The equation of a sum, of which g is the solution on the subsets of S.
Step(f, g, s) == IF s = {} THEN 0 ELSE f[One(s)] + g[s \ {One(s)}]
Solves(f, g, S) == g = [s \in SUBSET S |-> Step(f, g, s)]

LEMMA OneIs == ASSUME NEW s, s # {} PROVE One(s) \in s
BY DEF One

LEMMA SumIs == ASSUME NEW f, NEW S
  PROVE SumFunctionOnSet(f, S) = (CHOOSE g : Solves(f, g, S))[S]
BY DEF SumFunctionOnSet, FoldFunctionOnSet, MapThenFoldSet, Solves, Step, One

\* Solutions agree where both are defined.
LEMMA SolutionsAgree ==
  ASSUME NEW f, NEW S, IsFiniteSet(S), NEW U \in SUBSET S,
         NEW g, Solves(f, g, S), NEW h, Solves(f, h, U)
  PROVE  g[U] = h[U]
<1>. DEFINE T == {s \in SUBSET U : g[s] # h[s]}
<1>1. SUFFICES ASSUME T # {} PROVE FALSE
  OBVIOUS
<1>2. IsFiniteSet(U)
  BY FS_Subset
<1>3. PICK m \in T : \A t \in T : t \subseteq m => t = m
  <2>. T \subseteq SUBSET U
    OBVIOUS
  <2>. HIDE DEF T
  <2>. QED  BY <1>1, <1>2, MinimalSubset
<1>4. m \in SUBSET U /\ m \in SUBSET S
  OBVIOUS
<1>5. g[m] = Step(f, g, m) /\ h[m] = Step(f, h, m)
  BY <1>4 DEF Solves
<1>6. CASE m = {}
  BY <1>5, <1>6 DEF Step
<1>7. CASE m # {}
  <2>. DEFINE t == m \ {One(m)}
  <2>1. t \subseteq m /\ t # m /\ t \in SUBSET U
    BY <1>4, <1>7, OneIs
  <2>2. t \notin T
    BY <1>3, <2>1
  <2>3. g[t] = h[t]
    BY <2>1, <2>2
  <2>. QED  BY <1>5, <1>7, <2>3 DEF Step
<1>. QED  BY <1>6, <1>7

LEMMA SolutionExists ==
  ASSUME NEW f, NEW S, IsFiniteSet(S)
  PROVE  \E g : Solves(f, g, S)
<1>. DEFINE T == {s \in SUBSET S : ~ \E g : Solves(f, g, s)}
<1>1. SUFFICES ASSUME T # {} PROVE FALSE
  OBVIOUS
<1>2. PICK m \in T : \A t \in T : t \subseteq m => t = m
  <2>. T \subseteq SUBSET S
    OBVIOUS
  <2>. HIDE DEF T
  <2>. QED  BY <1>1, MinimalSubset
<1>3. m \in SUBSET S /\ ~ \E g : Solves(f, g, m)
  OBVIOUS
<1>. DEFINE sum == [t \in SUBSET m |-> SumFunctionOnSet(f, t)]
            g == [t \in SUBSET m |-> Step(f, sum, t)]
<1>4. ASSUME NEW u \in SUBSET m, u # m PROVE g[u] = sum[u]
  <2>. DEFINE h == CHOOSE h : Solves(f, h, u)
  <2>1. IsFiniteSet(u) /\ u \in SUBSET S /\ u \notin T
    BY <1>2, <1>3, <1>4, FS_Subset
  <2>2. Solves(f, h, u)
    BY <2>1
  <2>3. sum[u] = h[u]
    BY SumIs
  <2>. HIDE DEF h
  <2>4. h[u] = Step(f, h, u)
    BY <2>2 DEF Solves
  <2>5. CASE u = {}
    BY <2>3, <2>4, <2>5 DEF Step
  <2>6. CASE u # {}
    <3>. DEFINE v == u \ {One(u)}
                i == CHOOSE i : Solves(f, i, v)
    <3>1. v \in SUBSET u /\ v \in SUBSET m /\ v # m /\ v \in SUBSET S
      BY <1>3, <2>6, OneIs
    <3>2. v \notin T
      BY <1>2, <3>1
    <3>3. Solves(f, i, v)
      BY <3>1, <3>2
    <3>4. sum[v] = i[v]
      BY <3>1, SumIs
    <3>. HIDE DEF i, v
    <3>5. h[v] = sum[v]
      BY <2>1, <2>2, <3>1, <3>3, <3>4, SolutionsAgree
    <3>. QED  BY <2>3, <2>4, <2>6, <3>5 DEF Step, v
  <2>. QED  BY <2>5, <2>6
<1>5. ASSUME NEW t \in SUBSET m PROVE Step(f, sum, t) = Step(f, g, t)
  <2>1. CASE t = {}
    BY <2>1 DEF Step
  <2>2. CASE t # {}
    <3>1. t \ {One(t)} \in SUBSET m /\ t \ {One(t)} # m
      BY <2>2, OneIs
    <3>. HIDE DEF g, sum
    <3>. QED  BY <1>4, <3>1, <2>2 DEF Step
  <2>. QED  BY <2>1, <2>2
<1>6. Solves(f, g, m)
  <2>1. \A t \in SUBSET m : g[t] = Step(f, g, t)
    BY <1>5
  <2>2. g = [t \in SUBSET m |-> g[t]]
    OBVIOUS
  <2>. HIDE DEF g
  <2>. QED  BY <2>1, <2>2 DEF Solves
<1>. QED  BY <1>3, <1>6

\* A sum takes one element and the sum of the others.
LEMMA SumStep ==
  ASSUME NEW f, NEW S, IsFiniteSet(S)
  PROVE  /\ SumFunctionOnSet(f, {}) = 0
         /\ S # {} => SumFunctionOnSet(f, S) = f[One(S)] + SumFunctionOnSet(f, S \ {One(S)})
<1>. DEFINE Solution(U) == CHOOSE g : Solves(f, g, U)
<1>1. ASSUME NEW U, IsFiniteSet(U)
      PROVE  Solves(f, Solution(U), U) /\ SumFunctionOnSet(f, U) = Solution(U)[U]
  BY <1>1, SolutionExists, SumIs
<1>. HIDE DEF Solution
<1>2. ASSUME NEW U, IsFiniteSet(U) PROVE SumFunctionOnSet(f, U) = Step(f, Solution(U), U)
  <2>. U \in SUBSET U
    OBVIOUS
  <2>. QED  BY <1>1, <1>2 DEF Solves
<1>3. SumFunctionOnSet(f, {}) = 0
  BY <1>2, FS_EmptySet DEF Step
<1>4. ASSUME S # {}
      PROVE  SumFunctionOnSet(f, S) = f[One(S)] + SumFunctionOnSet(f, S \ {One(S)})
  <2>. DEFINE U == S \ {One(S)}
  <2>1. U \in SUBSET S /\ IsFiniteSet(U)
    BY FS_Subset
  <2>. HIDE DEF U
  <2>2. Solution(S)[U] = SumFunctionOnSet(f, U)
    BY <1>1, <2>1, SolutionsAgree
  <2>. QED  BY <1>2, <1>4, <2>2 DEF Step, U
<1>. QED  BY <1>3, <1>4

LEMMA SumIsNat ==
  ASSUME NEW f, NEW S, IsFiniteSet(S), \A x \in S : f[x] \in Nat
  PROVE  SumFunctionOnSet(f, S) \in Nat
<1>. DEFINE T == {s \in SUBSET S : SumFunctionOnSet(f, s) \notin Nat}
<1>1. SUFFICES ASSUME T # {} PROVE FALSE
  OBVIOUS
<1>2. PICK m \in T : \A t \in T : t \subseteq m => t = m
  <2>. T \subseteq SUBSET S
    OBVIOUS
  <2>. HIDE DEF T
  <2>. QED  BY <1>1, MinimalSubset
<1>3. m \in SUBSET S /\ IsFiniteSet(m) /\ SumFunctionOnSet(f, m) \notin Nat
  BY FS_Subset
<1>4. m # {}
  <2>1. SumFunctionOnSet(f, {}) = 0
    BY SumStep
  <2>. QED  BY <1>3, <2>1
<1>5. m \ {One(m)} \notin T /\ m \ {One(m)} \in SUBSET S /\ One(m) \in S
  BY <1>2, <1>3, <1>4, OneIs
<1>. QED  BY <1>3, <1>4, <1>5, SumStep

\* Whichever element it takes first.
LEMMA SumTakes ==
  ASSUME NEW f, NEW S, IsFiniteSet(S), \A x \in S : f[x] \in Nat
  PROVE  \A x \in S : SumFunctionOnSet(f, S) = f[x] + SumFunctionOnSet(f, S \ {x})
<1>. DEFINE Takes(s) == \A x \in s :
              SumFunctionOnSet(f, s) = f[x] + SumFunctionOnSet(f, s \ {x})
            T == {s \in SUBSET S : ~ Takes(s)}
<1>1. SUFFICES ASSUME T # {} PROVE FALSE
  <2>. S \in SUBSET S
    OBVIOUS
  <2>. QED  OBVIOUS
<1>2. PICK m \in T : \A t \in T : t \subseteq m => t = m
  <2>. T \subseteq SUBSET S
    OBVIOUS
  <2>. HIDE DEF T
  <2>. QED  BY <1>1, MinimalSubset
<1>3. m \in SUBSET S /\ IsFiniteSet(m)
  BY FS_Subset
<1>4. PICK x \in m : SumFunctionOnSet(f, m) # f[x] + SumFunctionOnSet(f, m \ {x})
  OBVIOUS
<1>. DEFINE c == One(m)
            both == SumFunctionOnSet(f, (m \ {c}) \ {x})
<1>5. c \in m /\ SumFunctionOnSet(f, m) = f[c] + SumFunctionOnSet(f, m \ {c})
  BY <1>3, <1>4, OneIs, SumStep
<1>. HIDE DEF c
<1>6. CASE c = x
  BY <1>4, <1>5, <1>6
<1>7. CASE c # x
  <2>1. /\ m \ {c} \in SUBSET S /\ m \ {c} \notin T /\ m \ {x} \in SUBSET S /\ m \ {x} \notin T
        /\ x \in m \ {c} /\ c \in m \ {x} /\ (m \ {x}) \ {c} = (m \ {c}) \ {x}
    BY <1>2, <1>3, <1>4, <1>5, <1>7
  <2>2. SumFunctionOnSet(f, m \ {c}) = f[x] + both
    BY <2>1
  <2>3. SumFunctionOnSet(f, m \ {x}) = f[c] + both
    BY <2>1
  <2>4. both \in Nat /\ f[x] \in Nat /\ f[c] \in Nat
    <3>1. IsFiniteSet((m \ {c}) \ {x}) /\ (m \ {c}) \ {x} \subseteq S
      BY <1>3, FS_Subset
    <3>2. both \in Nat
      BY <3>1, SumIsNat
    <3>. QED  BY <1>3, <1>4, <1>5, <3>2
  <2>. HIDE DEF both
  <2>. QED  BY <1>4, <1>5, <2>2, <2>3, <2>4
<1>. QED  BY <1>6, <1>7

\* What an added element adds.
LEMMA SumAdds ==
  ASSUME NEW f, NEW S, IsFiniteSet(S), NEW x, x \notin S, \A y \in S \cup {x} : f[y] \in Nat
  PROVE  SumFunctionOnSet(f, S \cup {x}) = SumFunctionOnSet(f, S) + f[x]
<1>1. IsFiniteSet(S \cup {x}) /\ (S \cup {x}) \ {x} = S /\ x \in S \cup {x}
  BY FS_AddElement
<1>2. SumFunctionOnSet(f, S \cup {x}) = f[x] + SumFunctionOnSet(f, S)
  BY <1>1, SumTakes
<1>3. SumFunctionOnSet(f, S) \in Nat
  BY SumIsNat
<1>. QED  BY <1>2, <1>3
-----------------------------------------------------------------------------
(***************************************************************************)
(* The invariant of what is staked: what the account delegates to a        *)
(* candidate is the sum of what its good operations have put there.        *)
(***************************************************************************)
Stakes(k) == {o \in Delegates \cup BondMores : Collator[o] = k /\ IsGood(o)}

StakesAdd ==
  \A k \in candidates :
    /\ IsFiniteSet(Stakes(k)) /\ bond[k] = SumFunctionOnSet(Amount, Stakes(k))
    /\ Stakes(k) # {} => bond[k] > 0

Added == Awaited /\ StakesAdd /\ AmountIsReadBack

LEMMA AddedInit == Init => Added
<1>. SUFFICES ASSUME Init PROVE Added
  OBVIOUS
<1>1. Awaited
  BY AwaitedInit
<1>2. \A o \in Ops \cup Reads : pc[o] = "idle"
  BY DEF Init
<1>3. ASSUME NEW k \in candidates
      PROVE  bond[k] = 0 /\ Stakes(k) = {}
  <2>1. bond[k] = 0
    BY DEF Init, PalletInit
  <2>. QED  BY <1>2, <2>1 DEF Stakes, IsGood, Ops
<1>4. StakesAdd
  <2>1. SumFunctionOnSet(Amount, {}) = 0 /\ IsFiniteSet({})
    BY SumStep, FS_EmptySet
  <2>. QED  BY <1>3, <2>1 DEF StakesAdd
<1>5. AmountIsReadBack
  BY <1>2 DEF AmountIsReadBack, Reads
<1>. QED  BY <1>1, <1>4, <1>5 DEF Added

\* What a step makes of the stake at a collator that stays a candidate: one
\* good operation adds its amount, or nothing changes.
LEMMA BondStep ==
  ASSUME Base, [Next]_vars, NEW k \in Collators, k \in candidates'
  PROVE  \/ bond'[k] = bond[k] /\ Stakes(k)' = Stakes(k)
         \/ \E o \in Delegates \cup BondMores :
              /\ Dispatch(o) /\ ErrorsOf(o) = {} /\ Collator[o] = k
              /\ bond'[k] = bond[k] + Amount[o]
              /\ o \notin Stakes(k) /\ Stakes(k)' = Stakes(k) \cup {o}
<1>. bond \in [Collators -> Nat]
  BY DEF Base, TypeOK, PalletTypeOK
<1>. DEFINE Adds(o) == Dispatch(o) /\ ErrorsOf(o) = {} /\ Collator[o] = k
<1>0. ASSUME NEW o \in Delegates \cup BondMores, ~Adds(o)
      PROVE  o \in Stakes(k)' <=> o \in Stakes(k)
  <2>. o \in Ops
    BY DEF Ops
  <2>. QED  BY <1>0, GoodStep DEF Stakes
<1>1. ASSUME NEW o \in Delegates \cup BondMores, Adds(o)
      PROVE  /\ bond'[k] = bond[k] + Amount[o]
             /\ o \notin Stakes(k) /\ Stakes(k)' = Stakes(k) \cup {o}
  <2>1. o \in Ops /\ Dispatch(o) /\ ErrorsOf(o) = {}
    BY <1>1 DEF Ops
  <2>2. Bond(Collator[o], Amount[o]) /\ pc[o] = "sent"
    BY <2>1, AppliedIs, DispatchIs
  <2>3. bond'[k] = bond[k] + Amount[o]
    BY <1>1, <2>2 DEF Bond
  <2>4. o \notin Stakes(k) /\ o \in Stakes(k)'
    <3>1. IsGood(o)'
      BY <2>1, GoodStep
    <3>. QED  BY <1>1, <2>2, <3>1 DEF Stakes, IsGood
  <2>5. ASSUME NEW p \in Delegates \cup BondMores, p # o PROVE ~Adds(p)
    <3>1. p \in Ops /\ pc'[p] = pc[p]
      BY <2>1, <2>5, DispatchIs DEF Ops
    <3>. QED  BY <3>1, DispatchIs
  <2>6. ASSUME NEW p \in Delegates \cup BondMores, p # o
        PROVE  p \in Stakes(k)' <=> p \in Stakes(k)
    BY <1>0, <2>5, <2>6
  <2>7. Stakes(k) \subseteq Delegates \cup BondMores /\ Stakes(k)' \subseteq Delegates \cup BondMores
    BY DEF Stakes
  <2>. QED  BY <2>3, <2>4, <2>6, <2>7
<1>2. ASSUME \A o \in Delegates \cup BondMores : ~Adds(o)
      PROVE  bond'[k] = bond[k] /\ Stakes(k)' = Stakes(k)
  <2>1. Stakes(k)' = Stakes(k)
    BY <1>0, <1>2 DEF Stakes
  <2>2. CASE UNCHANGED pallet
    BY <2>1, <2>2 DEF pallet
  <2>3. CASE Others
    <3>1. PICK j \in Collators : \/ \E auto \in BOOLEAN : Join(j, auto) \/ Leave(j, auto)
                                 \/ TurnAuto(j) \/ CandidateLeaves(j)
      BY <2>3 DEF Others, OtherMove
    <3>2. CASE CandidateLeaves(j)
      BY <2>1, <3>2 DEF CandidateLeaves
    <3>3. CASE ~CandidateLeaves(j)
      BY <2>1, <3>1, <3>3 DEF Join, Leave, TurnAuto
    <3>. QED  BY <3>2, <3>3
  <2>4. ASSUME NEW o \in Ops, Dispatch(o), ErrorsOf(o) = {}
        PROVE  bond'[k] = bond[k]
    <3>1. Applied(o)
      BY <2>4, DispatchIs
    <3>2. CASE o \in SetAutos
      BY <3>1, <3>2, AppliedIs
    <3>3. CASE o \in Delegates \cup BondMores
      <4>1. Bond(Collator[o], Amount[o]) /\ Collator[o] # k
        BY <1>2, <2>4, <3>1, <3>3, AppliedIs
      <4>. QED  BY <4>1 DEF Bond
    <3>. QED  BY <3>2, <3>3 DEF Ops
  <2>5. ASSUME NEW o \in Ops, Dispatch(o), ErrorsOf(o) # {} PROVE UNCHANGED pallet
    BY <2>5 DEF Dispatch
  <2>6. ASSUME NEW o \in Ops, Reading(o) PROVE UNCHANGED pallet
    BY <2>6, ReadingIs
  <2>7. ASSUME NEW r \in Reads, Read(r) PROVE UNCHANGED pallet
    BY <2>7 DEF Read
  <2>8. CASE UNCHANGED vars
    BY <2>2, <2>8 DEF vars
  <2>. QED  BY <2>1, <2>2, <2>3, <2>4, <2>5, <2>6, <2>7, <2>8 DEF Next, OpStep, Reading
<1>. QED  BY <1>1, <1>2

LEMMA StakesStep ==
  ASSUME Base, [Next]_vars, StakesAdd
  PROVE  StakesAdd'
<1>. SUFFICES ASSUME NEW k \in candidates'
              PROVE  /\ IsFiniteSet(Stakes(k)') /\ bond'[k] = SumFunctionOnSet(Amount, Stakes(k)')
                     /\ Stakes(k)' # {} => bond'[k] > 0
  BY DEF StakesAdd
<1>0. k \in Collators
  BY BaseStep DEF Base, TypeOK, PalletTypeOK
<1>1. k \in candidates
  BY <1>0, StakeStep
<1>2. CASE bond'[k] = bond[k] /\ Stakes(k)' = Stakes(k)
  BY <1>1, <1>2 DEF StakesAdd
<1>3. ASSUME NEW o \in Delegates \cup BondMores,
             Dispatch(o), ErrorsOf(o) = {}, Collator[o] = k, bond'[k] = bond[k] + Amount[o],
             o \notin Stakes(k), Stakes(k)' = Stakes(k) \cup {o}
      PROVE  /\ IsFiniteSet(Stakes(k)') /\ bond'[k] = SumFunctionOnSet(Amount, Stakes(k)')
             /\ bond'[k] > 0
  <2>1. IsFiniteSet(Stakes(k)) /\ bond[k] = SumFunctionOnSet(Amount, Stakes(k)) /\ bond[k] \in Nat
    BY <1>0, <1>1 DEF StakesAdd, Base, TypeOK, PalletTypeOK
  <2>2. \A p \in Stakes(k) \cup {o} : Amount[p] \in Nat
    BY Constants DEF Stakes
  <2>3. SumFunctionOnSet(Amount, Stakes(k) \cup {o})
          = SumFunctionOnSet(Amount, Stakes(k)) + Amount[o]
    BY <1>3, <2>1, <2>2, SumAdds
  <2>4. IsFiniteSet(Stakes(k) \cup {o})
    BY <2>1, FS_AddElement
  <2>5. Amount[o] > 0 \/ bond[k] > 0
    <3>1. CASE o \in Delegates
      <4>1. ~(Amount[o] < MinDelegation)
        BY <1>3, <3>1, ErrorsOfAre, ErrorsApply
      <4>. QED  BY <2>2, <4>1, Constants
    <3>2. CASE o \in BondMores
      <4>1. k \in Delegated
        BY <1>3, <3>2, ErrorsOfAre DEF BondMoreErrors, Errors
      <4>. QED  BY <4>1 DEF Delegated
    <3>. QED  BY <3>1, <3>2
  <2>6. Amount[o] \in Nat
    BY <2>2
  <2>. QED  BY <1>3, <2>1, <2>3, <2>4, <2>5, <2>6
<1>. QED  BY <1>0, <1>2, <1>3, BondStep

LEMMA AmountStep ==
  ASSUME Base, [Next]_vars, AwaitsSettled, StakesAdd, AmountIsReadBack
  PROVE  AmountIsReadBack'
<1>. DEFINE Staking == Delegates \cup BondMores
<1>. SUFFICES ASSUME NEW r \in AmountReads, pc'[r] = "settled", Collator[r] \in candidates',
                     Good(r, After[r] \cap Staking)' # {}
              PROVE  \E S \in SUBSET Good(r, Staking)' :
                       /\ Good(r, After[r] \cap Staking)' \subseteq S
                       /\ answer'[r] = SumFunctionOnSet(Amount, S)
  BY DEF AmountIsReadBack
<1>1. r \in Reads /\ Collator[r] \in Collators /\ After[r] \subseteq Ops /\ Staking \subseteq Ops
  BY Constants DEF Ops, Reads
<1>2. Collator[r] \in candidates
  BY <1>1, StakeStep
<1>3. Good(r, Staking) \subseteq Good(r, Staking)'
  BY <1>1, PlaceStep DEF Good
<1>4. CASE pc'[r] = pc[r] /\ answer'[r] = answer[r]
  <2>1. \A d \in After[r] : pc[d] = "settled" /\ errors'[d] = errors[d]
    BY <1>1, <1>4, PlaceStep DEF AwaitsSettled
  <2>2. Good(r, After[r] \cap Staking)' = Good(r, After[r] \cap Staking)
    BY <1>1, <2>1, PlaceStep DEF Good
  <2>3. PICK S \in SUBSET Good(r, Staking) :
               /\ Good(r, After[r] \cap Staking) \subseteq S
               /\ answer[r] = SumFunctionOnSet(Amount, S)
    BY <1>2, <1>4, <2>2 DEF AmountIsReadBack
  <2>. QED  BY <1>3, <1>4, <2>2, <2>3
<1>5. CASE Read(r)
  <2>1. UNCHANGED <<pallet, errors>> /\ \A o \in Ops : pc'[o] = pc[o]
    BY <1>1, <1>5, Constants DEF Read, Goto, Base, TypeOK
  <2>2. answer'[r] = Found(bond[Collator[r]])
    BY <1>1, <1>5 DEF Read, Base, TypeOK
  <2>3. Good(r, Staking) = Stakes(Collator[r])
    BY DEF Good, Stakes, IsGood
  <2>4. /\ Good(r, After[r] \cap Staking)' = Good(r, After[r] \cap Staking)
        /\ Good(r, After[r] \cap Staking) \subseteq Good(r, Staking)
    BY <1>1, <2>1 DEF Good
  <2>5. /\ bond[Collator[r]] = SumFunctionOnSet(Amount, Good(r, Staking))
        /\ bond[Collator[r]] > 0
    BY <1>2, <2>3, <2>4 DEF StakesAdd
  <2>6. answer'[r] = SumFunctionOnSet(Amount, Good(r, Staking))
    <3>1. bond[Collator[r]] \in Nat
      BY <1>1 DEF Base, TypeOK, PalletTypeOK
    <3>. QED  BY <2>2, <2>5, <3>1 DEF Found
  <2>. QED  BY <1>3, <2>4, <2>6
<1>. QED  BY <1>1, <1>4, <1>5, ReadStep

LEMMA AddedStep == Added /\ [Next]_vars => Added'
<1>. SUFFICES ASSUME Added, [Next]_vars PROVE Added'
  OBVIOUS
<1>1. Base /\ AwaitsSettled
  BY DEF Added, Awaited, Counts
<1>. QED  BY <1>1, AwaitedStep, StakesStep, AmountStep DEF Added

(***************************************************************************)
(* What the account delegates to a candidate is the sum of the amounts of  *)
(* the operations of OakAdapter that were good there, in any overlap.      *)
(***************************************************************************)
THEOREM AddedInvariant == Spec => []Added
BY AddedInit, AddedStep, PTL DEF Spec

(***************************************************************************)
(* ReadsBackWhatWasSet: a caller of getDelegation reads the amounts of all *)
(* good operations it awaited, with those of others that are good, and one *)
(* of getAutoCompoundingDelegationPercentage no percentage that an         *)
(* operation it awaited has replaced.                                      *)
(***************************************************************************)
THEOREM ReadBack == Spec => []ReadsBackWhatWasSet
<1>1. Added => ReadsBackWhatWasSet
  BY DEF Added, Awaited, ReadsBackWhatWasSet
<1>. QED  BY <1>1, AddedInvariant, PTL
-----------------------------------------------------------------------------
(***************************************************************************)
(* That Delegation implements StakingLedger: what the account has staked   *)
(* and its number of delegations follow every change of one stake.         *)
(***************************************************************************)
LEMMA SumsAgree ==
  ASSUME NEW S, IsFiniteSet(S), NEW f, NEW g, \A x \in S : f[x] = g[x]
  PROVE  SumFunctionOnSet(f, S) = SumFunctionOnSet(g, S)
<1>. DEFINE T == {s \in SUBSET S : SumFunctionOnSet(f, s) # SumFunctionOnSet(g, s)}
<1>1. SUFFICES ASSUME T # {} PROVE FALSE
  OBVIOUS
<1>2. PICK m \in T : \A t \in T : t \subseteq m => t = m
  <2>. T \subseteq SUBSET S
    OBVIOUS
  <2>. HIDE DEF T
  <2>. QED  BY <1>1, MinimalSubset
<1>3. m \in SUBSET S /\ IsFiniteSet(m)
      /\ SumFunctionOnSet(f, m) # SumFunctionOnSet(g, m)
  BY FS_Subset
<1>4. m # {}
  <2>1. SumFunctionOnSet(f, {}) = 0 /\ SumFunctionOnSet(g, {}) = 0
    BY SumStep
  <2>. QED  BY <1>3, <2>1
<1>5. m \ {One(m)} \notin T /\ m \ {One(m)} \in SUBSET S /\ One(m) \in S
  BY <1>2, <1>3, <1>4, OneIs
<1>. QED  BY <1>3, <1>4, <1>5, SumStep

LEMMA SumOfChanged ==
  ASSUME NEW S, IsFiniteSet(S), NEW f \in [S -> Nat], NEW k \in S, NEW n \in Nat
  PROVE  /\ SumFunction([f EXCEPT ![k] = n]) = SumFunction(f) - f[k] + n
         /\ SumFunction(f) \in Nat
<1>. DEFINE g == [f EXCEPT ![k] = n]
            rest == SumFunctionOnSet(f, S \ {k})
<1>1. SumFunction(f) = SumFunctionOnSet(f, S) /\ SumFunction(g) = SumFunctionOnSet(g, S)
  BY DEF SumFunction
<1>2. g \in [S -> Nat] /\ g[k] = n /\ \A x \in S \ {k} : g[x] = f[x]
  OBVIOUS
<1>. HIDE DEF g
<1>3. IsFiniteSet(S \ {k})
  BY FS_Subset
<1>4. SumFunctionOnSet(g, S \ {k}) = rest
  BY <1>2, <1>3, SumsAgree
<1>5. rest \in Nat /\ SumFunctionOnSet(f, S) \in Nat
  BY <1>3, SumIsNat
<1>6. SumFunctionOnSet(f, S) = f[k] + rest
  BY SumTakes
<1>7. SumFunctionOnSet(g, S) = g[k] + SumFunctionOnSet(g, S \ {k})
  BY <1>2, SumTakes
<1>. HIDE DEF rest
<1>8. SumFunction(g) = SumFunction(f) - f[k] + n /\ SumFunction(f) \in Nat
  BY <1>1, <1>2, <1>4, <1>5, <1>6, <1>7
<1>. QED  BY <1>8 DEF g

LEMMA SumOfZeros ==
  ASSUME NEW S, IsFiniteSet(S), NEW f, \A x \in S : f[x] = 0
  PROVE  SumFunctionOnSet(f, S) = 0
<1>. DEFINE T == {s \in SUBSET S : SumFunctionOnSet(f, s) # 0}
<1>1. SUFFICES ASSUME T # {} PROVE FALSE
  OBVIOUS
<1>2. PICK m \in T : \A t \in T : t \subseteq m => t = m
  <2>. T \subseteq SUBSET S
    OBVIOUS
  <2>. HIDE DEF T
  <2>. QED  BY <1>1, MinimalSubset
<1>3. m \in SUBSET S /\ IsFiniteSet(m) /\ SumFunctionOnSet(f, m) # 0
  BY FS_Subset
<1>4. m # {}
  <2>1. SumFunctionOnSet(f, {}) = 0
    BY SumStep
  <2>. QED  BY <1>3, <2>1
<1>5. m \ {One(m)} \notin T /\ m \ {One(m)} \in SUBSET S /\ One(m) \in S
  BY <1>2, <1>3, <1>4, OneIs
<1>. QED  BY <1>3, <1>4, <1>5, SumStep

\* What a new stake at one collator does to the two totals.
LEMMA TotalsAre ==
  ASSUME Base, NEW k \in Collators, NEW n \in Nat, bond' = [bond EXCEPT ![k] = n]
  PROVE  /\ Staked' = Staked - bond[k] + n /\ Staked \in Nat
         /\ bond[k] = 0 /\ n > 0 => Cardinality(Delegated)' = Cardinality(Delegated) + 1
         /\ bond[k] > 0 /\ n = 0 => Cardinality(Delegated)' = Cardinality(Delegated) - 1
         /\ (bond[k] > 0 <=> n > 0) => Cardinality(Delegated)' = Cardinality(Delegated)
<1>. bond \in [Collators -> Nat] /\ IsFiniteSet(Collators)
  BY Constants DEF Base, TypeOK, PalletTypeOK
<1>0. IsFiniteSet(Delegated) /\ Cardinality(Delegated) \in Nat
  BY DelegatedFinite
<1>1. Staked' = Staked - bond[k] + n /\ Staked \in Nat
  BY SumOfChanged DEF Staked
<1>2. ASSUME bond[k] = 0, n > 0 PROVE Cardinality(Delegated)' = Cardinality(Delegated) + 1
  <2>1. Delegated' = Delegated \cup {k} /\ k \notin Delegated
    BY <1>2 DEF Delegated
  <2>2. Cardinality(Delegated \cup {k}) = Cardinality(Delegated) + 1
    BY <1>0, <2>1, FS_AddElement
  <2>. QED  BY <2>1, <2>2
<1>3. ASSUME bond[k] > 0, n = 0 PROVE Cardinality(Delegated)' = Cardinality(Delegated) - 1
  <2>1. Delegated' = Delegated \ {k} /\ k \in Delegated
    BY <1>3 DEF Delegated
  <2>2. Cardinality(Delegated \ {k}) = Cardinality(Delegated) - 1
    BY <1>0, <2>1, FS_RemoveElement
  <2>. QED  BY <2>1, <2>2
<1>4. ASSUME bond[k] > 0 <=> n > 0 PROVE Cardinality(Delegated)' = Cardinality(Delegated)
  <2>1. Delegated' = Delegated
    BY <1>4 DEF Delegated
  <2>. QED  BY <2>1
<1>. QED  BY <1>1, <1>2, <1>3, <1>4

\* The state the ledger gives an operation or a read.
State == [o \in Ops \cup Reads |-> Outcome(o)]

LEMMA OutcomeIs ==
  ASSUME NEW o
  PROVE  /\ pc[o] = "idle" => Outcome(o) = "idle"
         /\ pc[o] = "threw" => Outcome(o) = "threw"
         /\ pc[o] = "settled" /\ o \in Ops /\ errors[o] # {} => Outcome(o) = "failed"
         /\ pc[o] = "settled" /\ ~(o \in Ops /\ errors[o] # {}) => Outcome(o) = "good"
         /\ Running(o) => Outcome(o) = "running"
         /\ ~Running(o) => Outcome(o) # "running"
BY DEF Outcome, Running

\* The same after a step.
LEMMA NextOutcomeIs ==
  ASSUME NEW o
  PROVE  /\ pc'[o] = "threw" => Outcome(o)' = "threw"
         /\ pc'[o] = "settled" /\ o \in Ops /\ errors'[o] # {} => Outcome(o)' = "failed"
         /\ pc'[o] = "settled" /\ ~(o \in Ops /\ errors'[o] # {}) => Outcome(o)' = "good"
         /\ pc'[o] \notin {"idle", "threw", "settled"} => Outcome(o)' = "running"
         /\ pc'[o] = pc[o] /\ (o \in Ops => errors'[o] = errors[o]) => Outcome(o)' = Outcome(o)
BY DEF Outcome

\* A step that moves one operation or read moves it in the ledger.
LEMMA GoesTo ==
  ASSUME NEW o \in Ops \cup Reads, NEW from, NEW to, Outcome(o) = from, Outcome(o)' = to,
         \A p \in Ops \cup Reads : p # o => pc'[p] = pc[p],
         \A p \in Ops : p # o => errors'[p] = errors[p]
  PROVE  Ledger!Goto(o, from, to)
<1>1. \A p \in Ops \cup Reads : p # o => Outcome(p)' = Outcome(p)
  BY NextOutcomeIs
<1>2. State' = [State EXCEPT ![o] = to]
  BY <1>1 DEF State
<1>3. State[o] = from
  BY DEF State
<1>. QED  BY <1>2, <1>3 DEF Ledger!Goto, State

\* Those an operation or a read awaits, and the count of its changes.
LEMMA AwaitedThere ==
  ASSUME NEW o \in Ops \cup Reads, \A d \in After[o] : pc[d] = "settled"
  PROVE  Ledger!Awaited(o)
<1>1. \A d \in After[o] : d \in Ops \cup Reads /\ Outcome(d) \in {"good", "failed"}
  BY Constants, OutcomeIs
<1>. QED  BY <1>1 DEF Ledger!Awaited

LEMMA DisturbedThere ==
  ASSUME NEW except, Changed(except)
  PROVE  Ledger!Disturb(except)
<1>1. \A o \in Ops : Outcome(o) = "running" <=> Running(o)
  BY OutcomeIs
<1>2. Ops = Ledger!Ops
  BY DEF Ops, Ledger!Ops
<1>. QED  BY <1>1, <1>2 DEF Ledger!Disturb, Changed, Many

\* What an operation with no error may do, and why one with an error fails.
LEMMA GoodIsPermitted ==
  ASSUME Base, NEW o \in Ops, ErrorsOf(o) = {}
  PROVE  /\ o \in Delegates => Ledger!MayDelegate(o)
         /\ o \in SetAutos => Ledger!MaySetAuto(o)
         /\ o \in BondMores => Ledger!MayBondMore(o)
<1>. /\ Collator[o] \in Collators /\ bond \in [Collators -> Nat]
     /\ o \in Delegates \cup BondMores => Amount[o] \in Nat
     /\ MinDelegation \in Nat /\ MaxDelegationsPerDelegator \in Nat /\ Free \in Nat
  BY Constants, PalletAssumption DEF Base, TypeOK, PalletTypeOK
<1>. Staked \in Nat /\ Cardinality(Delegated) \in Nat
  BY DelegatedFinite, SumOfChanged, Constants DEF Staked
<1>1. ASSUME o \in Delegates PROVE Ledger!MayDelegate(o)
  <2>1. DelegateErrors(Collator[o], Amount[o], Percentage[o], hint[o]) = {}
    BY <1>1, ErrorsOfAre
  <2>2. /\ ~(Free - Staked < Amount[o]) /\ ~(Amount[o] < MinDelegation)
        /\ ~(Cardinality(Delegated) >= MaxDelegationsPerDelegator)
        /\ Collator[o] \notin Delegated /\ Collator[o] \in candidates
    BY <2>1 DEF DelegateErrors, Errors
  <2>. QED  BY <1>1, <2>2 DEF Ledger!MayDelegate, Delegated
<1>2. ASSUME o \in SetAutos PROVE Ledger!MaySetAuto(o)
  <2>1. SetAutoErrors(Collator[o], hint[o]) = {}
    BY <1>2, ErrorsOfAre
  <2>2. Collator[o] \in Delegated
    BY <2>1 DEF SetAutoErrors, Errors
  <2>. QED  BY <2>2 DEF Ledger!MaySetAuto, Delegated
<1>3. ASSUME o \in BondMores PROVE Ledger!MayBondMore(o)
  <2>1. BondMoreErrors(Collator[o], Amount[o]) = {}
    BY <1>3, ErrorsOfAre
  <2>2. Collator[o] \in Delegated /\ ~(Free - Staked < Amount[o])
    BY <2>1 DEF BondMoreErrors, Errors
  <2>. QED  BY <1>3, <2>2 DEF Ledger!MayBondMore, Delegated
<1>. QED  BY <1>1, <1>2, <1>3

LEMMA RefusedForReason ==
  ASSUME Base, NEW o \in Ops, OpCounts(o)', changes'[o] = changes[o], pc'[o] = "settled",
         errors'[o] = ErrorsOf(o), ErrorsOf(o) # {}
  PROVE  ~Ledger!Permitted(o) \/ Ledger!Overtaken(o)
<1>. /\ Collator[o] \in Collators /\ bond \in [Collators -> Nat] /\ changes[o] \in 0 .. Many
     /\ o \in Delegates \cup BondMores => Amount[o] \in Nat
     /\ MinDelegation \in Nat /\ MaxDelegationsPerDelegator \in Nat /\ Free \in Nat
  BY Constants, PalletAssumption DEF Base, TypeOK, PalletTypeOK
<1>. Staked \in Nat /\ Cardinality(Delegated) \in Nat
  BY DelegatedFinite, SumOfChanged, Constants DEF Staked
<1>. Delegates \cap SetAutos = {} /\ Delegates \cap BondMores = {} /\ SetAutos \cap BondMores = {}
  BY Constants
<1>. PICK e : e \in ErrorsOf(o)
  OBVIOUS
<1>1. CASE o \in Delegates
  <2>. SUFFICES ASSUME ~(changes[o] > 0) PROVE ~Ledger!MayDelegate(o)
    BY <1>1 DEF Ledger!Permitted, Ledger!Overtaken
  <2>1. e \in {"InsufficientBalance", "ExceedMaxDelegationsPerDelegator"}
    BY <1>1 DEF OpCounts, Undisturbed
  <2>2. e \in DelegateErrors(Collator[o], Amount[o], Percentage[o], hint[o])
    BY <1>1, ErrorsOfAre
  <2>3. Free - Staked < Amount[o] \/ Cardinality(Delegated) >= MaxDelegationsPerDelegator
    BY <2>1, <2>2 DEF DelegateErrors
  <2>. QED  BY <1>1, <2>3 DEF Ledger!MayDelegate
<1>2. CASE o \in SetAutos
  <2>. SUFFICES ASSUME ~(changes[o] > 1) PROVE ~Ledger!MaySetAuto(o)
    BY <1>2 DEF Ledger!Permitted, Ledger!Overtaken
  <2>1. e \notin HintErrors
    BY <1>2 DEF OpCounts, HasRoom
  <2>2. e \in SetAutoErrors(Collator[o], hint[o])
    BY <1>2, ErrorsOfAre
  <2>3. Collator[o] \notin Delegated
    BY <2>1, <2>2, SetAutoErrorsAre DEF HintErrors
  <2>. QED  BY <2>3 DEF Ledger!MaySetAuto, Delegated
<1>3. CASE o \in BondMores
  <2>. SUFFICES ~Ledger!MayBondMore(o)
    BY <1>3 DEF Ledger!Permitted
  <2>2. e \in BondMoreErrors(Collator[o], Amount[o])
    BY <1>3, ErrorsOfAre
  <2>3. Collator[o] \notin Delegated \/ Free - Staked < Amount[o]
    BY <2>2 DEF BondMoreErrors
  <2>. QED  BY <1>3, <2>3 DEF Ledger!MayBondMore, Delegated
<1>. QED  BY <1>1, <1>2, <1>3 DEF Ops

\* What the ledger sees of the staking state when the pallet does not change.
LEMMA SameHoldings ==
  ASSUME UNCHANGED <<candidates, bond, compounding>>
  PROVE  UNCHANGED Ledger!holdings
<1>1. Staked' = Staked /\ Cardinality(Delegated)' = Cardinality(Delegated)
  BY DEF Staked, Delegated
<1>. QED  BY <1>1 DEF Ledger!holdings

LedgerStays == UNCHANGED Ledger!vars

LEMMA StaysThere ==
  ASSUME UNCHANGED Ledger!holdings, UNCHANGED <<changes, answer>>,
         \A o \in Ops \cup Reads : Outcome(o)' = Outcome(o)
  PROVE  LedgerStays
<1>1. State' = State
  BY DEF State
<1>. QED  BY <1>1 DEF LedgerStays, Ledger!vars, State

LEMMA OpIsNext ==
  ASSUME NEW o \in Ops,
         Ledger!Begin(o) \/ Ledger!Throw(o) \/ Ledger!Fail(o) \/ Ledger!Succeed(o)
  PROVE  Ledger!Next
<1>1. o \in Ledger!Ops
  BY DEF Ops, Ledger!Ops
<1>. QED  BY <1>1 DEF Ledger!Next

\* A query of an operation is no step of the ledger, unless it begins or throws.
LEMMA ReadingThere ==
  ASSUME Base, NEW o \in Ops, OpCounts(o), Reading(o)
  PROVE  Ledger!Next \/ LedgerStays
<1>0. /\ UNCHANGED <<pallet, errors, changes, answer>>
      /\ \A p \in Ops \cup Reads : p # o => pc'[p] = pc[p]
      /\ pc[o] \in {"idle", "delegatorState", "candidateInfo", "autoCompounding"}
      /\ pc'[o] \in {"delegatorState", "candidateInfo", "autoCompounding", "sent", "threw"}
      /\ pc[o] = "idle" => \A d \in After[o] : pc[d] = "settled"
  BY ReadingIs
<1>1. UNCHANGED Ledger!holdings
  BY <1>0, SameHoldings DEF pallet
<1>2. \A p \in Ops \cup Reads : p # o => Outcome(p)' = Outcome(p)
  BY <1>0, NextOutcomeIs
<1>3. CASE Begin(o)
  <2>1. pc[o] = "idle" /\ pc'[o] # "threw"
    BY <1>3 DEF Begin, Goto, FirstAwait, SaysInsufficient, Base, TypeOK, Ops
  <2>2. Outcome(o) = "idle" /\ Outcome(o)' = "running"
    BY <1>0, <2>1, OutcomeIs, NextOutcomeIs
  <2>3. Ledger!Goto(o, "idle", "running") /\ Ledger!Awaited(o)
    BY <1>0, <2>1, <2>2, GoesTo, AwaitedThere
  <2>. QED  BY <1>0, <1>1, <2>3, OpIsNext DEF Ledger!Begin
<1>4. CASE ~Begin(o) /\ pc'[o] # "threw"
  <2>1. pc[o] # "idle"
    BY <1>4 DEF Reading, ReadDelegator, ReadCandidate, ReadAutoLength, SetAutoReadsLength,
                SetAutoReadsDelegator, Goto
  <2>2. Outcome(o)' = Outcome(o)
    BY <1>0, <1>4, <2>1, OutcomeIs, NextOutcomeIs DEF Running
  <2>. QED  BY <1>0, <1>1, <1>2, <2>2, StaysThere
<1>5. CASE ~Begin(o) /\ pc'[o] = "threw"
  <2>. Collator[o] \in Collators /\ bond \in [Collators -> Nat]
       /\ (o \in Delegates => Amount[o] \in Nat) /\ MinDelegation \in Nat
    BY Constants DEF Base, TypeOK, PalletTypeOK
  <2>. Delegates \cap SetAutos = {} /\ Delegates \cap BondMores = {} /\ SetAutos \cap BondMores = {}
    BY Constants
  <2>1. pc[o] # "idle"
    BY <1>5 DEF Reading, ReadDelegator, ReadCandidate, ReadAutoLength, SetAutoReadsLength,
                SetAutoReadsDelegator, Goto
  <2>2. Ledger!Goto(o, "running", "threw")
    BY <1>0, <1>5, <2>1, OutcomeIs, NextOutcomeIs, GoesTo DEF Running
  <2>3. ~ReadAutoLength(o) /\ ~SetAutoReadsLength(o)
    BY <1>5 DEF ReadAutoLength, SetAutoReadsLength, Goto, Base, TypeOK
  <2>4. ASSUME ReadDelegator(o) PROVE ~Ledger!Permitted(o)
    <3>1. o \in Delegates /\ RefusesDelegate(o)
      BY <1>5, <2>4 DEF ReadDelegator, Goto, Base, TypeOK
    <3>. QED  BY <3>1 DEF RefusesDelegate, Delegated, Ledger!Permitted, Ledger!MayDelegate
  <2>5. ASSUME ReadCandidate(o) PROVE ~Ledger!Permitted(o)
    <3>1. o \in Delegates /\ Collator[o] \notin candidates
      BY <1>5, <2>5 DEF ReadCandidate, Goto, Base, TypeOK, OpCounts, PlaceIs
    <3>. QED  BY <3>1 DEF Ledger!Permitted, Ledger!MayDelegate
  <2>6. ASSUME SetAutoReadsDelegator(o) PROVE ~Ledger!Permitted(o)
    <3>1. o \in SetAutos /\ Delegated = {}
      BY <1>5, <2>6 DEF SetAutoReadsDelegator, Goto, Base, TypeOK
    <3>. QED  BY <3>1 DEF Delegated, Ledger!Permitted, Ledger!MaySetAuto
  <2>7. ~Ledger!Permitted(o)
    BY <1>5, <2>3, <2>4, <2>5, <2>6 DEF Reading
  <2>. QED  BY <1>0, <1>1, <2>2, <2>7, OpIsNext DEF Ledger!Throw
<1>. QED  BY <1>3, <1>4, <1>5

\* A good dispatch is the whole transaction, and a bad one none.
LEMMA DispatchThere ==
  ASSUME Base, NEW o \in Ops, OpCounts(o), Dispatch(o)
  PROVE  Ledger!Next
<1>0. /\ UNCHANGED <<answer, candidates>>
      /\ \A p \in Ops \cup Reads : p # o => pc'[p] = pc[p]
      /\ pc[o] = "sent" /\ pc'[o] = "settled"
      /\ \A p \in Ops : p # o => errors'[p] = errors[p]
      /\ errors'[o] = ErrorsOf(o) /\ changes'[o] = changes[o]
      /\ ErrorsOf(o) = {} => Applied(o)
      /\ ErrorsOf(o) # {} => UNCHANGED <<pallet, changes>>
  BY DispatchIs
<1>1. Outcome(o) = "running"
  BY <1>0, OutcomeIs DEF Running
<1>2. CASE ErrorsOf(o) # {}
  <2>1. Outcome(o)' = "failed"
    BY <1>0, <1>2, NextOutcomeIs
  <2>2. Ledger!Goto(o, "running", "failed")
    BY <1>0, <1>1, <2>1, GoesTo
  <2>3. ~Ledger!Permitted(o) \/ Ledger!Overtaken(o)
    BY <1>0, <1>2, CountsDispatch, RefusedForReason
  <2>4. UNCHANGED Ledger!holdings
    BY <1>0, <1>2, SameHoldings DEF pallet
  <2>. QED  BY <1>0, <1>2, <2>2, <2>3, <2>4, OpIsNext DEF Ledger!Fail
<1>3. CASE ErrorsOf(o) = {}
  <2>. DEFINE k == Collator[o]
  <2>. /\ k \in Collators /\ bond \in [Collators -> Nat] /\ compounding \in [Collators -> 0 .. 100]
       /\ o \in Delegates \cup BondMores => Amount[o] \in Nat
       /\ MinDelegation \in Nat \ {0} /\ Free \in Nat
    BY Constants DEF Base, TypeOK, PalletTypeOK
  <2>1. Outcome(o)' = "good"
    BY <1>0, <1>3, NextOutcomeIs
  <2>2. Ledger!Goto(o, "running", "good")
    BY <1>0, <1>1, <2>1, GoesTo
  <2>3. Ledger!Disturb({o})
    BY <1>3, DisturbedThere DEF Dispatch
  <2>4. ASSUME o \in Delegates \cup BondMores
        PROVE  Ledger!Put(o) /\ bond' = [bond EXCEPT ![k] = bond[k] + Amount[o]]
    <3>1. bond' = [bond EXCEPT ![k] = bond[k] + Amount[o]]
      BY <1>0, <1>3, <2>4, AppliedIs DEF Bond
    <3>2. bond[k] + Amount[o] \in Nat
      BY <2>4
    <3>3. Staked' = Staked - bond[k] + (bond[k] + Amount[o]) /\ Staked \in Nat
      BY <3>1, <3>2, TotalsAre
    <3>4. Free - Staked' = Free - Staked - Amount[o]
      BY <2>4, <3>3
    <3>. QED  BY <3>1, <3>4 DEF Ledger!Put
  <2>5. CASE o \in Delegates
    <3>1. Ledger!MayDelegate(o)
      BY <1>3, <2>5, GoodIsPermitted
    <3>2. Ledger!Compound(o)
      BY <1>0, <1>3, <2>5, AppliedIs DEF SetCompounding, Ledger!Compound
    <3>3. bond[k] = 0 /\ bond[k] + Amount[o] > 0 /\ bond[k] + Amount[o] \in Nat
      BY <2>5, <3>1 DEF Ledger!MayDelegate
    <3>4. Cardinality(Delegated)' = Cardinality(Delegated) + 1
      BY <2>4, <2>5, <3>3, TotalsAre
    <3>. QED  BY <1>0, <2>2, <2>3, <2>4, <2>5, <3>1, <3>2, <3>4, OpIsNext DEF Ledger!Succeed
  <2>6. CASE o \in SetAutos
    <3>1. Ledger!MaySetAuto(o)
      BY <1>3, <2>6, GoodIsPermitted
    <3>2. Ledger!Compound(o) /\ UNCHANGED bond
      BY <1>0, <1>3, <2>6, AppliedIs DEF SetCompounding, Ledger!Compound
    <3>3. Staked' = Staked /\ Cardinality(Delegated)' = Cardinality(Delegated)
      BY <3>2 DEF Staked, Delegated
    <3>. QED  BY <1>0, <2>2, <2>3, <2>6, <3>1, <3>2, <3>3, OpIsNext DEF Ledger!Succeed
  <2>7. CASE o \in BondMores
    <3>1. Ledger!MayBondMore(o) /\ UNCHANGED compounding
      BY <1>0, <1>3, <2>7, GoodIsPermitted, AppliedIs
    <3>2. bond[k] > 0 /\ bond[k] + Amount[o] > 0 /\ bond[k] + Amount[o] \in Nat
      BY <2>7, <3>1 DEF Ledger!MayBondMore
    <3>3. Cardinality(Delegated)' = Cardinality(Delegated)
      BY <2>4, <2>7, <3>2, TotalsAre
    <3>. QED  BY <1>0, <2>2, <2>3, <2>4, <2>7, <3>1, <3>3, OpIsNext DEF Ledger!Succeed
  <2>. QED  BY <2>5, <2>6, <2>7 DEF Ops
<1>. QED  BY <1>2, <1>3

LEMMA ReadThere ==
  ASSUME Base, NEW r \in Reads, Read(r)
  PROVE  Ledger!Next
<1>1. /\ pc[r] = "idle" /\ pc'[r] = "settled" /\ r \notin Ops
      /\ \A p \in Ops \cup Reads : p # r => pc'[p] = pc[p]
      /\ UNCHANGED <<pallet, errors, changes>>
      /\ \A d \in After[r] : pc[d] = "settled"
  BY Constants DEF Read, Goto, Base, TypeOK
<1>2. Outcome(r) = "idle" /\ Outcome(r)' = "good"
  BY <1>1, OutcomeIs, NextOutcomeIs
<1>3. Ledger!Goto(r, "idle", "good") /\ Ledger!Awaited(r)
  BY <1>1, <1>2, GoesTo, AwaitedThere
<1>4. UNCHANGED Ledger!holdings
  BY <1>1, SameHoldings DEF pallet
<1>5. Ledger!Read(r)
  BY <1>1, <1>3, <1>4 DEF Read, Found, Ledger!Read, Ledger!Found
<1>6. r \in Ledger!Reads
  BY DEF Reads, Ledger!Reads
<1>. QED  BY <1>5, <1>6 DEF Ledger!Next

LEMMA OthersThere ==
  ASSUME Base, Others
  PROVE  Ledger!Next
<1>1. UNCHANGED <<pc, errors, answer>> /\ Ledger!Disturb({})
  BY DisturbedThere DEF Others
<1>2. UNCHANGED State
  BY <1>1 DEF State, Outcome
<1>3. PICK k \in Collators : \/ \E auto \in BOOLEAN : Join(k, auto) \/ Leave(k, auto)
                             \/ TurnAuto(k) \/ CandidateLeaves(k)
  BY DEF Others, OtherMove
<1>4. CASE CandidateLeaves(k)
  <2>. bond \in [Collators -> Nat] /\ Free \in Nat /\ Cardinality(Delegated) \in Nat
    BY Constants, DelegatedFinite DEF Base, TypeOK, PalletTypeOK
  <2>1. /\ k \in candidates /\ candidates' = candidates \ {k}
        /\ bond' = [bond EXCEPT ![k] = 0] /\ compounding' = [compounding EXCEPT ![k] = 0]
    BY <1>4 DEF CandidateLeaves
  <2>2. Staked' = Staked - bond[k] + 0 /\ Staked \in Nat
    BY <2>1, TotalsAre
  <2>3. Free - Staked' = (Free - Staked) + bond[k]
    BY <2>2
  <2>4. Cardinality(Delegated)' =
          IF bond[k] > 0 THEN Cardinality(Delegated) - 1 ELSE Cardinality(Delegated)
    <3>1. 0 \in Nat /\ ~(0 > 0)
      OBVIOUS
    <3>2. bond[k] > 0 => Cardinality(Delegated)' = Cardinality(Delegated) - 1
      BY <2>1, <3>1, TotalsAre
    <3>3. ~(bond[k] > 0) => Cardinality(Delegated)' = Cardinality(Delegated)
      BY <2>1, <3>1, TotalsAre
    <3>. QED  BY <3>2, <3>3
  <2>5. Ledger!Close(k)
    BY <1>1, <1>2, <2>1, <2>3, <2>4 DEF Ledger!Close, State
  <2>. QED  BY <2>5 DEF Ledger!Next
<1>5. CASE ~CandidateLeaves(k)
  <2>1. UNCHANGED <<candidates, bond, compounding>>
    BY <1>3, <1>5 DEF Join, Leave, TurnAuto
  <2>2. Ledger!Stir
    BY <1>1, <1>2, <2>1, SameHoldings DEF Ledger!Stir, State
  <2>. QED  BY <2>2 DEF Ledger!Next
<1>. QED  BY <1>4, <1>5

LEMMA LedgerInit == Init => Ledger!Init
<1>. SUFFICES ASSUME Init PROVE Ledger!Init
  OBVIOUS
<1>1. bond = [k \in Collators |-> 0] /\ bond \in [Collators -> Nat] /\ IsFiniteSet(Collators)
  BY Constants DEF Init, PalletInit
<1>2. Delegated = {} /\ Cardinality(Delegated) = 0
  BY <1>1, FS_EmptySet DEF Delegated
<1>3. Staked = 0
  <2>1. Staked = SumFunctionOnSet(bond, Collators)
    BY <1>1 DEF Staked, SumFunction
  <2>2. SumFunctionOnSet(bond, Collators) = 0
    BY <1>1, SumOfZeros
  <2>. QED  BY <2>1, <2>2
<1>4. Free - Staked = Free
  BY <1>3, Constants
<1>5. State = [o \in Ops \cup Reads |-> "idle"]
  BY OutcomeIs DEF Init, State
<1>6. Ops = Ledger!Ops /\ Reads = Ledger!Reads
  BY DEF Ops, Reads, Ledger!Ops, Ledger!Reads
<1>. QED  BY <1>2, <1>4, <1>5, <1>6 DEF Init, PalletInit, Ledger!Init, State

(***************************************************************************)
(* ImplementsStakingLedger: delegateWithAutoCompound, setAutoCompound and  *)
(* bondMore (oak.ts lines 381 to 492), each with its queries and with what *)
(* others change between them, are transactions on what the account holds: *)
(* they take effect as a whole and move what they stake out of its         *)
(* balance; they throw only when they would not be permitted; and they     *)
(* fail otherwise only when changes of the staking state overtook them.    *)
(***************************************************************************)
THEOREM Implements == Spec => ImplementsStakingLedger
<1>1. Counts /\ [Next]_vars => [Ledger!Next]_(Ledger!vars)
  <2>. SUFFICES ASSUME Counts, [Next]_vars PROVE Ledger!Next \/ LedgerStays
    BY DEF LedgerStays
  <2>. Base /\ \A o \in Ops : OpCounts(o)
    BY DEF Counts
  <2>1. CASE Others
    BY <2>1, OthersThere
  <2>2. ASSUME NEW o \in Ops, Reading(o) PROVE Ledger!Next \/ LedgerStays
    BY <2>2, ReadingThere
  <2>3. ASSUME NEW o \in Ops, Dispatch(o) PROVE Ledger!Next
    BY <2>3, DispatchThere
  <2>4. ASSUME NEW r \in Reads, Read(r) PROVE Ledger!Next
    BY <2>4, ReadThere
  <2>5. CASE UNCHANGED vars
    <3>1. UNCHANGED <<candidates, bond, compounding, changes, answer, pc, errors>>
      BY <2>5 DEF vars, pallet
    <3>2. UNCHANGED Ledger!holdings /\ \A o \in Ops \cup Reads : Outcome(o)' = Outcome(o)
      BY <3>1, SameHoldings, NextOutcomeIs
    <3>. QED  BY <3>1, <3>2, StaysThere
  <2>. QED  BY <2>1, <2>2, <2>3, <2>4, <2>5 DEF Next, OpStep, Reading
<1>. QED  BY <1>1, LedgerInit, CountsInvariant, PTL DEF Spec, ImplementsStakingLedger, Ledger!Spec
=============================================================================
