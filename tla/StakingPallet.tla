--------------------------- MODULE StakingPallet ---------------------------
(***************************************************************************)
(* The parachainStaking pallet of the chain, as far as OakAdapter          *)
(* (packages/adapter/src/chains/oak.ts) depends on it: the storage its     *)
(* queries read, and the dispatch of the three extrinsics it sends.  The   *)
(* pallet is not part of the repository; it is modelled from the storage,  *)
(* arguments and error names of the api augmentation.                      *)
(*                                                                         *)
(* One account is followed; the delegations of the others are counts.      *)
(***************************************************************************)
EXTENDS Integers, FiniteSets, Functions

CONSTANTS
  Collators,
  Free,                        \* free balance of the account
  MinDelegation,
  MaxDelegationsPerDelegator,
  Crowd,                       \* Crowd[k]: other delegations of k at the start
  MaxMoves                     \* bound: staking moves of others

ASSUME PalletAssumption ==
  /\ IsFiniteSet(Collators)
  /\ Free \in Nat /\ MinDelegation \in Nat \ {0}
  /\ MaxDelegationsPerDelegator \in Nat /\ MaxMoves \in Nat
  /\ Crowd \in [Collators -> Nat]

VARIABLES
  candidates,   \* the collators with candidateInfo
  bond,         \* bond[k]: what the account delegates to k, 0 if nothing
  compounding,  \* compounding[k]: percentage the account auto-compounds, 0 if none
  others,       \* others[k]: delegations of other accounts to k
  autoOthers,   \* autoOthers[k]: those of them that auto-compound
  moves         \* moves of others so far

pallet == <<candidates, bond, compounding, others, autoOthers>>

\* Those that the calls of the three operations can meet here.  Left out are
\* CannotDelegateIfLeaving and PendingDelegationRevoke, which take a request
\* to leave that no code sends, and
\* CannotDelegateLessThanOrEqualToLowestBottomWhenFull: no collator is full.
Errors == {"InsufficientBalance", "DelegationBelowMin",
           "ExceedMaxDelegationsPerDelegator", "AlreadyDelegatedCandidate",
           "CandidateDNE", "DelegatorDNE", "DelegationDNE",
           "TooLowDelegationCount", "TooLowCandidateDelegationCount",
           "TooLowCandidateAutoCompoundingDelegationCount"}

Hints == [delegations : Nat, candidate : Nat, auto : Nat]

PalletTypeOK ==
  /\ candidates \subseteq Collators
  /\ bond \in [Collators -> Nat]
  /\ compounding \in [Collators -> 0 .. 100]
  /\ others \in [Collators -> Nat]
  /\ autoOthers \in [Collators -> Nat]
  /\ moves \in 0 .. MaxMoves

PalletInit ==
  /\ candidates = Collators
  /\ bond = [k \in Collators |-> 0]
  /\ compounding = [k \in Collators |-> 0]
  /\ others = Crowd
  /\ autoOthers = [k \in Collators |-> 0]
  /\ moves = 0
-----------------------------------------------------------------------------
Delegated == {k \in Collators : bond[k] > 0}
Staked == SumFunction(bond)
DelegationCount(k) == others[k] + (IF k \in Delegated THEN 1 ELSE 0)
AutoCompoundingLength(k) == autoOthers[k] + (IF compounding[k] > 0 THEN 1 ELSE 0)

\* The errors that apply to delegateWithAutoCompound(k, amount, percentage, h).
DelegateErrors(k, amount, percentage, h) == {e \in Errors :
  \/ e = "InsufficientBalance" /\ Free - Staked < amount
  \/ e = "DelegationBelowMin" /\ amount < MinDelegation
  \/ e = "ExceedMaxDelegationsPerDelegator"
      /\ Cardinality(Delegated) >= MaxDelegationsPerDelegator
  \/ e = "AlreadyDelegatedCandidate" /\ k \in Delegated
  \/ e = "CandidateDNE" /\ k \notin candidates
  \/ e = "TooLowDelegationCount" /\ h.delegations < Cardinality(Delegated)
  \/ e = "TooLowCandidateDelegationCount" /\ h.candidate < DelegationCount(k)
  \/ e = "TooLowCandidateAutoCompoundingDelegationCount"
      /\ percentage # 0 /\ h.auto < AutoCompoundingLength(k)}

\* The errors that apply to setAutoCompound(k, percentage, h).
SetAutoErrors(k, h) == {e \in Errors :
  \/ e = "DelegatorDNE" /\ Delegated = {}
  \/ e = "DelegationDNE" /\ Delegated # {} /\ k \notin Delegated
  \/ e = "TooLowDelegationCount" /\ h.delegations < Cardinality(Delegated)
  \/ e = "TooLowCandidateAutoCompoundingDelegationCount"
      /\ h.auto < AutoCompoundingLength(k)}

\* The errors that apply to delegatorBondMore(k, more).
BondMoreErrors(k, more) == {e \in Errors :
  \/ e = "InsufficientBalance" /\ Free - Staked < more
  \/ e = "DelegatorDNE" /\ Delegated = {}
  \/ e = "DelegationDNE" /\ Delegated # {} /\ k \notin Delegated}

\* What the extrinsics change when none of their errors applies.
SetCompounding(k, percentage) == compounding' = [compounding EXCEPT ![k] = percentage]

Bond(k, amount) == bond' = [bond EXCEPT ![k] = @ + amount]
-----------------------------------------------------------------------------
(***************************************************************************)
(* Moves of others: an account delegates to k, with or without             *)
(* auto-compounding, or revokes; one that delegates turns auto-compounding *)
(* on; a candidate leaves, and its delegations end.                        *)
(***************************************************************************)
Move == moves < MaxMoves /\ moves' = moves + 1

Join(k, auto) ==
  /\ Move
  /\ k \in candidates
  /\ others' = [others EXCEPT ![k] = @ + 1]
  /\ autoOthers' = [autoOthers EXCEPT ![k] = @ + (IF auto THEN 1 ELSE 0)]
  /\ UNCHANGED <<candidates, bond, compounding>>

Leave(k, auto) ==
  /\ Move
  /\ IF auto THEN autoOthers[k] > 0 ELSE others[k] > autoOthers[k]
  /\ others' = [others EXCEPT ![k] = @ - 1]
  /\ autoOthers' = [autoOthers EXCEPT ![k] = @ - (IF auto THEN 1 ELSE 0)]
  /\ UNCHANGED <<candidates, bond, compounding>>

TurnAuto(k) ==
  /\ Move
  /\ others[k] > autoOthers[k]
  /\ autoOthers' = [autoOthers EXCEPT ![k] = @ + 1]
  /\ UNCHANGED <<candidates, bond, compounding, others>>

CandidateLeaves(k) ==
  /\ Move
  /\ k \in candidates
  /\ candidates' = candidates \ {k}
  /\ bond' = [bond EXCEPT ![k] = 0]
  /\ compounding' = [compounding EXCEPT ![k] = 0]
  /\ others' = [others EXCEPT ![k] = 0]
  /\ autoOthers' = [autoOthers EXCEPT ![k] = 0]

OtherMove == \E k \in Collators :
  \/ \E auto \in BOOLEAN : Join(k, auto) \/ Leave(k, auto)
  \/ TurnAuto(k)
  \/ CandidateLeaves(k)
=============================================================================
