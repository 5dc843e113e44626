---------------------------- MODULE SendExtrinsic ----------------------------
(***************************************************************************)
(* sendExtrinsic of packages/adapter/src/utils.ts: the promise it returns  *)
(* and the status callback it hands to signAndSend, for several calls that *)
(* may overlap, on one node.                                               *)
(*                                                                         *)
(* The executor of the promise calls signAndSend with nonce -1 and neither *)
(* awaits nor catches it: the nonce is read from the node (Call), the      *)
(* transaction is signed and submitted later (Submit, SubmitRejected).     *)
(* The callback (Deliver) logs failed dispatches and resolves on the       *)
(* Finalized status only; nothing rejects.                                 *)
(***************************************************************************)
EXTENDS TxNode

CONSTANTS
  After,   \* After[c]: the calls whose results the caller awaits before c
  Pending  \* a promise that has not settled

Result == [blockHash : Blocks, events : Outcome \cup {Absent}]

ASSUME AfterAssumption ==
  /\ After \in [Calls -> SUBSET Calls]
  /\ Pending \notin Result

VARIABLES
  pc,       \* pc[c]: how far signAndSend has come
  promise,  \* promise[c]: the promise sendExtrinsic returned for c
  reported  \* reported[c]: blocks whose failed dispatch of c was logged

callVars == <<pc, promise, reported>>
vars == <<poolVars, chainVars, callVars>>

TypeOK ==
  /\ NodeTypeOK
  /\ pc \in [Calls -> {"idle", "signing", "watching", "rejected"}]
  /\ promise \in [Calls -> {Pending} \cup Result]
  /\ reported \in [Calls -> SUBSET Blocks]

Init ==
  /\ NodeInit
  /\ pc = [c \in Calls |-> "idle"]
  /\ promise = [c \in Calls |-> Pending]
  /\ reported = [c \in Calls |-> {}]

Resolved(c) == promise[c] # Pending
-----------------------------------------------------------------------------
\* The caller invokes sendExtrinsic, and the node answers the nonce query.
Call(c) ==
  /\ pc[c] = "idle"
  /\ \A d \in After[c] : Resolved(d)
  /\ pc' = [pc EXCEPT ![c] = "signing"]
  /\ \E n \in 0 .. Cardinality(Calls) :
       IsNextIndex(Signer[c], n) /\ nonce' = [nonce EXCEPT ![c] = n]
  /\ UNCHANGED <<pool, watched, stream, chainVars, promise, reported>>

\* The signed transaction reaches the pool, and the subscription opens.
Submit(c) ==
  /\ pc[c] = "signing"
  /\ Accept(c)
  /\ pc' = [pc EXCEPT ![c] = "watching"]
  /\ UNCHANGED <<promise, reported>>

\* The promise of signAndSend rejects: the node refuses the transaction, or
\* the signer or the socket fails.  No handler is attached to it.
SubmitRejected(c) ==
  /\ pc[c] = "signing"
  /\ Refusable(c) \/ Faults
  /\ pc' = [pc EXCEPT ![c] = "rejected"]
  /\ UNCHANGED <<poolVars, chainVars, promise, reported>>

\* Mutant: the filter picks ExtrinsicSuccess.
SuccessIn(c, status) ==
  IF status.type \in {"InBlock", "Finalized"} /\ body[status.block][c] = "ok"
    THEN {status.block} ELSE {}

\* ExtrinsicFailed events are logged in InBlock and in Finalized statuses.
FailedIn(c, status) ==
  IF status.type \in {"InBlock", "Finalized"} /\ body[status.block][c] = "failed"
    THEN {status.block} ELSE {}

\* Mutants: resolve() in the InBlock branch, resolve() for successful
\* dispatches only, and resolve() with the hash alone.
SettleInBlock(c, status) ==
  IF status.type \in {"InBlock", "Finalized"} /\ ~Resolved(c)
    THEN [blockHash |-> status.block, events |-> body[status.block][c]]
    ELSE promise[c]

SettleIfOk(c, status) ==
  IF /\ status.type = "Finalized" /\ ~Resolved(c)
     /\ body[status.block][c] = "ok"
    THEN [blockHash |-> status.block, events |-> "ok"]
    ELSE promise[c]

SettleHash(c, status) ==
  IF status.type = "Finalized" /\ ~Resolved(c)
    THEN [blockHash |-> status.block]
    ELSE promise[c]

\* resolve() has an effect the first time it is called.
Settle(c, status) ==
  IF status.type = "Finalized" /\ ~Resolved(c)
    THEN [blockHash |-> status.block, events |-> body[status.block][c]]
    ELSE promise[c]

\* One invocation of the callback.
Deliver(c) ==
  /\ stream[c] # <<>>
  /\ stream' = [stream EXCEPT ![c] = Tail(@)]
  /\ reported' = [reported EXCEPT ![c] = @ \cup FailedIn(c, Head(stream[c]))]
  /\ promise' = [promise EXCEPT ![c] = Settle(c, Head(stream[c]))]
  /\ UNCHANGED <<nonce, pool, watched, chainVars, pc>>

NodeStep ==
  /\ \/ \E S \in SUBSET pool : Author(S)
     \/ Retract
     \/ Finalize
     \/ \E c \in Calls : EndTx(c)
     \/ Disconnect
  /\ UNCHANGED callVars

CallStep(c) == Call(c) \/ Submit(c) \/ SubmitRejected(c) \/ Deliver(c)

Next == NodeStep \/ \E c \in Calls : CallStep(c)

Spec == Init /\ [][Next]_vars

\* A running node answers, builds blocks from its pool and finalizes them,
\* and the event loop runs the callback.
Fairness ==
  /\ \A c \in Calls : WF_vars(Submit(c) \/ SubmitRejected(c))
  /\ \A c \in Calls : WF_vars(Deliver(c))
  /\ \A c \in Calls : WF_vars(/\ \E S \in SUBSET pool : c \in S /\ Author(S)
                              /\ UNCHANGED callVars)
  /\ WF_vars(Finalize /\ UNCHANGED callVars)

FairSpec == Spec /\ Fairness
-----------------------------------------------------------------------------
(***************************************************************************)
(* A promise only settles with the outcome of its own transaction in a     *)
(* block that is final: the reported block holds the transaction, is on    *)
(* the finalized part of the best chain, and the events are those of that  *)
(* block, whatever forks held the transaction before (lines 58 to 60).     *)
(***************************************************************************)
ResolvedIsFinal ==
  \A c \in Calls : Resolved(c) =>
    /\ Finalized(promise[c].blockHash)
    /\ c \in Contents(promise[c].blockHash)
    /\ promise[c].events = body[promise[c].blockHash][c]

(***************************************************************************)
(* A caller that awaits one call before it makes the next gets them onto   *)
(* the chain in that order, in different blocks, on every fork: the result *)
(* it awaits is final.                                                     *)
(***************************************************************************)
AwaitOrdersChain ==
  \A c \in Calls : \A d \in After[c] :
    \A i, j \in DOMAIN chain :
      c \in Contents(chain[i]) /\ d \in Contents(chain[j]) => j < i

(***************************************************************************)
(* With nonce -1 (line 30) an awaited transaction and a later one of the   *)
(* same account never carry the same nonce, even across a fork.            *)
(***************************************************************************)
AwaitedNonceIsUsed ==
  \A c \in Calls : \A d \in After[c] :
    pc[c] # "idle" /\ Signer[c] = Signer[d] => nonce[d] < nonce[c]

(***************************************************************************)
(* A failed dispatch does not settle silently: when a call settles with an *)
(* ExtrinsicFailed event, the error of that very block has been logged     *)
(* (lines 32 to 56), and nothing is logged for a block it did not fail in. *)
(***************************************************************************)
FailureIsReported ==
  \A c \in Calls :
    /\ Resolved(c) /\ promise[c].events = "failed"
         => promise[c].blockHash \in reported[c]
    /\ \A b \in reported[c] : body[b][c] = "failed"

(***************************************************************************)
(* Overlapping calls of one account, on a node that loses nothing: a call  *)
(* settles, or the node gave it up: it refused the transaction or replaced *)
(* it by another with the same nonce.                                      *)
(***************************************************************************)
GivenUp(c) == pc[c] = "rejected" \/ (pc[c] = "watching" /\ c \notin watched)

SettlesOrGivenUp ==
  \A c \in Calls : pc[c] # "idle" ~> Resolved(c) \/ (GivenUp(c) /\ ~InChain(c))

(***************************************************************************)
(* "@returns Operation result: {events, blockHash}" (utils.ts line 20):    *)
(* a call that is made returns its result.                                 *)
(***************************************************************************)
EveryCallReturns == \A c \in Calls : pc[c] # "idle" ~> Resolved(c)

(***************************************************************************)
(* The abstract specification, with the outcomes of finalized blocks as    *)
(* its record of final outcomes.                                           *)
(***************************************************************************)
FinalOutcome(c) ==
  IF \E i \in 1 .. fin : c \in Contents(chain[i])
    THEN LET i == CHOOSE i \in 1 .. fin : c \in Contents(chain[i])
         IN  [blockHash |-> chain[i], events |-> body[chain[i]][c]]
    ELSE Pending

Abstract == INSTANCE TxOutcome WITH
  Results <- Result,
  made <- {c \in Calls : pc[c] # "idle"},
  final <- [c \in Calls |-> FinalOutcome(c)]

\* sendExtrinsic keeps its promise to its caller, with or without faults.
ImplementsTxOutcome == Abstract!Spec
=============================================================================
