------------------------------- MODULE TxNode -------------------------------
(***************************************************************************)
(* The node behind ApiPromise, as far as sendExtrinsic                     *)
(* (packages/adapter/src/utils.ts) depends on it: it answers               *)
(* system_accountNextIndex, keeps a pool of submitted transactions, builds *)
(* and may retract blocks, finalizes them, and tells the subscriber of     *)
(* author_submitAndWatchExtrinsic what happens to its transaction.         *)
(*                                                                         *)
(* The node is not part of the repository.  It is modelled from the        *)
(* statuses the callback of sendExtrinsic looks at and from the nonce      *)
(* option it passes.  A transaction is named by the call that signed it.   *)
(* Ready, Broadcast, Future and Retracted notifications are left out: the  *)
(* callback does nothing with them.                                        *)
(***************************************************************************)
EXTENDS Integers, Sequences, FiniteSets

CONSTANTS
  Calls,      \* invocations of sendExtrinsic, each signing one transaction
  Signer,     \* Signer[c]: the account of the keyring pair of call c
  Outcomes,   \* Outcomes[c]: how the dispatch of c's transaction may end
  MaxBlocks,  \* bound: blocks ever built, on all forks
  MaxReorgs,  \* bound: blocks ever retracted
  Faults      \* whether the node drops transactions and connections

Absent == "absent"
Outcome == {"ok", "failed", "innerFailed"}
Blocks == 1 .. MaxBlocks

ASSUME NodeAssumption ==
  /\ IsFiniteSet(Calls)
  /\ MaxBlocks \in Nat
  /\ MaxReorgs \in Nat
  /\ Faults \in BOOLEAN
  /\ Outcomes \in [Calls -> SUBSET Outcome]

VARIABLES
  nonce,    \* nonce[c]: the nonce c was signed with
  pool,     \* the submitted transactions that are not in the best chain
  watched,  \* the transactions whose subscription is still open
  stream,   \* stream[c]: notifications on the way to the callback of c
  body,     \* body[b][c]: the outcome of c in block b, or Absent
  built,    \* number of blocks built; block b exists iff b <= built
  chain,    \* the best chain: a sequence of blocks
  fin,      \* height of the last finalized block
  reorgs    \* number of blocks retracted

poolVars == <<nonce, pool, watched, stream>>
chainVars == <<body, built, chain, fin, reorgs>>

Notification == [type : {"InBlock", "Finalized"}, block : Blocks]
                  \cup [type : {"Ended"}]

NodeTypeOK ==
  /\ nonce \in [Calls -> Nat]
  /\ pool \subseteq Calls
  /\ watched \subseteq Calls
  /\ stream \in [Calls -> Seq(Notification)]
  /\ body \in [Blocks -> [Calls -> Outcome \cup {Absent}]]
  /\ built \in 0 .. MaxBlocks
  /\ chain \in Seq(Blocks)
  /\ fin \in 0 .. Len(chain)
  /\ reorgs \in Nat

NodeInit ==
  /\ nonce = [c \in Calls |-> 0]
  /\ pool = {}
  /\ watched = {}
  /\ stream = [c \in Calls |-> <<>>]
  /\ body = [b \in Blocks |-> [c \in Calls |-> Absent]]
  /\ built = 0
  /\ chain = <<>>
  /\ fin = 0
  /\ reorgs = 0
-----------------------------------------------------------------------------
Contents(b) == {c \in Calls : body[b][c] # Absent}

InChain(c) == \E i \in DOMAIN chain : c \in Contents(chain[i])

Finalized(b) == \E i \in 1 .. fin : chain[i] = b

(***************************************************************************)
(* The nonce the best chain expects next from account a, and the index     *)
(* system_accountNextIndex answers: past the chain and past every ready    *)
(* transaction of a in the pool.                                           *)
(***************************************************************************)
AccountNonce(a) == Cardinality({c \in Calls : Signer[c] = a /\ InChain(c)})

PoolNonces(a) == {nonce[c] : c \in {d \in pool : Signer[d] = a}}

IsNextIndex(a, n) ==
  /\ n >= AccountNonce(a)
  /\ n \notin PoolNonces(a)
  /\ AccountNonce(a) .. (n - 1) \subseteq PoolNonces(a)

Clashing(c) == {d \in pool : Signer[d] = Signer[c] /\ nonce[d] = nonce[c]}

\* The notification st for every call of C whose subscription is open.
Notify(C, st) ==
  stream' = [c \in Calls |-> IF c \in C \cap watched THEN Append(stream[c], st)
                                                     ELSE stream[c]]

(***************************************************************************)
(* The pool takes c unless its nonce is used up.  Of two transactions with *)
(* the same nonce it keeps one: it refuses c, or c usurps the other.       *)
(***************************************************************************)
Accept(c) ==
  /\ nonce[c] >= AccountNonce(Signer[c])
  /\ pool' = (pool \ Clashing(c)) \cup {c}
  /\ Notify(Clashing(c), [type |-> "Ended"])
  /\ watched' = (watched \ Clashing(c)) \cup {c}
  /\ UNCHANGED <<nonce, chainVars>>

Refusable(c) ==
  \/ nonce[c] < AccountNonce(Signer[c])
  \/ Clashing(c) # {}
-----------------------------------------------------------------------------
(***************************************************************************)
(* A block holds one or more pool transactions; those of an account        *)
(* continue its nonces without a gap.                                      *)
(***************************************************************************)
Includable(S) ==
  \A c \in S : \A n \in AccountNonce(Signer[c]) .. nonce[c] :
    \E d \in S : Signer[d] = Signer[c] /\ nonce[d] = n

Author(S) ==
  /\ built < MaxBlocks
  /\ S # {} /\ S \subseteq pool /\ Includable(S)
  /\ \A c \in S : nonce[c] >= AccountNonce(Signer[c])
  /\ built' = built + 1
  /\ \E out \in [S -> Outcome] :
       /\ \A c \in S : out[c] \in Outcomes[c]
       /\ body' = [body EXCEPT ![built + 1] =
                     [c \in Calls |-> IF c \in S THEN out[c] ELSE Absent]]
  /\ chain' = Append(chain, built + 1)
  /\ pool' = pool \ S
  /\ Notify(S, [type |-> "InBlock", block |-> built + 1])
  /\ UNCHANGED <<nonce, watched, fin, reorgs>>

\* A fork without the head becomes the best chain; its transactions return
\* to the pool.
Retract ==
  /\ reorgs < MaxReorgs
  /\ Len(chain) > fin
  /\ reorgs' = reorgs + 1
  /\ pool' = pool \cup Contents(chain[Len(chain)])
  /\ chain' = SubSeq(chain, 1, Len(chain) - 1)
  /\ UNCHANGED <<nonce, watched, stream, body, built, fin>>

Finalize ==
  /\ fin < Len(chain)
  /\ fin' = fin + 1
  /\ Notify(Contents(chain[fin + 1]),
            [type |-> "Finalized", block |-> chain[fin + 1]])
  /\ watched' = watched \ Contents(chain[fin + 1])
  /\ UNCHANGED <<nonce, pool, body, built, chain, reorgs>>

\* Dropped, Invalid (the pool forgets c) or FinalityTimeout (only the
\* subscription ends).
EndTx(c) ==
  /\ Faults
  /\ c \in watched
  /\ pool' = pool \ {c}
  /\ Notify({c}, [type |-> "Ended"])
  /\ watched' = watched \ {c}
  /\ UNCHANGED <<nonce, chainVars>>

\* The socket closes: author subscriptions are not taken up again and what
\* was on the way is lost, but the transactions stay in the pool.
Disconnect ==
  /\ Faults
  /\ watched # {}
  /\ watched' = {}
  /\ stream' = [c \in Calls |-> <<>>]
  /\ UNCHANGED <<nonce, pool, chainVars>>
=============================================================================
