--------------------- MODULE SendExtrinsic_order_proofs ---------------------
(***************************************************************************)
(* The order of awaited calls on the chain, their nonces, the reports of   *)
(* failures, and that sendExtrinsic implements TxOutcome: for every number *)
(* of calls, accounts and blocks, with and without faults.                 *)
(***************************************************************************)
EXTENDS SendExtrinsic_proofs

\* The transaction of c is in the block at height i of the best chain.
At(c, i) == i \in 1 .. Len(chain) /\ c \in Contents(chain[i])

LEMMA InChainAt ==
  ASSUME TypeOK
  PROVE  /\ Len(chain) \in Nat /\ fin \in 0 .. Len(chain)
         /\ \A c \in Calls : InChain(c) <=> \E i \in Nat : At(c, i)
<1>1. DOMAIN chain = 1 .. Len(chain) /\ Len(chain) \in Nat /\ fin \in 0 .. Len(chain)
  BY DEF TypeOK, NodeTypeOK
<1> QED BY <1>1 DEF InChain, At

\* A new block leaves those below it, and holds the transactions of S.
LEMMA AuthorAt ==
  ASSUME FinalInv, NEW S \in SUBSET pool, Author(S), NEW c \in Calls, NEW i \in Nat
  PROVE  At(c, i)' <=> At(c, i) \/ (i = Len(chain) + 1 /\ c \in S)
<1>1. /\ chain \in Seq(Blocks) /\ Len(chain) \in Nat /\ built + 1 \in Blocks
      /\ body \in [Blocks -> [Calls -> Outcome \cup {Absent}]]
  BY Constants DEF Author, FinalInv, TypeOK, NodeTypeOK, Blocks
<1>2. /\ Len(chain') = Len(chain) + 1 /\ chain'[Len(chain) + 1] = built + 1
      /\ \A j \in 1 .. Len(chain) : chain'[j] = chain[j] /\ chain[j] \in Blocks
  BY <1>1 DEF Author
<1>3. CASE i \in 1 .. Len(chain)
  <2>1. chain[i] # built + 1
    BY <1>1, <1>2, <1>3, Constants DEF FinalInv, ChainIsBuilt, TypeOK, NodeTypeOK, Blocks
  <2>2. body'[chain[i]] = body[chain[i]]
    BY <1>1, <1>2, <1>3, <2>1 DEF Author
  <2> QED BY <1>1, <1>2, <1>3, <2>2 DEF At, Contents
<1>4. CASE i = Len(chain) + 1
  <2>1. PICK out \in [S -> Outcome] : body'[built + 1] =
          [e \in Calls |-> IF e \in S THEN out[e] ELSE Absent]
    BY <1>1 DEF Author
  <2>2. body'[built + 1][c] # Absent <=> c \in S
    BY <2>1 DEF Outcome, Absent
  <2>3. i \in 1 .. Len(chain') /\ chain'[i] = built + 1 /\ ~At(c, i)
    BY <1>1, <1>2, <1>4 DEF At
  <2> QED BY <1>4, <2>2, <2>3 DEF At, Contents
<1>5. CASE i = 0 \/ i > Len(chain) + 1
  BY <1>1, <1>2, <1>5 DEF At
<1>6. i \in 1 .. Len(chain) \/ i = Len(chain) + 1 \/ i = 0 \/ i > Len(chain) + 1
  BY <1>1
<1> QED BY <1>3, <1>4, <1>5, <1>6

\* A retraction takes away the head, whose transactions return to the pool.
LEMMA RetractAt ==
  ASSUME FinalInv, Retract, NEW c \in Calls
  PROVE  /\ \A i \in Nat : At(c, i)' <=> At(c, i) /\ i # Len(chain)
         /\ c \in pool' <=> c \in pool \/ At(c, Len(chain))
<1>1. chain \in Seq(Blocks) /\ chain # <<>> /\ Len(chain) \in Nat \ {0}
  BY DEF FinalInv, Retract, TypeOK, NodeTypeOK
<1>2. /\ Len(chain') = Len(chain) - 1
      /\ \A i \in 1 .. Len(chain) - 1 : chain'[i] = chain[i]
  BY <1>1, WithoutHead DEF Retract
<1>3. ASSUME NEW i \in Nat
      PROVE  At(c, i)' <=> At(c, i) /\ i # Len(chain)
  BY <1>1, <1>2 DEF At, Contents, Retract
<1> QED BY <1>1, <1>3 DEF Retract, At

\* The other steps leave the chain and the blocks as they are.
LEMMA OtherAt ==
  ASSUME [Next]_vars, \A S \in SUBSET pool : ~Author(S), ~Retract
  PROVE  /\ UNCHANGED <<chain, body, built>>
         /\ \A c, i : At(c, i)' <=> At(c, i)
         /\ \A c : InChain(c)' <=> InChain(c)
<1>1. UNCHANGED <<chain, body, built>>
  BY DEF Next, NodeStep, CallStep, Call, Submit, Accept, SubmitRejected, Deliver,
     Finalize, EndTx, Disconnect, vars, chainVars
<1> QED BY <1>1 DEF At, InChain, Contents
-----------------------------------------------------------------------------
(***************************************************************************)
(* A call is in at most one block of the chain and never both there and in *)
(* the pool; only what was submitted is in either; and a call was made     *)
(* when those it awaits had settled.                                       *)
(***************************************************************************)
OnceInChain == \A c \in Calls : \A i, j \in Nat : At(c, i) /\ At(c, j) => i = j

PoolIsNew == \A c \in pool : \A i \in Nat : ~At(c, i)

Submitted(c) == c \in pool \/ \E i \in Nat : At(c, i)

OnlySubmitted == \A c \in Calls : Submitted(c) => pc[c] = "watching"

Awaited == \A c \in Calls : pc[c] # "idle" => \A d \in After[c] : Resolved(d)

InOrder ==
  \A c \in Calls : \A d \in After[c] : \A i, j \in Nat : At(c, i) /\ At(d, j) => j < i

OrderInv == FinalInv /\ OnceInChain /\ PoolIsNew /\ OnlySubmitted /\ Awaited /\ InOrder

LEMMA OrderInit == Init => OrderInv
<1> SUFFICES ASSUME Init PROVE OrderInv
  OBVIOUS
<1>1. \A c \in Calls : \A i \in Nat : ~At(c, i)
  BY DEF Init, NodeInit, At
<1>2. FinalInv
  BY FinalInit
<1> QED
  BY <1>1, <1>2, AfterAssumption DEF Init, NodeInit, OrderInv, OnceInChain, PoolIsNew,
     OnlySubmitted, Submitted, Awaited, InOrder

\* A call that has settled is in the final part of the chain, for good.
LEMMA ResolvedAt ==
  ASSUME FinalInv, NEW d \in Calls, Resolved(d)
  PROVE  \E k \in 1 .. fin : At(d, k)
<1>1. PICK k \in 1 .. fin : chain[k] = promise[d].blockHash
  BY DEF FinalInv, ResolvedIsFinal, Finalized
<1>2. k \in 1 .. Len(chain) /\ d \in Contents(chain[k])
  BY <1>1 DEF FinalInv, ResolvedIsFinal, TypeOK, NodeTypeOK
<1> QED BY <1>1, <1>2 DEF At

LEMMA ResolvedStays ==
  ASSUME TypeOK, [Next]_vars, NEW d \in Calls, Resolved(d)
  PROVE  promise'[d] = promise[d]
<1>1. ASSUME NEW c \in Calls, Deliver(c)
      PROVE  promise'[d] = promise[d]
  BY <1>1 DEF Deliver, Settle, Resolved, TypeOK
<1> QED
  BY <1>1 DEF Next, NodeStep, CallStep, Call, Submit, SubmitRejected, callVars, vars

\* What a step does to the pool.
LEMMA PoolStep ==
  ASSUME OrderInv, [Next]_vars, NEW c \in pool'
  PROVE  \/ c \in pool /\ \A S \in SUBSET pool : Author(S) => c \notin S
         \/ Retract /\ At(c, Len(chain)) /\ c \in Calls
         \/ Submit(c) /\ c \in Calls
<1>1. ASSUME NEW S \in SUBSET pool, Author(S)
      PROVE  c \in pool /\ c \notin S
  BY <1>1 DEF Author
<1>2. CASE c \in pool
  BY <1>1, <1>2
<1>3. ASSUME Retract, c \notin pool
      PROVE  At(c, Len(chain)) /\ c \in Calls
  <2>1. c \in Contents(chain[Len(chain)]) /\ c \in Calls
    BY <1>3 DEF Retract, Contents
  <2>2. Len(chain) \in 1 .. Len(chain)
    BY <1>3 DEF Retract, OrderInv, FinalInv, TypeOK, NodeTypeOK
  <2> QED BY <2>1, <2>2 DEF At
<1>4. ASSUME NEW d \in Calls, Submit(d), c \notin pool
      PROVE  c = d
  BY <1>4 DEF Submit, Accept
<1>5. CASE c \notin pool /\ ~Retract /\ \A d \in Calls : ~Submit(d)
  BY <1>1, <1>5 DEF Next, NodeStep, CallStep, Call, SubmitRejected, Deliver, Finalize,
     EndTx, Disconnect, vars, poolVars
<1> QED BY <1>2, <1>3, <1>4, <1>5

LEMMA OnceStep == OrderInv /\ [Next]_vars => OnceInChain'
<1> SUFFICES ASSUME OrderInv, [Next]_vars, NEW c \in Calls, NEW i \in Nat, NEW j \in Nat,
                    At(c, i)', At(c, j)'
             PROVE  i = j
  BY DEF OnceInChain
<1> USE DEF OrderInv, OnceInChain
<1>1. ASSUME NEW S \in SUBSET pool, Author(S)
      PROVE  i = j
  BY <1>1, AuthorAt DEF PoolIsNew
<1>2. ASSUME Retract
      PROVE  i = j
  BY <1>2, RetractAt
<1>3. CASE ~Retract /\ \A S \in SUBSET pool : ~Author(S)
  BY <1>3, OtherAt
<1> QED BY <1>1, <1>2, <1>3

LEMMA PoolNewStep == OrderInv /\ [Next]_vars => PoolIsNew'
<1> SUFFICES ASSUME OrderInv, [Next]_vars, NEW c \in pool', NEW i \in Nat, At(c, i)'
             PROVE  FALSE
  BY DEF PoolIsNew
<1>0. c \in Calls
  BY TypeStep DEF OrderInv, FinalInv, TypeOK, NodeTypeOK
<1> USE DEF OrderInv
<1>1. CASE c \in pool /\ \A S \in SUBSET pool : Author(S) => c \notin S
  <2>1. ASSUME NEW S \in SUBSET pool, Author(S)
        PROVE  FALSE
    BY <1>0, <1>1, <2>1, AuthorAt DEF PoolIsNew
  <2>2. ASSUME Retract
        PROVE  FALSE
    BY <1>0, <1>1, <2>2, RetractAt DEF PoolIsNew
  <2>3. CASE ~Retract /\ \A S \in SUBSET pool : ~Author(S)
    BY <1>1, <2>3, OtherAt DEF PoolIsNew
  <2> QED BY <2>1, <2>2, <2>3
<1>2. CASE Retract /\ At(c, Len(chain))
  <2>1. At(c, i) /\ i # Len(chain) /\ Len(chain) \in Nat
    BY <1>0, <1>2, RetractAt, InChainAt DEF FinalInv
  <2> QED BY <1>0, <1>2, <2>1 DEF OnceInChain
<1>3. CASE Submit(c)
  <2>1. pc[c] = "signing" /\ UNCHANGED <<chain, body>>
    BY <1>3 DEF Submit, Accept, chainVars
  <2>2. ~At(c, i)
    BY <1>0, <2>1 DEF OnlySubmitted, Submitted
  <2> QED BY <2>1, <2>2 DEF At, Contents
<1> QED BY <1>1, <1>2, <1>3, PoolStep

LEMMA SubmittedStep == OrderInv /\ [Next]_vars => OnlySubmitted'
<1> SUFFICES ASSUME OrderInv, [Next]_vars, NEW c \in Calls, Submitted(c)'
             PROVE  pc'[c] = "watching"
  BY DEF OnlySubmitted
<1> USE DEF OrderInv
<1>1. CASE Submitted(c)
  <2>1. pc[c] = "watching"
    BY <1>1 DEF OnlySubmitted
  <2> QED BY <2>1 DEF Next, NodeStep, CallStep, Call, Submit, SubmitRejected, Deliver,
          callVars, vars, FinalInv, TypeOK
<1>2. CASE Submit(c)
  BY <1>2 DEF Submit, FinalInv, TypeOK
<1>3. ASSUME NEW i \in Nat, At(c, i)', \A k \in Nat : ~At(c, k)
      PROVE  c \in pool
  <2>1. ASSUME NEW S \in SUBSET pool, Author(S)
        PROVE  c \in pool
    BY <1>3, <2>1, AuthorAt
  <2>2. ~Retract
    BY <1>3, RetractAt
  <2>3. CASE \A S \in SUBSET pool : ~Author(S)
    BY <1>3, <2>2, <2>3, OtherAt
  <2> QED BY <2>1, <2>3
<1>4. c \in pool' => Submitted(c) \/ Submit(c)
  <2>1. Len(chain) \in Nat
    BY InChainAt DEF FinalInv
  <2> QED BY <2>1, PoolStep DEF Submitted
<1> QED BY <1>1, <1>2, <1>3, <1>4 DEF Submitted

LEMMA AwaitedStep == OrderInv /\ [Next]_vars => Awaited'
<1> SUFFICES ASSUME OrderInv, [Next]_vars, NEW c \in Calls, pc'[c] # "idle", NEW d \in After[c]
             PROVE  Resolved(d)'
  BY DEF Awaited
<1>1. d \in Calls
  BY AfterAssumption
<1>2. Resolved(d)
  <2>1. CASE pc[c] # "idle"
    BY <2>1 DEF OrderInv, Awaited
  <2>2. ASSUME NEW e \in Calls, Call(e), pc[c] = "idle"
        PROVE  Resolved(d)
    BY <2>2 DEF Call, OrderInv, FinalInv, TypeOK
  <2> QED
    BY <2>1, <2>2 DEF Next, NodeStep, CallStep, Submit, SubmitRejected, Deliver, callVars,
       vars, OrderInv, FinalInv, TypeOK
<1> QED BY <1>1, <1>2, ResolvedStays DEF Resolved, OrderInv, FinalInv

LEMMA InOrderStep == OrderInv /\ [Next]_vars => InOrder'
<1> SUFFICES ASSUME OrderInv, [Next]_vars, NEW c \in Calls, NEW d \in After[c],
                    NEW i \in Nat, NEW j \in Nat, At(c, i)', At(d, j)'
             PROVE  j < i
  BY DEF InOrder
<1>0. d \in Calls /\ Len(chain) \in Nat
  BY AfterAssumption, InChainAt DEF OrderInv, FinalInv
<1> USE DEF OrderInv
<1>1. Submitted(c) => \E k \in Nat : At(d, k)
  <2>1. Submitted(c) => Resolved(d)
    BY DEF OnlySubmitted, Awaited
  <2>2. fin \in Nat
    BY DEF FinalInv, TypeOK, NodeTypeOK
  <2> QED BY <1>0, <2>1, <2>2, ResolvedAt
<1>2. ASSUME NEW S \in SUBSET pool, Author(S)
      PROVE  j < i
  <2>1. Submitted(c)
    BY <1>2, AuthorAt DEF Submitted
  <2>2. d \notin pool
    BY <1>0, <1>1, <2>1 DEF PoolIsNew
  <2>3. At(d, j) /\ j <= Len(chain)
    BY <1>0, <1>2, <2>2, AuthorAt DEF At
  <2>4. At(c, i) \/ i = Len(chain) + 1
    BY <1>2, AuthorAt
  <2> QED BY <1>0, <2>3, <2>4 DEF InOrder
<1>3. ASSUME Retract
      PROVE  j < i
  BY <1>0, <1>3, RetractAt DEF InOrder
<1>4. CASE ~Retract /\ \A S \in SUBSET pool : ~Author(S)
  BY <1>4, OtherAt DEF InOrder
<1> QED BY <1>2, <1>3, <1>4

LEMMA OrderStep == OrderInv /\ [Next]_vars => OrderInv'
BY TypeStep, ChainStep, NoticesStep, ResolvedStep, OnceStep, PoolNewStep, SubmittedStep,
   AwaitedStep, InOrderStep DEF OrderInv, FinalInv

(***************************************************************************)
(* No transaction is in the chain twice, or in the chain and in the pool;  *)
(* a call is made only when those it awaits have settled, and stands above *)
(* them in the chain of the node, also while that is reorganised.          *)
(***************************************************************************)
THEOREM OrderInvariant == Spec => []OrderInv
BY OrderInit, OrderStep, PTL DEF Spec

(***************************************************************************)
(* Awaiting a call orders the two transactions on every fork: a block that *)
(* holds the later one lies above the block that holds the awaited one.    *)
(***************************************************************************)
THEOREM AwaitOrders == Spec => []AwaitOrdersChain
<1>1. OrderInv => AwaitOrdersChain
  <2> SUFFICES ASSUME OrderInv, NEW c \in Calls, NEW d \in After[c],
                      NEW i \in DOMAIN chain, NEW j \in DOMAIN chain,
                      c \in Contents(chain[i]), d \in Contents(chain[j])
               PROVE  j < i
    BY DEF AwaitOrdersChain
  <2>1. i \in 1 .. Len(chain) /\ j \in 1 .. Len(chain) /\ Len(chain) \in Nat
    BY DEF OrderInv, FinalInv, TypeOK, NodeTypeOK
  <2> QED BY <2>1 DEF OrderInv, InOrder, At
<1> QED BY <1>1, OrderInvariant, PTL
-----------------------------------------------------------------------------
\* Calls whose nonces differ and leave no gap have the nonces from 0 on.
LEMMA Packed ==
  ASSUME NEW P \in SUBSET Calls, NEW f \in [Calls -> Nat],
         \A c, d \in P : f[c] = f[d] => c = d,
         \A c \in P : \A m \in 0 .. f[c] - 1 : \E d \in P : f[d] = m
  PROVE  /\ Cardinality(P) \in Nat
         /\ \A c \in P : f[c] < Cardinality(P)
         /\ \A n \in Nat : (\A c \in P : f[c] # n) => Cardinality(P) <= n
<1>1. IsFiniteSet(P) /\ Cardinality(P) \in Nat
  BY NodeAssumption, FS_Subset, FS_CardinalityType
<1>2. ASSUME NEW c \in P
      PROVE  f[c] < Cardinality(P)
  <2> DEFINE g == [m \in 0 .. f[c] |-> CHOOSE d \in P : f[d] = m]
  <2>1. \A m \in 0 .. f[c] : g[m] \in P /\ f[g[m]] = m
    BY f[c] \in Nat
  <2>2. g \in Injection(0 .. f[c], P)
    BY <2>1 DEF Injection, IsInjective
  <2>3. Cardinality(0 .. f[c]) <= Cardinality(P)
    BY <1>1, <2>2, FS_Injection
  <2>4. Cardinality(0 .. f[c]) = f[c] + 1
    BY f[c] \in Nat, FS_Interval
  <2> QED BY <1>1, <2>3, <2>4
<1>3. ASSUME NEW n \in Nat, \A c \in P : f[c] # n
      PROVE  Cardinality(P) <= n
  <2> DEFINE g == [c \in P |-> f[c]]
  <2>1. \A c \in P : f[c] \in 0 .. n - 1
    BY <1>3
  <2>2. g \in Injection(P, 0 .. n - 1)
    BY <2>1 DEF Injection, IsInjective
  <2>3. IsFiniteSet(0 .. n - 1) /\ Cardinality(0 .. n - 1) = n
    BY FS_Interval
  <2> QED BY <2>2, <2>3, FS_Injection
<1> QED BY <1>1, <1>2, <1>3

(***************************************************************************)
(* AwaitedNonceIsUsed needs that the nonces on the chain are those below   *)
(* the index the node answers.  That holds after a retraction because they *)
(* leave no gap below any block, and because no two calls of an account    *)
(* that are in the pool or on the chain have the same nonce.               *)
(***************************************************************************)
Distinct ==
  \A c, d \in Calls :
    Submitted(c) /\ Submitted(d) /\ Signer[c] = Signer[d] /\ nonce[c] = nonce[d] => c = d

NoGap ==
  \A c \in Calls : \A i \in Nat : At(c, i) =>
    \A m \in 0 .. nonce[c] - 1 :
      \E d \in Calls : \E j \in 1 .. i : At(d, j) /\ Signer[d] = Signer[c] /\ nonce[d] = m

NonceInv == OrderInv /\ Distinct /\ NoGap /\ AwaitedNonceIsUsed

\* What the node answers is past the nonces on the chain, and no further.
LEMMA NonceOfAccount ==
  ASSUME TypeOK, Distinct, NoGap, NEW a
  PROVE  /\ AccountNonce(a) \in Nat
         /\ \A c \in Calls : \A i \in Nat :
              At(c, i) /\ Signer[c] = a => nonce[c] < AccountNonce(a)
         /\ \A n \in Nat :
              \/ AccountNonce(a) <= n
              \/ \E c \in Calls : \E i \in Nat : At(c, i) /\ Signer[c] = a /\ nonce[c] = n
<1> DEFINE P == {c \in Calls : Signer[c] = a /\ InChain(c)}
<1>1. \A c \in Calls : c \in P <=> Signer[c] = a /\ \E i \in Nat : At(c, i)
  BY InChainAt
<1>2. nonce \in [Calls -> Nat] /\ P \in SUBSET Calls
  BY DEF TypeOK, NodeTypeOK
<1>3. \A c, d \in P : nonce[c] = nonce[d] => c = d
  BY <1>1 DEF Distinct, Submitted
<1>4. \A c \in P : \A m \in 0 .. nonce[c] - 1 : \E d \in P : nonce[d] = m
  <2> SUFFICES ASSUME NEW c \in P, NEW m \in 0 .. nonce[c] - 1
               PROVE  \E d \in P : nonce[d] = m
    OBVIOUS
  <2>1. PICK i \in Nat : At(c, i)
    BY <1>1
  <2>2. PICK d \in Calls, j \in 1 .. i : At(d, j) /\ Signer[d] = Signer[c] /\ nonce[d] = m
    BY <1>2, <2>1 DEF NoGap
  <2> QED BY <1>1, <2>2
<1>5. AccountNonce(a) = Cardinality(P)
  BY DEF AccountNonce
<1> HIDE DEF P
<1>6. /\ Cardinality(P) \in Nat
      /\ \A c \in P : nonce[c] < Cardinality(P)
      /\ \A n \in Nat : (\A c \in P : nonce[c] # n) => Cardinality(P) <= n
  BY <1>2, <1>3, <1>4, Packed
<1> QED BY <1>1, <1>2, <1>5, <1>6

\* A call keeps its nonce from when it is made.
LEMMA NonceKept ==
  ASSUME TypeOK, [Next]_vars, NEW c \in Calls, pc[c] # "idle"
  PROVE  nonce'[c] = nonce[c]
<1>1. ASSUME NEW d \in Calls, Call(d)
      PROVE  nonce'[c] = nonce[c]
  BY <1>1 DEF Call, TypeOK, NodeTypeOK
<1> QED
  BY <1>1 DEF Next, NodeStep, CallStep, Submit, Accept, SubmitRejected, Deliver, Author,
     Retract, Finalize, EndTx, Disconnect, vars, poolVars

\* Blocks and retractions move transactions between the pool and the chain.
LEMMA SubmittedFrom ==
  ASSUME OrderInv, [Next]_vars, NEW c \in Calls, Submitted(c)'
  PROVE  /\ Submitted(c) \/ Submit(c)
         /\ \A d \in Calls : Submit(d) /\ c # d /\ c \in pool => c \notin Clashing(d)
<1> USE DEF OrderInv
<1>1. Submitted(c) \/ Submit(c)
  <2>1. ASSUME NEW S \in SUBSET pool, Author(S), NEW i \in Nat, At(c, i)'
        PROVE  Submitted(c)
    BY <2>1, AuthorAt DEF Submitted
  <2>2. ASSUME Retract, NEW i \in Nat, At(c, i)'
        PROVE  Submitted(c)
    BY <2>2, RetractAt DEF Submitted
  <2>3. ASSUME \A S \in SUBSET pool : ~Author(S), ~Retract, NEW i \in Nat, At(c, i)'
        PROVE  Submitted(c)
    BY <2>3, OtherAt DEF Submitted
  <2>4. c \in pool' => Submitted(c) \/ Submit(c)
    <3>1. Len(chain) \in Nat
      BY InChainAt DEF FinalInv
    <3> QED BY <3>1, PoolStep DEF Submitted
  <2> QED BY <2>1, <2>2, <2>3, <2>4 DEF Submitted
<1>2. ASSUME NEW d \in Calls, Submit(d), c # d, c \in pool, c \in Clashing(d)
      PROVE  FALSE
  <2>1. c \notin pool' /\ UNCHANGED <<chain, body>>
    BY <1>2 DEF Submit, Accept, chainVars
  <2>2. \A i \in Nat : ~At(c, i)
    BY <1>2 DEF PoolIsNew
  <2> QED BY <2>1, <2>2 DEF Submitted, At, Contents
<1> QED BY <1>1, <1>2

LEMMA DistinctStep == NonceInv /\ [Next]_vars => Distinct'
<1> SUFFICES ASSUME NonceInv, [Next]_vars PROVE Distinct'
  OBVIOUS
<1> SUFFICES ASSUME NEW c \in Calls, NEW d \in Calls,
                    Submitted(c)', Submitted(d)', Signer[c] = Signer[d],
                    nonce'[c] = nonce'[d]
             PROVE  c = d
  BY DEF Distinct
<1> USE DEF NonceInv
<1>1. ASSUME NEW e \in Calls, NEW x \in Calls, Submit(x), e # x, Submitted(e)',
             Signer[e] = Signer[x], nonce[e] = nonce[x]
      PROVE  FALSE
  <2>1. e \notin pool
    BY <1>1, SubmittedFrom DEF Clashing
  <2>2. Submitted(e)
    BY <1>1, SubmittedFrom DEF Submit, OrderInv, FinalInv, TypeOK
  <2>3. PICK i \in Nat : At(e, i)
    BY <2>1, <2>2 DEF Submitted
  <2>4. nonce[e] < AccountNonce(Signer[x]) /\ AccountNonce(Signer[x]) \in Nat
    BY <1>1, <2>3, NonceOfAccount DEF OrderInv, FinalInv
  <2>5. nonce[x] >= AccountNonce(Signer[x])
    BY <1>1 DEF Submit, Accept
  <2>6. nonce[x] \in Nat
    BY DEF OrderInv, FinalInv, TypeOK, NodeTypeOK
  <2> QED BY <1>1, <2>4, <2>5, <2>6
<1>2. (Submitted(c) \/ Submit(c)) /\ (Submitted(d) \/ Submit(d))
  BY SubmittedFrom
<1>3. \A e \in Calls : Submitted(e) \/ Submit(e) => pc[e] # "idle"
  BY DEF OrderInv, OnlySubmitted, Submit
<1>4. nonce[c] = nonce[d]
  BY <1>2, <1>3, NonceKept DEF OrderInv, FinalInv
<1>5. CASE c # d /\ (Submit(c) \/ Submit(d))
  BY <1>1, <1>4, <1>5
<1>6. CASE Submitted(c) /\ Submitted(d)
  BY <1>4, <1>6 DEF Distinct
<1> QED BY <1>2, <1>5, <1>6

LEMMA NoGapStep == NonceInv /\ [Next]_vars => NoGap'
<1> SUFFICES ASSUME NonceInv, [Next]_vars, NEW c \in Calls, NEW i \in Nat, At(c, i)',
                    NEW m \in 0 .. nonce'[c] - 1
             PROVE  \E d \in Calls : \E j \in 1 .. i :
                      At(d, j)' /\ Signer[d] = Signer[c] /\ nonce'[d] = m
  BY DEF NoGap
<1> USE DEF NonceInv
<1>0. nonce \in [Calls -> Nat] /\ Len(chain) \in Nat
  BY DEF OrderInv, FinalInv, TypeOK, NodeTypeOK
<1>1. ASSUME NEW e \in Calls, Submitted(e)
      PROVE  nonce'[e] = nonce[e]
  BY <1>1, NonceKept DEF OrderInv, FinalInv, OnlySubmitted
\* Where c was at i before, what lies below i stays.
<1>2. ASSUME At(c, i), \A d \in Calls : \A j \in 1 .. i : At(d, j) => At(d, j)'
      PROVE  \E d \in Calls : \E j \in 1 .. i :
               At(d, j)' /\ Signer[d] = Signer[c] /\ nonce'[d] = m
  <2>1. m \in 0 .. nonce[c] - 1
    BY <1>1, <1>2 DEF Submitted
  <2>2. PICK d \in Calls, j \in 1 .. i : At(d, j) /\ Signer[d] = Signer[c] /\ nonce[d] = m
    BY <1>2, <2>1 DEF NoGap
  <2>3. nonce'[d] = m
    BY <1>1, <2>2 DEF Submitted
  <2> QED BY <1>2, <2>2, <2>3
<1>3. ASSUME NEW S \in SUBSET pool, Author(S)
      PROVE  \E d \in Calls : \E j \in 1 .. i :
               At(d, j)' /\ Signer[d] = Signer[c] /\ nonce'[d] = m
  <2>1. CASE At(c, i)
    BY <1>2, <1>3, <2>1, AuthorAt DEF OrderInv
  <2>2. CASE i = Len(chain) + 1 /\ c \in S
    <3>1. nonce' = nonce /\ S \subseteq Calls
      BY <1>3 DEF Author, OrderInv, FinalInv, TypeOK, NodeTypeOK
    <3>2. AccountNonce(Signer[c]) \in Nat
      BY NonceOfAccount DEF OrderInv, FinalInv
    <3>3. CASE m >= AccountNonce(Signer[c])
      <4>0. m \in AccountNonce(Signer[c]) .. nonce[c]
        BY <1>0, <2>2, <3>1, <3>2, <3>3
      <4>1. PICK d \in S : Signer[d] = Signer[c] /\ nonce[d] = m
        BY <1>3, <2>2, <4>0 DEF Author, Includable
      <4>2. At(d, i)' /\ i \in 1 .. i
        BY <1>0, <1>3, <2>2, <3>1, AuthorAt DEF OrderInv
      <4> QED BY <3>1, <4>1, <4>2
    <3>4. CASE ~(m >= AccountNonce(Signer[c]))
      <4>1. PICK d \in Calls, j \in Nat : At(d, j) /\ Signer[d] = Signer[c] /\ nonce[d] = m
        BY <3>2, <3>4, NonceOfAccount DEF OrderInv, FinalInv
      <4>2. j \in 1 .. i
        BY <1>0, <2>2, <4>1 DEF At
      <4>3. At(d, j)'
        BY <1>3, <4>1, AuthorAt DEF OrderInv
      <4> QED BY <3>1, <4>1, <4>2, <4>3
    <3> QED BY <3>3, <3>4
  <2> QED BY <1>3, <2>1, <2>2, AuthorAt DEF OrderInv
<1>4. ASSUME Retract
      PROVE  \E d \in Calls : \E j \in 1 .. i :
               At(d, j)' /\ Signer[d] = Signer[c] /\ nonce'[d] = m
  <2>1. At(c, i) /\ i < Len(chain)
    BY <1>0, <1>4, RetractAt DEF OrderInv, At
  <2>2. \A d \in Calls : \A j \in 1 .. i : At(d, j) => At(d, j)'
    BY <1>0, <1>4, <2>1, RetractAt DEF OrderInv
  <2> QED BY <1>2, <2>1, <2>2
<1>5. CASE ~Retract /\ \A S \in SUBSET pool : ~Author(S)
  BY <1>2, <1>5, OtherAt
<1> QED BY <1>3, <1>4, <1>5

LEMMA AwaitedNonceStep == NonceInv /\ [Next]_vars => AwaitedNonceIsUsed'
<1> SUFFICES ASSUME NonceInv, [Next]_vars, NEW c \in Calls, NEW d \in After[c],
                    pc'[c] # "idle", Signer[c] = Signer[d]
             PROVE  nonce'[d] < nonce'[c]
  BY DEF AwaitedNonceIsUsed
<1> USE DEF NonceInv, OrderInv, FinalInv
<1>0. d \in Calls
  BY AfterAssumption
<1>1. Resolved(d) => pc[d] # "idle" /\ nonce'[d] = nonce[d] /\ \E i \in Nat : At(d, i)
  <2>1. Resolved(d) => \E i \in Nat : At(d, i)
    BY <1>0, ResolvedAt DEF TypeOK, NodeTypeOK
  <2> QED BY <1>0, <2>1, NonceKept DEF OnlySubmitted, Submitted
<1>2. CASE pc[c] # "idle"
  BY <1>0, <1>1, <1>2, NonceKept DEF Awaited, AwaitedNonceIsUsed
<1>3. CASE pc[c] = "idle"
  <2>1. Call(c)
    BY <1>3 DEF Next, NodeStep, CallStep, Call, Submit, SubmitRejected, Deliver, callVars,
       vars, TypeOK
  <2>2. Resolved(d)
    BY <2>1 DEF Call
  <2>3. PICK n \in Nat : n >= AccountNonce(Signer[c]) /\ nonce'[c] = n
    BY <2>1, Constants DEF Call, IsNextIndex, TypeOK, NodeTypeOK
  <2>4. nonce[d] < AccountNonce(Signer[c]) /\ AccountNonce(Signer[c]) \in Nat
    BY <1>0, <1>1, <2>2, NonceOfAccount
  <2>5. nonce[d] \in Nat
    BY <1>0 DEF TypeOK, NodeTypeOK
  <2> QED BY <1>1, <2>2, <2>3, <2>4, <2>5
<1> QED BY <1>2, <1>3

(***************************************************************************)
(* A transaction that is made after another was awaited has a greater      *)
(* nonce, whatever other calls of the account overlap with the two and     *)
(* whichever blocks are retracted.                                         *)
(***************************************************************************)
THEOREM AwaitedNonce == Spec => []AwaitedNonceIsUsed
<1>1. Init => NonceInv
  <2> SUFFICES ASSUME Init PROVE NonceInv
    OBVIOUS
  <2>1. \A c \in Calls : pc[c] = "idle" /\ ~Submitted(c) /\ \A i \in Nat : ~At(c, i)
    BY DEF Init, NodeInit, Submitted, At
  <2>2. Distinct
    BY <2>1 DEF Distinct
  <2>3. NoGap
    BY <2>1 DEF NoGap
  <2>4. AwaitedNonceIsUsed
    BY <2>1 DEF AwaitedNonceIsUsed
  <2> QED BY <2>2, <2>3, <2>4, OrderInit DEF NonceInv
<1>2. NonceInv /\ [Next]_vars => NonceInv'
  BY OrderStep, DistinctStep, NoGapStep, AwaitedNonceStep DEF NonceInv
<1>3. NonceInv => AwaitedNonceIsUsed
  BY DEF NonceInv
<1> QED BY <1>1, <1>2, <1>3, PTL DEF Spec
-----------------------------------------------------------------------------
(***************************************************************************)
(* What has been logged and what is on its way to a callback is about      *)
(* blocks that exist, whose contents no later step changes.                *)
(***************************************************************************)
Seen ==
  \A c \in Calls :
    /\ \A b \in reported[c] : b <= built
    /\ \A i \in 1 .. Len(stream[c]) :
         stream[c][i].type # "Ended" => stream[c][i].block <= built

ReportInv == FinalInv /\ Seen /\ FailureIsReported

LEMMA BodyKept ==
  ASSUME TypeOK, [Next]_vars, NEW b \in Blocks, b <= built
  PROVE  body'[b] = body[b] /\ b <= built'
<1>1. ASSUME NEW S \in SUBSET pool, Author(S)
      PROVE  body'[b] = body[b] /\ b <= built'
  <2>1. b \in Nat /\ built \in Nat /\ b # built + 1
    BY Constants DEF TypeOK, NodeTypeOK, Blocks
  <2> QED BY <1>1, <2>1 DEF Author, TypeOK, NodeTypeOK
<1>2. CASE \A S \in SUBSET pool : ~Author(S)
  BY <1>2 DEF Next, NodeStep, CallStep, Call, Submit, Accept, SubmitRejected, Deliver,
     Retract, Finalize, EndTx, Disconnect, vars, chainVars
<1> QED BY <1>1, <1>2

\* A notification in a stream was there before, ends the subscription, or is
\* about a block of the chain.
LEMMA StreamStep ==
  ASSUME FinalInv, [Next]_vars, NEW c \in Calls, NEW i \in 1 .. Len(stream'[c])
  PROVE  \/ \E j \in 1 .. Len(stream[c]) : stream'[c][i] = stream[c][j]
         \/ stream'[c][i].type = "Ended"
         \/ stream'[c][i].block <= built'
<1> DEFINE Goal == \/ \E j \in 1 .. Len(stream[c]) : stream'[c][i] = stream[c][j]
                   \/ stream'[c][i].type = "Ended"
                   \/ stream'[c][i].block <= built'
<1>1. ASSUME NEW C, NEW st \in Notification, Notify(C, st),
             st.type = "Ended" \/ st.block <= built'
      PROVE  Goal
  BY <1>1, NotifyAdds DEF FinalInv
<1>2. ASSUME NEW C, Notify(C, [type |-> "Ended"])
      PROVE  Goal
  <2>1. PICK st \in Notification : st = [type |-> "Ended"]
    BY DEF Notification
  <2> QED BY <1>1, <1>2, <2>1
<1>3. ASSUME NEW S \in SUBSET pool, Author(S)
      PROVE  Goal
  <2>1. built + 1 \in Blocks /\ built + 1 <= built'
    BY <1>3, Constants DEF Author, FinalInv, TypeOK, NodeTypeOK, Blocks
  <2>2. PICK st \in Notification : st = [type |-> "InBlock", block |-> built + 1]
    BY <2>1 DEF Notification
  <2> QED BY <1>1, <1>3, <2>1, <2>2 DEF Author
<1>4. ASSUME Finalize
      PROVE  Goal
  <2>1. PICK b \in Blocks : b = chain[fin + 1] /\ b <= built'
    BY <1>4 DEF Finalize, FinalInv, ChainIsBuilt, TypeOK, NodeTypeOK
  <2>2. PICK st \in Notification : st = [type |-> "Finalized", block |-> b]
    BY <2>1 DEF Notification
  <2> QED BY <1>1, <1>4, <2>1, <2>2 DEF Finalize
<1>5. ASSUME NEW d \in Calls, Deliver(d)
      PROVE  Goal
  <2>1. stream \in [Calls -> Seq(Notification)]
    BY DEF FinalInv, TypeOK, NodeTypeOK
  <2>2. CASE c = d
    <3>1. /\ stream[c] \in Seq(Notification) /\ stream[c] # <<>>
          /\ stream'[c] = Tail(stream[c])
      BY <1>5, <2>1, <2>2 DEF Deliver
    <3>2. i + 1 \in 1 .. Len(stream[c]) /\ stream'[c][i] = stream[c][i + 1]
      BY <3>1
    <3> QED BY <3>2
  <2>3. CASE c # d
    BY <1>5, <2>1, <2>3 DEF Deliver
  <2> QED BY <2>2, <2>3
<1>6. ASSUME Disconnect
      PROVE  Goal
  BY <1>6 DEF Disconnect
<1>7. CASE UNCHANGED stream
  BY <1>7
<1> QED
  BY <1>2, <1>3, <1>4, <1>5, <1>6, <1>7 DEF Next, NodeStep, CallStep, Call, Submit,
     Accept, SubmitRejected, Retract, EndTx, vars, poolVars

\* What a delivered notification adds to the log.
LEMMA ReportedStep ==
  ASSUME ReportInv, [Next]_vars, NEW c \in Calls, NEW b \in reported'[c]
  PROVE  b \in Blocks /\ b <= built /\ body[b][c] = "failed"
<1>1. CASE b \in reported[c]
  BY <1>1 DEF ReportInv, Seen, FailureIsReported, FinalInv, TypeOK
<1>2. ASSUME NEW d \in Calls, Deliver(d), b \notin reported[c]
      PROVE  b \in Blocks /\ b <= built /\ body[b][c] = "failed"
  <2>1. c = d /\ b \in FailedIn(c, Head(stream[c])) /\ stream[c] # <<>>
    BY <1>2 DEF Deliver, ReportInv, FinalInv, TypeOK
  <2>2. PICK st \in Notification :
          st = Head(stream[c]) /\ st = stream[c][1] /\ 1 \in 1 .. Len(stream[c])
    BY <2>1 DEF ReportInv, FinalInv, TypeOK, NodeTypeOK
  <2>3. st.type # "Ended" /\ b = st.block /\ body[b][c] = "failed"
    BY <2>1, <2>2 DEF FailedIn
  <2>4. b \in Blocks
    BY <2>3 DEF Notification
  <2> QED BY <2>2, <2>3, <2>4 DEF ReportInv, Seen
<1>3. CASE UNCHANGED reported
  BY <1>1, <1>3
<1> QED
  BY <1>1, <1>2, <1>3 DEF Next, NodeStep, CallStep, Call, Submit, SubmitRejected,
     callVars, vars

LEMMA SeenStep == ReportInv /\ [Next]_vars => Seen'
<1> SUFFICES ASSUME ReportInv, [Next]_vars, NEW c \in Calls
             PROVE  /\ \A b \in reported'[c] : b <= built'
                    /\ \A i \in 1 .. Len(stream'[c]) :
                         stream'[c][i].type # "Ended" => stream'[c][i].block <= built'
  BY DEF Seen
<1>1. ASSUME NEW b \in reported'[c] PROVE b <= built'
  BY <1>1, ReportedStep, BodyKept DEF ReportInv, FinalInv
<1>2. ASSUME NEW i \in 1 .. Len(stream'[c]), stream'[c][i].type # "Ended"
      PROVE  stream'[c][i].block <= built'
  <2>1. ASSUME NEW j \in 1 .. Len(stream[c]), stream'[c][i] = stream[c][j]
        PROVE  stream'[c][i].block <= built'
    <3>1. stream[c][j] \in Notification
      BY <2>1 DEF ReportInv, FinalInv, TypeOK, NodeTypeOK
    <3>2. stream[c][j].block \in Blocks /\ stream[c][j].block <= built
      BY <1>2, <2>1, <3>1 DEF ReportInv, Seen, Notification
    <3> QED BY <2>1, <3>2, BodyKept DEF ReportInv, FinalInv
  <2> QED BY <1>2, <2>1, StreamStep DEF ReportInv
<1> QED BY <1>1, <1>2

LEMMA FailureStep == ReportInv /\ [Next]_vars => FailureIsReported'
<1> SUFFICES ASSUME ReportInv, [Next]_vars, NEW c \in Calls
             PROVE  /\ Resolved(c)' /\ promise'[c].events = "failed"
                         => promise'[c].blockHash \in reported'[c]
                    /\ \A b \in reported'[c] : body'[b][c] = "failed"
  BY DEF FailureIsReported
<1> USE DEF ReportInv, FinalInv
<1>1. ASSUME NEW b \in reported'[c] PROVE body'[b][c] = "failed"
  BY <1>1, ReportedStep, BodyKept
<1>2. ASSUME Resolved(c)', promise'[c].events = "failed"
      PROVE  promise'[c].blockHash \in reported'[c]
  <2>1. reported[c] \subseteq reported'[c]
    BY DEF Next, NodeStep, CallStep, Call, Submit, SubmitRejected, Deliver, callVars,
       vars, TypeOK
  <2>2. CASE promise'[c] = promise[c]
    BY <1>2, <2>1, <2>2 DEF FailureIsReported, Resolved
  <2>3. ASSUME NEW d \in Calls, Deliver(d), promise'[c] # promise[c]
        PROVE  promise'[c].blockHash \in reported'[c]
    <3>1. /\ c = d /\ promise'[c] = Settle(c, Head(stream[c]))
          /\ FailedIn(c, Head(stream[c])) \subseteq reported'[c]
      BY <2>3 DEF Deliver, TypeOK
    <3>2. PICK st : st = Head(stream[c])
      OBVIOUS
    <3>3. st.type = "Finalized"
          /\ promise'[c] = [blockHash |-> st.block, events |-> body[st.block][c]]
      BY <2>3, <3>1, <3>2 DEF Settle
    <3>4. FailedIn(c, st) = {promise'[c].blockHash}
      BY <1>2, <3>3 DEF FailedIn
    <3> QED BY <3>1, <3>2, <3>4
  <2> QED
    BY <2>2, <2>3 DEF Next, NodeStep, CallStep, Call, Submit, SubmitRejected, callVars, vars
<1> QED BY <1>1, <1>2

(***************************************************************************)
(* A dispatch that failed does not settle silently: the error of the very  *)
(* block a call settles with has been logged, and nothing else has, for    *)
(* every order of notifications and forks.                                 *)
(***************************************************************************)
THEOREM FailureReported == Spec => []FailureIsReported
<1>1. Init => ReportInv
  BY FinalInit DEF Init, NodeInit, ReportInv, Seen, FailureIsReported, Resolved
<1>2. ReportInv /\ [Next]_vars => ReportInv'
  BY TypeStep, ChainStep, NoticesStep, ResolvedStep, SeenStep, FailureStep
     DEF ReportInv, FinalInv
<1>3. ReportInv => FailureIsReported
  BY DEF ReportInv
<1> QED BY <1>1, <1>2, <1>3, PTL DEF Spec
-----------------------------------------------------------------------------
(***************************************************************************)
(* SendExtrinsic implements TxOutcome: a call that is made is Make, a      *)
(* delivery that settles a promise is Settle, the steps of the node are    *)
(* Record, and every other step is a stutter.                              *)
(***************************************************************************)
OutcomeIs ==
  \A c \in Calls :
    /\ \A i \in 1 .. fin : At(c, i) =>
         FinalOutcome(c) = [blockHash |-> chain[i], events |-> body[chain[i]][c]]
    /\ (\A i \in 1 .. fin : ~At(c, i)) => FinalOutcome(c) = Pending

LEMMA FinalOutcomeIs == OrderInv => OutcomeIs
<1> SUFFICES ASSUME OrderInv, NEW c \in Calls
             PROVE  /\ \A i \in 1 .. fin : At(c, i) => FinalOutcome(c) =
                         [blockHash |-> chain[i], events |-> body[chain[i]][c]]
                    /\ (\A i \in 1 .. fin : ~At(c, i)) => FinalOutcome(c) = Pending
  BY DEF OutcomeIs
<1>1. /\ Len(chain) \in Nat /\ fin \in 0 .. Len(chain)
      /\ \A i \in 1 .. fin : i \in Nat /\ (At(c, i) <=> c \in Contents(chain[i]))
  BY InChainAt DEF OrderInv, FinalInv, At
<1>2. ASSUME NEW i \in 1 .. fin, At(c, i)
      PROVE  FinalOutcome(c) = [blockHash |-> chain[i], events |-> body[chain[i]][c]]
  <2>1. c \in Contents(chain[i])
    BY <1>1, <1>2
  <2>2. \A j \in 1 .. fin : c \in Contents(chain[j]) => j = i
    BY <1>1, <1>2 DEF OrderInv, OnceInChain
  <2>3. (CHOOSE j \in 1 .. fin : c \in Contents(chain[j])) = i
    BY <2>1, <2>2
  <2> QED BY <2>1, <2>3 DEF FinalOutcome
<1>3. (\A i \in 1 .. fin : ~At(c, i)) => FinalOutcome(c) = Pending
  BY <1>1 DEF FinalOutcome
<1> QED BY <1>2, <1>3

\* The same, of the state after a step.
LEMMA FinalOutcomeBecomes == OrderInv' => OutcomeIs'
BY FinalOutcomeIs, PTL

\* A final outcome stays, and a new one is of a call that was made.
LEMMA OutcomeStep ==
  ASSUME OrderInv, OrderInv', [Next]_vars, NEW c \in Calls
  PROVE  /\ FinalOutcome(c)' \in Result \cup {Pending}
         /\ FinalOutcome(c)' # FinalOutcome(c) =>
              FinalOutcome(c) = Pending /\ pc[c] # "idle"
<1> USE FinalOutcomeIs, FinalOutcomeBecomes DEF OrderInv, FinalInv, OutcomeIs
<1>0. /\ Len(chain) \in Nat /\ fin \in 0 .. Len(chain) /\ fin' \in 0 .. Len(chain')
      /\ Len(chain') \in Nat
  BY DEF TypeOK, NodeTypeOK
<1>1. FinalOutcome(c)' \in Result \cup {Pending}
  <2>1. ASSUME NEW i \in 1 .. fin', At(c, i)'
        PROVE  FinalOutcome(c)' \in Result
    <3>1. i \in 1 .. Len(chain')
      BY <1>0
    <3>2. chain'[i] \in Blocks /\ body'[chain'[i]] \in [Calls -> Outcome \cup {Absent}]
      BY <3>1 DEF TypeOK, NodeTypeOK
    <3>3. body'[chain'[i]][c] \in Outcome \cup {Absent}
      BY <3>2
    <3>4. FinalOutcome(c)' = [blockHash |-> chain'[i], events |-> body'[chain'[i]][c]]
      BY <2>1
    <3> QED BY <3>2, <3>3, <3>4 DEF Result
  <2> QED BY <2>1
<1>2. ASSUME NEW i \in 1 .. fin, At(c, i)
      PROVE  FinalOutcome(c)' = FinalOutcome(c)
  <2>1. i \in 1 .. Len(chain) /\ chain[i] \in Blocks /\ Finalized(chain[i])
    BY <1>0 DEF TypeOK, NodeTypeOK, Finalized
  <2>2. PICK k \in 1 .. fin' : chain'[k] = chain[i] /\ body'[chain[i]] = body[chain[i]]
    BY <2>1, FinalityStep DEF Finalized
  <2>3. At(c, k)'
    BY <1>0, <1>2, <2>2 DEF At, Contents
  <2> QED BY <1>2, <2>2, <2>3
<1>3. ASSUME \A i \in 1 .. fin : ~At(c, i), FinalOutcome(c)' # FinalOutcome(c)
      PROVE  FinalOutcome(c) = Pending /\ pc[c] # "idle"
  <2>1. FinalOutcome(c) = Pending
    BY <1>3
  <2>2. PICK k \in 1 .. fin' : At(c, k)'
    BY <1>3, <2>1
  <2>3. At(c, k)
    <3>1. ASSUME NEW S \in SUBSET pool, Author(S)
          PROVE  k # Len(chain) + 1
      BY <1>0, <3>1 DEF Author
    <3>2. k \in Nat
      BY <1>0
    <3> QED BY <2>2, <3>1, <3>2, AuthorAt, RetractAt, OtherAt
  <2> QED BY <1>0, <2>1, <2>3 DEF OnlySubmitted, Submitted
<1> QED BY <1>1, <1>2, <1>3

\* A promise settles with the outcome that is on record.
LEMMA SettleStep ==
  ASSUME OrderInv, NEW c \in Calls, Deliver(c), promise'[c] # promise[c]
  PROVE  /\ promise[c] = Pending
         /\ promise'[c] = FinalOutcome(c)
         /\ FinalOutcome(c) # Pending
<1> USE DEF OrderInv, FinalInv
<1>1. promise'[c] = Settle(c, Head(stream[c])) /\ stream[c] # <<>>
  BY DEF Deliver, TypeOK
<1>2. PICK st \in Notification :
        st = Head(stream[c]) /\ st = stream[c][1] /\ 1 \in 1 .. Len(stream[c])
  BY <1>1 DEF TypeOK, NodeTypeOK
<1>3. /\ st.type = "Finalized" /\ promise[c] = Pending
      /\ promise'[c] = [blockHash |-> st.block, events |-> body[st.block][c]]
  BY <1>1, <1>2 DEF Settle, Resolved
<1>4. PICK i \in 1 .. fin : chain[i] = st.block /\ c \in Contents(st.block)
  BY <1>2, <1>3 DEF NoticesAreFinal, FinalNotice, Finalized
<1>5. At(c, i)
  BY <1>4 DEF At, TypeOK, NodeTypeOK
<1>6. promise'[c] = FinalOutcome(c)
  BY <1>3, <1>4, <1>5, FinalOutcomeIs DEF OutcomeIs
<1>7. FinalOutcome(c) # Pending
  <2>1. st.block \in Blocks
    BY <1>3 DEF Notification
  <2>2. body[st.block] \in [Calls -> Outcome \cup {Absent}]
    BY <2>1 DEF TypeOK, NodeTypeOK
  <2>3. [blockHash |-> st.block, events |-> body[st.block][c]] \in Result
    BY <2>1, <2>2 DEF Result
  <2> QED BY <1>3, <1>6, <2>3, Constants
<1> QED BY <1>3, <1>6, <1>7

LEMMA AbstractInit == Init => Abstract!Init
<1> SUFFICES ASSUME Init PROVE Abstract!Init
  OBVIOUS
<1>1. \A c \in Calls : FinalOutcome(c) = Pending
  BY DEF Init, NodeInit, FinalOutcome
<1> QED BY <1>1 DEF Init, Abstract!Init

LEMMA AbstractStep ==
  ASSUME OrderInv, OrderInv', [Next]_vars
  PROVE  [Abstract!Next]_(Abstract!vars)
<1> USE DEF OrderInv, FinalInv
<1>0. [d \in Calls |-> FinalOutcome(d)]' = [d \in Calls |-> FinalOutcome(d)']
  OBVIOUS
<1>1. ASSUME UNCHANGED <<pc, promise>>
      PROVE  Abstract!Record
  BY <1>1, OutcomeStep DEF Abstract!Record
<1>2. ASSUME UNCHANGED <<chain, body, fin>>
      PROVE  \A d \in Calls : FinalOutcome(d)' = FinalOutcome(d)
  BY <1>2 DEF FinalOutcome, Contents
<1>3. ASSUME NEW c \in Calls, Call(c)
      PROVE  Abstract!Make(c)
  <2>1. {d \in Calls : pc'[d] # "idle"} = {d \in Calls : pc[d] # "idle"} \cup {c}
    BY <1>3 DEF Call, TypeOK
  <2> QED BY <1>2, <1>3, <2>1 DEF Call, Resolved, chainVars, Abstract!Make
<1>4. ASSUME NEW c \in Calls, Submit(c) \/ SubmitRejected(c)
      PROVE  UNCHANGED Abstract!vars
  <2>1. {d \in Calls : pc'[d] # "idle"} = {d \in Calls : pc[d] # "idle"}
    BY <1>4 DEF Submit, SubmitRejected, TypeOK
  <2> QED BY <1>2, <1>4, <2>1 DEF Submit, SubmitRejected, Accept, chainVars, Abstract!vars
<1>5. ASSUME NEW c \in Calls, Deliver(c)
      PROVE  Abstract!Settle(c) \/ UNCHANGED Abstract!vars
  <2>1. /\ \A d \in Calls : FinalOutcome(d)' = FinalOutcome(d)
        /\ {d \in Calls : pc'[d] # "idle"} = {d \in Calls : pc[d] # "idle"}
        /\ promise' = [promise EXCEPT ![c] = promise'[c]]
    BY <1>2, <1>5 DEF Deliver, chainVars, TypeOK
  <2>2. CASE promise'[c] = promise[c]
    <3>1. promise' = promise
      BY <2>1, <2>2 DEF TypeOK
    <3> QED BY <2>1, <3>1 DEF Abstract!vars
  <2>3. CASE promise'[c] # promise[c]
    BY <1>5, <2>1, <2>3, SettleStep DEF Abstract!Settle
  <2> QED BY <2>2, <2>3
<1>6. CASE NodeStep
  BY <1>1, <1>6 DEF NodeStep, callVars, Abstract!Next
<1>7. CASE UNCHANGED vars
  BY <1>1, <1>7 DEF vars, callVars, Abstract!Next
<1> QED
  BY <1>3, <1>4, <1>5, <1>6, <1>7 DEF Next, CallStep, Abstract!Next

(***************************************************************************)
(* sendExtrinsic keeps its promise: its caller sees a promise that settles *)
(* once, with the final outcome of its own call, and nothing of the nodes, *)
(* pools, forks and notifications behind it; with and without faults.      *)
(***************************************************************************)
THEOREM Implements == Spec => ImplementsTxOutcome
<1>1. OrderInv /\ OrderInv' /\ [Next]_vars => [Abstract!Next]_(Abstract!vars)
  BY AbstractStep
<1>2. Init => Abstract!Init
  BY AbstractInit
<1>3. Spec => []OrderInv
  BY OrderInit, OrderStep, PTL DEF Spec
<1> QED BY <1>1, <1>2, <1>3, PTL DEF Spec, ImplementsTxOutcome, Abstract!Spec
=============================================================================
