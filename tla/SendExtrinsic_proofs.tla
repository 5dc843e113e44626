------------------------ MODULE SendExtrinsic_proofs ------------------------
(***************************************************************************)
(* Type correctness of SendExtrinsic, and that a promise settles with a    *)
(* final outcome only, for every number of calls, accounts and blocks,     *)
(* with and without faults.                                                *)
(***************************************************************************)
EXTENDS SendExtrinsic, FiniteSetTheorems, SequenceTheorems, TLAPS

\* The facts about the constants the proofs use.
LEMMA Constants ==
  /\ Blocks \subseteq Nat
  /\ MaxBlocks \in Nat
  /\ Cardinality(Calls) \in Nat
  /\ Pending \notin Result
  /\ \A c \in Calls : Outcomes[c] \subseteq Outcome
BY NodeAssumption, AfterAssumption, FS_CardinalityType DEF Blocks

\* A notification of the right type, sent by Notify, keeps the streams typed.
LEMMA NotifyType ==
  ASSUME NEW C, NEW st \in Notification,
         stream \in [Calls -> Seq(Notification)], Notify(C, st)
  PROVE  stream' \in [Calls -> Seq(Notification)]
<1>1. ASSUME NEW c \in Calls
      PROVE  /\ Append(stream[c], st) \in Seq(Notification)
             /\ stream[c] \in Seq(Notification)
  OBVIOUS
<1> QED BY <1>1 DEF Notify

\* What is left of a chain when its head is retracted.
LEMMA WithoutHead ==
  ASSUME NEW S, NEW s \in Seq(S), s # <<>>
  PROVE  /\ SubSeq(s, 1, Len(s) - 1) \in Seq(S)
         /\ Len(SubSeq(s, 1, Len(s) - 1)) = Len(s) - 1
         /\ \A i \in 1 .. (Len(s) - 1) : SubSeq(s, 1, Len(s) - 1)[i] = s[i]
<1>1. PICK n \in Nat : n = Len(s) - 1
  OBVIOUS
<1>2. \A i \in 1 .. n : s[i] \in S
  BY <1>1
<1>3. 1 \in Int /\ n \in Int
  BY <1>1
<1>4. /\ SubSeq(s, 1, n) \in Seq(S)
      /\ Len(SubSeq(s, 1, n)) = IF 1 <= n THEN n - 1 + 1 ELSE 0
      /\ \A i \in 1 .. n - 1 + 1 : SubSeq(s, 1, n)[i] = s[1 + i - 1]
  BY ONLY <1>2, <1>3, SubSeqProperties
<1> QED BY <1>1, <1>4

LEMMA TypeInit == Init => TypeOK
BY Constants, NodeAssumption DEF Init, NodeInit, TypeOK, NodeTypeOK, Blocks

LEMMA TypeStep == TypeOK /\ [Next]_vars => TypeOK'
<1> SUFFICES ASSUME TypeOK, [Next]_vars PROVE TypeOK'
  OBVIOUS
<1> USE Constants
<1>1. ASSUME NEW c \in Calls, Call(c) PROVE TypeOK'
  BY <1>1 DEF Call, TypeOK, NodeTypeOK, chainVars
<1>2. ASSUME NEW c \in Calls, Submit(c) PROVE TypeOK'
  <2>1. [type |-> "Ended"] \in Notification
    BY DEF Notification
  <2>2. stream' \in [Calls -> Seq(Notification)]
    BY <1>2, <2>1, NotifyType DEF Submit, Accept, TypeOK, NodeTypeOK
  <2> QED BY <1>2, <2>2 DEF Submit, Accept, TypeOK, NodeTypeOK, chainVars
<1>3. ASSUME NEW c \in Calls, SubmitRejected(c) PROVE TypeOK'
  BY <1>3 DEF SubmitRejected, TypeOK, NodeTypeOK, poolVars, chainVars
<1>4. ASSUME NEW c \in Calls, Deliver(c) PROVE TypeOK'
  <2>1. PICK st \in Notification : st = Head(stream[c])
    BY <1>4 DEF Deliver, TypeOK, NodeTypeOK
  <2>2. stream' \in [Calls -> Seq(Notification)]
    <3>1. Tail(stream[c]) \in Seq(Notification)
      BY <1>4 DEF Deliver, TypeOK, NodeTypeOK
    <3> QED BY <1>4, <3>1 DEF Deliver, TypeOK, NodeTypeOK
  <2>3. st.type \in {"InBlock", "Finalized"} => st.block \in Blocks
    BY DEF Notification
  <2>4. FailedIn(c, st) \subseteq Blocks
    BY <2>3 DEF FailedIn
  <2>5. Settle(c, st) \in {Pending} \cup Result
    <3>1. CASE st.type = "Finalized"
      <4>1. st.block \in Blocks
        BY <2>3, <3>1
      <4>2. body[st.block][c] \in Outcome \cup {Absent}
        <5>1. body[st.block] \in [Calls -> Outcome \cup {Absent}]
          BY <4>1 DEF TypeOK, NodeTypeOK
        <5> QED BY <5>1
      <4>3. [blockHash |-> st.block, events |-> body[st.block][c]] \in Result
        BY <4>1, <4>2 DEF Result
      <4>4. promise[c] \in {Pending} \cup Result
        BY DEF TypeOK
      <4> QED BY <4>3, <4>4 DEF Settle
    <3>2. CASE st.type # "Finalized"
      BY <3>2 DEF Settle, TypeOK
    <3> QED BY <3>1, <3>2
  <2>6. reported' \in [Calls -> SUBSET Blocks]
    BY <1>4, <2>1, <2>4 DEF Deliver, TypeOK
  <2>7. promise' \in [Calls -> {Pending} \cup Result]
    BY <1>4, <2>1, <2>5 DEF Deliver, TypeOK
  <2> QED BY <1>4, <2>2, <2>6, <2>7 DEF Deliver, TypeOK, NodeTypeOK, chainVars
<1>5. ASSUME NEW S \in SUBSET pool, Author(S), UNCHANGED callVars PROVE TypeOK'
  <2>1. built + 1 \in Blocks
    BY <1>5 DEF Author, TypeOK, NodeTypeOK, Blocks
  <2>2. [type |-> "InBlock", block |-> built + 1] \in Notification
    BY <2>1 DEF Notification
  <2>3. stream' \in [Calls -> Seq(Notification)]
    BY <1>5, <2>2, NotifyType DEF Author, TypeOK, NodeTypeOK
  <2>4. body' \in [Blocks -> [Calls -> Outcome \cup {Absent}]]
    BY <1>5, <2>1 DEF Author, TypeOK, NodeTypeOK
  <2>5. chain' \in Seq(Blocks) /\ Len(chain') = Len(chain) + 1 /\ Len(chain) \in Nat
    BY <1>5, <2>1 DEF Author, TypeOK, NodeTypeOK
  <2>6. built' \in 0 .. MaxBlocks /\ fin' \in 0 .. Len(chain')
    BY <1>5, <2>5 DEF Author, TypeOK, NodeTypeOK
  <2> QED BY <1>5, <2>3, <2>4, <2>5, <2>6
          DEF Author, TypeOK, NodeTypeOK, callVars
<1>6. ASSUME Retract, UNCHANGED callVars PROVE TypeOK'
  <2>1. /\ Len(chain) \in Nat /\ fin \in Nat
        /\ chain' \in Seq(Blocks) /\ Len(chain') = Len(chain) - 1
    <3>1. Len(chain) \in Nat /\ fin \in Nat /\ chain # <<>>
      BY <1>6 DEF Retract, TypeOK, NodeTypeOK
    <3> QED BY <1>6, <3>1, WithoutHead DEF Retract, TypeOK, NodeTypeOK
  <2>2. fin' \in 0 .. Len(chain')
    BY <1>6, <2>1 DEF Retract, TypeOK, NodeTypeOK
  <2>3. pool' \subseteq Calls
    BY <1>6 DEF Retract, TypeOK, NodeTypeOK, Contents
  <2> QED BY <1>6, <2>1, <2>2, <2>3 DEF Retract, TypeOK, NodeTypeOK, callVars
<1>7. ASSUME Finalize, UNCHANGED callVars PROVE TypeOK'
  <2>1. Len(chain) \in Nat /\ fin + 1 \in 1 .. Len(chain)
    BY <1>7 DEF Finalize, TypeOK, NodeTypeOK
  <2>2. [type |-> "Finalized", block |-> chain[fin + 1]] \in Notification
    BY <2>1 DEF Notification, TypeOK, NodeTypeOK
  <2>3. stream' \in [Calls -> Seq(Notification)]
    BY <1>7, <2>2, NotifyType DEF Finalize, TypeOK, NodeTypeOK
  <2> QED BY <1>7, <2>1, <2>3 DEF Finalize, TypeOK, NodeTypeOK, callVars
<1>8. ASSUME NEW c \in Calls, EndTx(c), UNCHANGED callVars PROVE TypeOK'
  <2>1. [type |-> "Ended"] \in Notification
    BY DEF Notification
  <2>2. stream' \in [Calls -> Seq(Notification)]
    BY <1>8, <2>1, NotifyType DEF EndTx, TypeOK, NodeTypeOK
  <2> QED BY <1>8, <2>2 DEF EndTx, TypeOK, NodeTypeOK, chainVars, callVars
<1>9. ASSUME Disconnect, UNCHANGED callVars PROVE TypeOK'
  <2>1. stream' \in [Calls -> Seq(Notification)]
    BY <1>9 DEF Disconnect
  <2> QED BY <1>9, <2>1 DEF Disconnect, TypeOK, NodeTypeOK, chainVars, callVars
<1>10. CASE UNCHANGED vars
  BY <1>10 DEF TypeOK, NodeTypeOK, vars, poolVars, chainVars, callVars
<1> QED
  BY <1>1, <1>2, <1>3, <1>4, <1>5, <1>6, <1>7, <1>8, <1>9, <1>10
     DEF Next, NodeStep, CallStep

(***************************************************************************)
(* Every variable keeps its type: in particular the height of finality     *)
(* never passes the head, and a promise holds a result or nothing.         *)
(***************************************************************************)
THEOREM TypeCorrect == Spec => []TypeOK
BY TypeInit, TypeStep, PTL DEF Spec
-----------------------------------------------------------------------------
(***************************************************************************)
(* ResolvedIsFinal is not inductive: the block a promise settles with is   *)
(* read from a notification that was sent earlier.  So every Finalized     *)
(* notification on the way must name a final block that holds its call,    *)
(* and blocks on the chain must be among those built, for their contents   *)
(* not to change when a block is built.                                    *)
(***************************************************************************)
FinalNotice(c, st) ==
  st.type = "Finalized" => Finalized(st.block) /\ c \in Contents(st.block)

ChainIsBuilt == \A i \in 1 .. Len(chain) : chain[i] <= built

NoticesAreFinal ==
  \A c \in Calls : \A i \in 1 .. Len(stream[c]) : FinalNotice(c, stream[c][i])

FinalInv == TypeOK /\ ChainIsBuilt /\ NoticesAreFinal /\ ResolvedIsFinal

LEMMA FinalInit == Init => FinalInv
BY TypeInit DEF Init, NodeInit, FinalInv, ChainIsBuilt, NoticesAreFinal,
                ResolvedIsFinal, Resolved

LEMMA ChainStep == FinalInv /\ [Next]_vars => ChainIsBuilt'
<1> SUFFICES ASSUME FinalInv, [Next]_vars PROVE ChainIsBuilt'
  OBVIOUS
<1> USE DEF FinalInv, ChainIsBuilt
<1>1. ASSUME NEW S \in SUBSET pool, Author(S) PROVE ChainIsBuilt'
  <2>1. chain \in Seq(Blocks) /\ built + 1 \in Blocks /\ built \in Int
    BY <1>1, Constants DEF Author, TypeOK, NodeTypeOK, Blocks
  <2>2. /\ Len(chain') = Len(chain) + 1 /\ chain'[Len(chain) + 1] = built + 1
        /\ \A i \in 1 .. Len(chain) : chain'[i] = chain[i]
        /\ built' = built + 1
    BY <1>1, <2>1 DEF Author
  <2>3. ASSUME NEW i \in 1 .. Len(chain') PROVE chain'[i] <= built'
    <3>1. CASE i = Len(chain) + 1
      BY <2>1, <2>2, <3>1
    <3>2. CASE i \in 1 .. Len(chain)
      <4>1. chain[i] \in Int /\ chain[i] <= built
        <5>1. chain[i] \in Blocks
          BY <2>1, <3>2
        <5> QED BY <3>2, <5>1 DEF Blocks
      <4>2. chain'[i] = chain[i]
        BY <2>2, <3>2
      <4> QED BY <2>1, <2>2, <4>1, <4>2
    <3> QED BY <2>1, <2>2, <3>1, <3>2
  <2> QED BY <2>3
<1>2. ASSUME Retract PROVE ChainIsBuilt'
  <2>1. chain # <<>> /\ Len(chain) \in Nat
    BY <1>2 DEF Retract, TypeOK, NodeTypeOK
  <2> QED BY <1>2, <2>1, WithoutHead DEF Retract, TypeOK, NodeTypeOK
<1>3. CASE UNCHANGED <<chain, built>>
  BY <1>3
<1> QED
  BY <1>1, <1>2, <1>3 DEF Next, NodeStep, CallStep, Call, Submit, Accept,
     SubmitRejected, Deliver, Finalize, EndTx, Disconnect, vars, chainVars

\* Finality: no step takes a block off the finalized chain or changes it.
LEMMA FinalityStep ==
  ASSUME FinalInv, [Next]_vars, NEW b \in Blocks, Finalized(b)
  PROVE  Finalized(b)' /\ body'[b] = body[b]
<1> USE DEF FinalInv, Finalized
<1>1. ASSUME NEW S \in SUBSET pool, Author(S)
      PROVE  Finalized(b)' /\ body'[b] = body[b]
  <2>1. PICK i \in 1 .. fin : chain[i] = b
    OBVIOUS
  <2>2. i \in 1 .. Len(chain) /\ b <= built /\ built \in Nat
    BY <2>1, Constants DEF ChainIsBuilt, TypeOK, NodeTypeOK
  <2>3. chain'[i] = b /\ fin' = fin
    BY <1>1, <2>1, <2>2 DEF Author, TypeOK, NodeTypeOK
  <2>4. b # built + 1
    BY <2>2, Constants
  <2> QED BY <1>1, <2>1, <2>3, <2>4 DEF Author, TypeOK, NodeTypeOK
<1>2. ASSUME Retract
      PROVE  Finalized(b)' /\ body'[b] = body[b]
  <2>1. PICK i \in 1 .. fin : chain[i] = b
    OBVIOUS
  <2>2. chain # <<>> /\ Len(chain) \in Nat /\ i \in 1 .. (Len(chain) - 1)
    BY <1>2, <2>1 DEF Retract, TypeOK, NodeTypeOK
  <2>3. chain'[i] = b
    BY <1>2, <2>1, <2>2, WithoutHead DEF Retract, TypeOK, NodeTypeOK
  <2> QED BY <1>2, <2>1, <2>3 DEF Retract
<1>3. ASSUME Finalize
      PROVE  Finalized(b)' /\ body'[b] = body[b]
  BY <1>3 DEF Finalize, TypeOK, NodeTypeOK
<1>4. CASE UNCHANGED <<chain, fin, body>>
  BY <1>4
<1> QED
  BY <1>1, <1>2, <1>3, <1>4 DEF Next, NodeStep, CallStep, Call, Submit, Accept,
     SubmitRejected, Deliver, EndTx, Disconnect, vars, chainVars

\* A notice that was right stays right, and a promise that was right too.
LEMMA NoticeStep ==
  ASSUME FinalInv, [Next]_vars, NEW c \in Calls, NEW st \in Notification,
         FinalNotice(c, st)
  PROVE  FinalNotice(c, st)'
<1>1. st.type = "Finalized" => st.block \in Blocks
  BY DEF Notification
<1> QED BY <1>1, FinalityStep DEF FinalNotice, Contents

\* Notify adds at most one notification, at the end of a stream.
LEMMA NotifyAdds ==
  ASSUME TypeOK, NEW C, NEW st \in Notification, Notify(C, st), NEW c \in Calls,
         NEW i \in 1 .. Len(stream'[c])
  PROVE  \/ i \in 1 .. Len(stream[c]) /\ stream'[c][i] = stream[c][i]
         \/ c \in C /\ stream'[c][i] = st
<1>1. stream[c] \in Seq(Notification)
  BY DEF TypeOK, NodeTypeOK
<1>2. stream'[c] = IF c \in C \cap watched THEN Append(stream[c], st) ELSE stream[c]
  BY DEF Notify
<1> QED BY <1>1, <1>2

LEMMA NoticesStep == FinalInv /\ [Next]_vars => NoticesAreFinal'
<1> SUFFICES ASSUME FinalInv, [Next]_vars,
                    NEW c \in Calls, NEW i \in 1 .. Len(stream'[c])
             PROVE  FinalNotice(c, stream[c][i])'
  BY DEF NoticesAreFinal
<1>0. ASSUME NEW st \in Notification, stream'[c][i] = st, FinalNotice(c, st)'
      PROVE  FinalNotice(c, stream[c][i])'
  BY <1>0 DEF FinalNotice, Finalized, Contents
<1>1. ASSUME NEW j \in 1 .. Len(stream[c]), stream'[c][i] = stream[c][j]
      PROVE  FinalNotice(c, stream[c][i])'
  <2>1. PICK st \in Notification : st = stream[c][j] /\ FinalNotice(c, st)
    BY DEF FinalInv, NoticesAreFinal, TypeOK, NodeTypeOK
  <2>2. FinalNotice(c, st)'
    BY <2>1, NoticeStep
  <2> QED BY <1>0, <1>1, <2>1, <2>2
<1>2. ASSUME NEW C, NEW st \in Notification, Notify(C, st),
             c \in C => FinalNotice(c, st)'
      PROVE  FinalNotice(c, stream[c][i])'
  BY <1>0, <1>1, <1>2, NotifyAdds DEF FinalInv
<1>3. ASSUME NEW C, Notify(C, [type |-> "Ended"])
      PROVE  FinalNotice(c, stream[c][i])'
  <2>1. PICK st \in Notification : st = [type |-> "Ended"]
    BY DEF Notification
  <2>2. FinalNotice(c, st)'
    BY <2>1 DEF FinalNotice
  <2> QED BY <1>2, <1>3, <2>1, <2>2
<1>4. ASSUME NEW S \in SUBSET pool, Author(S)
      PROVE  FinalNotice(c, stream[c][i])'
  <2>0. built + 1 \in Blocks
    BY <1>4, Constants DEF Author, FinalInv, TypeOK, NodeTypeOK, Blocks
  <2>1. PICK st \in Notification : st = [type |-> "InBlock", block |-> built + 1]
    BY <2>0 DEF Notification
  <2>2. FinalNotice(c, st)'
    BY <2>1 DEF FinalNotice
  <2> QED BY <1>2, <1>4, <2>1, <2>2 DEF Author
<1>5. ASSUME Finalize
      PROVE  FinalNotice(c, stream[c][i])'
  <2>1. PICK b \in Blocks : b = chain[fin + 1]
    BY <1>5 DEF Finalize, FinalInv, TypeOK, NodeTypeOK
  <2>2. PICK st \in Notification : st = [type |-> "Finalized", block |-> b]
    BY <2>1 DEF Notification
  <2>3. Finalized(b)' /\ Contents(b)' = Contents(b)
    BY <1>5, <2>1 DEF Finalize, Finalized, Contents, FinalInv, TypeOK, NodeTypeOK
  <2>4. c \in Contents(b) => FinalNotice(c, st)'
    BY <2>2, <2>3 DEF FinalNotice
  <2> QED BY <1>2, <1>5, <2>1, <2>2, <2>4 DEF Finalize
<1>6. ASSUME NEW d \in Calls, Deliver(d)
      PROVE  FinalNotice(c, stream[c][i])'
  <2>1. /\ stream[c] \in Seq(Notification)
        /\ stream[c] # <<>> /\ c = d => stream'[c] = Tail(stream[c])
        /\ c # d => stream'[c] = stream[c]
    BY <1>6 DEF Deliver, FinalInv, TypeOK, NodeTypeOK
  <2>2. CASE c = d
    <3>1. /\ stream[c] # <<>> /\ stream'[c] = Tail(stream[c])
          /\ i \in 1 .. Len(Tail(stream[c]))
      BY <1>6, <2>1, <2>2 DEF Deliver
    <3>2. i + 1 \in 1 .. Len(stream[c]) /\ stream'[c][i] = stream[c][i + 1]
      BY <2>1, <3>1
    <3> QED BY <1>1, <3>2
  <2>3. CASE c # d
    BY <1>1, <2>1, <2>3
  <2> QED BY <2>2, <2>3
<1>7. ASSUME Disconnect
      PROVE  FinalNotice(c, stream[c][i])'
  BY <1>7 DEF Disconnect
<1>8. CASE UNCHANGED stream
  BY <1>1, <1>8
<1> QED
  BY <1>3, <1>4, <1>5, <1>6, <1>7, <1>8 DEF Next, NodeStep, CallStep, Call, Submit,
     Accept, SubmitRejected, Retract, EndTx, vars, poolVars

LEMMA ResolvedStep == FinalInv /\ [Next]_vars => ResolvedIsFinal'
<1> SUFFICES ASSUME FinalInv, [Next]_vars, NEW c \in Calls, Resolved(c)'
             PROVE  /\ Finalized(promise[c].blockHash)'
                    /\ (c \in Contents(promise[c].blockHash))'
                    /\ (promise[c].events = body[promise[c].blockHash][c])'
  BY DEF ResolvedIsFinal
<1>1. CASE promise'[c] = promise[c]
  <2>1. Resolved(c) /\ promise[c] \in Result
    BY <1>1 DEF Resolved, FinalInv, TypeOK
  <2>2. promise[c].blockHash \in Blocks
    BY <2>1 DEF Result
  <2> QED BY <1>1, <2>1, <2>2, FinalityStep DEF FinalInv, ResolvedIsFinal, Contents
<1>2. ASSUME NEW d \in Calls, Deliver(d), promise'[c] # promise[c]
      PROVE  /\ Finalized(promise[c].blockHash)'
             /\ (c \in Contents(promise[c].blockHash))'
             /\ (promise[c].events = body[promise[c].blockHash][c])'
  <2>1. c = d /\ promise'[c] = Settle(c, Head(stream[c])) /\ stream[c] # <<>>
    BY <1>2 DEF Deliver, FinalInv, TypeOK
  <2>2. PICK st \in Notification :
          st = Head(stream[c]) /\ st = stream[c][1] /\ 1 \in 1 .. Len(stream[c])
    BY <2>1 DEF FinalInv, TypeOK, NodeTypeOK
  <2>3. st.type = "Finalized" /\ FinalNotice(c, st)
    BY <1>2, <2>1, <2>2 DEF Settle, FinalInv, NoticesAreFinal
  <2>4. promise'[c] = [blockHash |-> st.block, events |-> body[st.block][c]]
    BY <1>2, <2>1, <2>2, <2>3 DEF Settle
  <2>5. UNCHANGED <<body, chain, fin>>
    BY <1>2 DEF Deliver, chainVars
  <2> QED BY <2>3, <2>4, <2>5 DEF FinalNotice, Finalized, Contents
<1>3. CASE UNCHANGED promise
  BY <1>1, <1>3
<1> QED
  BY <1>1, <1>2, <1>3 DEF Next, NodeStep, CallStep, Call, Submit,
     SubmitRejected, callVars, vars

(***************************************************************************)
(* A promise settles with a block that is final, holds the transaction of  *)
(* that very call, and whose events it carries; for every number of calls, *)
(* overlapping or awaited, retracted blocks and faults.                    *)
(***************************************************************************)
THEOREM ResolvedFinal == Spec => []ResolvedIsFinal
<1>1. Init => FinalInv
  BY FinalInit
<1>2. FinalInv /\ [Next]_vars => FinalInv'
  BY TypeStep, ChainStep, NoticesStep, ResolvedStep DEF FinalInv
<1>3. FinalInv => ResolvedIsFinal
  BY DEF FinalInv
<1> QED BY <1>1, <1>2, <1>3, PTL DEF Spec
=============================================================================
