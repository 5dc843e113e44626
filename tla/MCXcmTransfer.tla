--------------------------- MODULE MCXcmTransfer ---------------------------
(***************************************************************************)
(* Transfers over the tables of every network.                             *)
(***************************************************************************)
EXTENDS XcmTransfer, FiniteSets, TLC

CONSTANTS t1, t2

Hex(length, digit) == [i \in 1 .. length |-> digit]

Substrate == Hex(64, 1)
Ethereum  == Hex(40, 2)

\* A substrate, an ethereum, a misspelt ethereum and a cut address.
Recipients == [hex : {Substrate, Ethereum}, checksum : {TRUE}]
                \cup {[hex |-> Hex(40, 3), checksum |-> FALSE], [hex |-> Hex(39, 4), checksum |-> TRUE]}

SenderOn(k, f) ==
  IF f = "crossChainTransferWithEthSigner" \/ Family(k) = "moonbeam"
  THEN Hex(40, 5) ELSE Hex(64, 5)

Request(f, k, l, recipient, asset, amount) ==
  [function |-> f, source |-> k, destination |-> l, recipient |-> recipient,
   asset |-> asset, amount |-> amount, sender |-> SenderOn(k, f), api |-> TRUE]

Offers(f, k) ==
  CASE f = "crossChainTransfer" -> TRUE
    [] f = "crossChainTransferWithEthSigner" -> Family(k) \in {"astar", "moonbeam"}
    [] f = "transferMultiasset" -> Family(k) = "oak"

AllFunctions == CrossChain \cup {"transferMultiasset"}

Neighbours(k) == {l \in Chains \ {k} : Network(l) = Network(k)}

AnyRequest ==
  UNION {{Request(fk[1], fk[2], l, recipient, asset, 1) :
            l \in Neighbours(fk[2]), recipient \in Recipients, asset \in Listed(fk[2])}
           \cup {Request(fk[1], fk[2], l, recipient, asset, 2) :
            l \in Neighbours(fk[2]), recipient \in {[hex |-> Substrate, checksum |-> TRUE]},
            asset \in Listed(fk[2])}
         : fk \in {p \in AllFunctions \X Chains : Offers(p[1], p[2])}}

\* Requests that draw on the same funds or meet at a recipient.
Rivals ==
  {r \in AnyRequest : /\ r.amount = 1 /\ r.recipient.checksum /\ Len(r.recipient.hex) # 39
                      /\ {r.source, r.destination} \in
                           {{"turing", "moonriver"}, {"turing", "shiden"}}
                      /\ r.asset = Tur}

\* A transfer of the native asset to the same destination.
Plain(r) == Request("crossChainTransfer", r.source, r.destination,
                    [hex |-> Substrate, checksum |-> TRUE], Native(r.source), 1)

\* Transfers by adapters without an api.
WithoutApi ==
  {[r EXCEPT !.api = FALSE] : r \in {s \in AnyRequest : /\ s.recipient.hex = Substrate
                                                         /\ s.amount = 1 /\ s.asset = Native(s.source)
                                                         /\ Network(s.source) = "kusama"}}

\* One transfer of any kind beside a plain one, and every two rivals.
MCWorkloads ==
  {(t1 :> r) @@ (t2 :> Plain(r)) : r \in AnyRequest \cup WithoutApi}
    \cup {(t1 :> r) @@ (t2 :> u) : r \in Rivals, u \in Rivals}

MCPurse ==
  [h \in {g \in Chains \X {Substrate, Ethereum, Hex(40, 5), Hex(64, 5)} \X Assets :
            g[3] \in Listed(g[1])} |->
     IF h[2] \in {Hex(40, 5), Hex(64, 5)} THEN 1 ELSE 0]
=============================================================================
