---------------------------- MODULE XcmTransfer ----------------------------
(***************************************************************************)
(* Cross-chain transfers (crossChainTransfer of the four adapters,         *)
(* crossChainTransferWithEthSigner of AstarAdapter and MoonbeamAdapter,    *)
(* transferMultiasset of OakAdapter) and the chains that carry them out.   *)
(*                                                                         *)
(* A transfer names its asset and its beneficiary by locations.  Each      *)
(* chain reads the asset's location from where it stands; the contract     *)
(* calls write locations as byte strings.  Fees are left out, and a        *)
(* message between two foreign chains goes through the asset's home        *)
(* without a step of its own.                                              *)
(***************************************************************************)
EXTENDS XcmLocation, ChainTables

CONSTANTS
  Transfers,
  Workloads,  \* bound: what the callers of all transfers ask for
  Purse,      \* bound: Purse[h]: funds of holding h at the start
  Unset       \* undefined

CrossChain == {"crossChainTransfer", "crossChainTransferWithEthSigner"}

ASSUME WorkloadAssumption == \A w \in Workloads : DOMAIN w = Transfers

ASSUME RequestAssumption == \A w \in Workloads, t \in Transfers : LET r == w[t] IN
  /\ r.function \in CrossChain \cup {"transferMultiasset"}
  /\ r.source \in Chains /\ r.destination \in Chains \ {r.source}
  /\ Network(r.source) = Network(r.destination)
  /\ r.asset \in Assets /\ r.amount \in Nat /\ r.recipient.hex \in Seq(0 .. 15)
  /\ r.api \in BOOLEAN
  /\ r.function = "crossChainTransferWithEthSigner" =>
       Family(r.source) \in {"astar", "moonbeam"}
  /\ r.function = "transferMultiasset" => Family(r.source) = "oak"

ASSUME PurseAssumption ==
  /\ Purse \in [DOMAIN Purse -> Nat]
  /\ \A w \in Workloads, t \in Transfers : LET r == w[t] IN
       r.asset \in Listed(r.source) => <<r.source, r.sender, r.asset>> \in DOMAIN Purse

ASSUME UnsetAssumption == Unset \notin Nat

VARIABLES
  paraId,   \* paraId[k]: the field of the config of chain k, Unset before initialize()
  request,  \* request[t]
  pc,       \* pc[t]
  call,     \* call[t]: the locations of the asset and the beneficiary
  funds     \* funds[<<chain, account, asset>>]

vars == <<paraId, request, pc, call, funds>>

Outcomes == {"threw", "refused", "received", "trapped"}

TypeOK ==
  /\ paraId \in [Chains -> Nat \cup {Unset}]
  /\ DOMAIN request = Transfers
  /\ pc \in [Transfers -> {"asked", "built", "moving"} \cup Outcomes]
  /\ \A t \in Transfers : pc[t] \notin {"asked", "threw"} =>
       /\ call[t].asset.parents \in 0 .. 1
       /\ call[t].beneficiary.parents = 1
  /\ funds \in [DOMAIN Purse -> Nat]

Init ==
  /\ paraId = [k \in Chains |-> Unset]
  /\ request \in Workloads
  /\ pc = [t \in Transfers |-> "asked"]
  /\ call = [t \in Transfers |-> Unset]
  /\ funds = Purse
-----------------------------------------------------------------------------
\* Whether the call ends before anything is built.  The caller of a cross-
\* chain transfer takes the destination from getLocation(), which throws too.
\* An adapter without an api throws in getApi(), or transferMultiasset returns
\* undefined; crossChainTransferWithEthSigner does not use the api.
Throws(r) ==
  \/ ~r.api /\ r.function # "crossChainTransferWithEthSigner"
  \/ /\ r.function \in CrossChain
     /\ \/ paraId[r.destination] = Unset
        \/ AccountTypeOf(r.recipient) = "unrecognized"
        \/ ~IsValidAddress(r.recipient, AccountTypeOf(r.recipient) = "AccountKey20")
  \/ /\ r.function = "transferMultiasset"
     /\ \/ r.asset \notin Listed(r.source)
        \/ ~IsValidAddress(r.recipient, IsEthereum(r.destination))

RecipientType(r) ==
  IF r.function \in CrossChain THEN AccountTypeOf(r.recipient)
  ELSE IF IsEthereum(r.destination) THEN "AccountKey20" ELSE "AccountId32"

\* Mutants: an account in the form of the source chain; the beneficiary on
\* the home chain of the asset; a location that starts at the source itself.
BeneficiaryOfSource(r) ==
  [parents |-> 1,
   interior |-> <<[Parachain |-> paraId[r.destination]],
                  AccountJunction(IF IsEthereum(r.source) THEN "AccountKey20"
                                  ELSE "AccountId32", r.recipient.hex)>>]

BeneficiaryAtHome(r) ==
  [parents |-> 1,
   interior |-> <<r.asset.interior[1], AccountJunction(RecipientType(r), r.recipient.hex)>>]

BeneficiaryInside(r) ==
  [parents |-> 0, interior |-> <<AccountJunction(RecipientType(r), r.recipient.hex)>>]

Beneficiary(r) ==
  [parents |-> 1,
   interior |-> <<[Parachain |-> paraId[r.destination]],
                  AccountJunction(RecipientType(r), r.recipient.hex)>>]

\* OakAdapter and MangataAdapter leave the location as it is.
AssetLocation(r) ==
  IF Family(r.source) \in {"astar", "moonbeam"} /\ IsNativeAsset(r.source, r.asset)
  THEN ConvertAbsoluteLocationToRelative(r.asset) ELSE r.asset

\* The contract is given encoded locations and reads them.
Passed(r, location) ==
  IF r.function = "crossChainTransferWithEthSigner"
  THEN Decode(ConvertLocationToPrecompileMultiLocation(location)) ELSE location

Build(t) ==
  LET r == request[t]
  IN  /\ pc[t] = "asked"
      /\ IF Throws(r)
           THEN pc' = [pc EXCEPT ![t] = "threw"] /\ UNCHANGED call
           ELSE /\ pc' = [pc EXCEPT ![t] = "built"]
                /\ call' = [call EXCEPT ![t] =
                     [asset |-> Passed(r, AssetLocation(r)),
                      beneficiary |-> Passed(r, Beneficiary(r))]]
      /\ UNCHANGED <<paraId, request, funds>>

\* initialize() of an adapter of chain k completes the shared config; those
\* of chains nobody sends to play no part.
Initialize(k) ==
  /\ \E t \in Transfers : request[t].destination = k
  /\ paraId[k] = Unset
  /\ paraId' = [paraId EXCEPT ![k] = ParachainId(k)]
  /\ UNCHANGED <<request, pc, call, funds>>
-----------------------------------------------------------------------------
\* The chains.  They know the assets registered with them, which is not all
\* that their adapters list.  Astar and Moonbeam chains know their own asset by its
\* relative location only, the others by its absolute one.
Denotes(k, location, asset) ==
  /\ asset \in Registered(k)
  /\ IF Family(k) \in {"astar", "moonbeam"} /\ asset = Native(k)
       THEN location = [parents |-> 0, interior |-> Tail(asset.interior)]
       ELSE location = asset

\* An undefined Parachain field encodes as 0; no channel of the network of
\* chain s leads there.
Leads(s, beneficiary, k) ==
  /\ Network(k) = Network(s)
  /\ beneficiary.parents = 1 /\ beneficiary.interior[1] = [Parachain |-> ParachainId(k)]

\* The accounts a chain can hold funds for; an Astar chain has both.
Holds(k, junction) ==
  \/ Has(junction, "AccountKey20") /\ Family(k) \in {"moonbeam", "astar"}
  \/ Has(junction, "AccountId32") /\ Family(k) # "moonbeam"

Sender(r) == <<r.source, r.sender, r.asset>>
Recipient(r) == <<r.destination, r.recipient.hex, r.asset>>

Dispatch(t) ==
  LET r == request[t]
      leaves == /\ Denotes(r.source, call[t].asset, r.asset)
                /\ \E k \in Chains \ {r.source} : Leads(r.source, call[t].beneficiary, k)
                /\ funds[Sender(r)] >= r.amount
  IN  /\ pc[t] = "built"
      /\ pc' = [pc EXCEPT ![t] = IF leaves THEN "moving" ELSE "refused"]
      /\ funds' = IF leaves THEN [funds EXCEPT ![Sender(r)] = @ - r.amount] ELSE funds
      /\ UNCHANGED <<paraId, request, call>>

Deliver(t) ==
  LET r == request[t]
      account == call[t].beneficiary.interior[2]
      hex == IF Has(account, "AccountKey20") THEN account.AccountKey20.key
             ELSE IF Has(account, "AccountId32") THEN account.AccountId32.id ELSE <<>>
  IN  /\ pc[t] = "moving"
      /\ \E k \in Chains :
           /\ Leads(r.source, call[t].beneficiary, k)
           /\ IF r.asset \in Registered(k) /\ Holds(k, account)
                THEN /\ pc' = [pc EXCEPT ![t] = "received"]
                     /\ funds' = [funds EXCEPT ![<<k, hex, r.asset>>] = @ + r.amount]
                ELSE pc' = [pc EXCEPT ![t] = "trapped"] /\ UNCHANGED funds
      /\ UNCHANGED <<paraId, request, call>>

Step(t) == Build(t) \/ Dispatch(t) \/ Deliver(t)

Next == (\E t \in Transfers : Step(t)) \/ (\E k \in Chains : Initialize(k))

Spec == Init /\ [][Next]_vars
-----------------------------------------------------------------------------
(***************************************************************************)
(* Whichever function, adapters and kind of signer, a transfer moves what  *)
(* was asked to whom it was asked for, or nothing.                         *)
(***************************************************************************)
Ledger == INSTANCE TransferLedger WITH
  order <- [t \in Transfers |-> [from |-> Sender(request[t]), to |-> Recipient(request[t]),
                                 amount |-> request[t].amount]],
  status <- [t \in Transfers |-> CASE pc[t] \in {"asked", "built"}  -> "asked"
                                   [] pc[t] \in {"threw", "refused"} -> "refused"
                                   [] OTHER -> pc[t]]

ImplementsLedger == Ledger!Spec

(***************************************************************************)
(* An asset is trapped for what its caller chose: a destination that does  *)
(* not list it, or an account of a kind the destination does not have      *)
(* (crossChainTransfer has the address only and cannot know).  One table   *)
(* misleads the caller: MGX sent to Turing, which lists it, is trapped.    *)
(***************************************************************************)
TrappedOnlyByCaller == \A t \in Transfers : pc[t] = "trapped" =>
  LET r == request[t]
  IN  \/ r.asset \notin Listed(r.destination)
      \/ r.asset = Mgx /\ r.destination = "turing"
      \/ /\ r.function \in CrossChain
         /\ ~Holds(r.destination, AccountJunction(AccountTypeOf(r.recipient), <<>>))

(***************************************************************************)
(* Every asset a table lists, but for MGX on Turing, can be sent from the  *)
(* chain that lists it: the chain refuses a transfer only for want of      *)
(* funds, or when transferMultiasset was given a config that was not       *)
(* initialized (it reads paraId without the check getLocation() makes).    *)
(***************************************************************************)
RefusedOnlyForFunds == \A t \in Transfers : pc[t] = "refused" =>
  LET r == request[t]
  IN  \/ r.asset \notin Listed(r.source)
      \/ r.asset = Mgx /\ r.source = "turing"
      \/ Purse[Sender(r)] < r.amount
      \/ \E u \in Transfers \ {t} : /\ Sender(request[u]) = Sender(r)
                                    /\ pc[u] \in {"moving", "received", "trapped"}
      \/ /\ r.function = "transferMultiasset"
         /\ call[t].beneficiary.interior[1] = [Parachain |-> Unset]
=============================================================================
