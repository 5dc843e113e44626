---------------------------- MODULE ChainTables ----------------------------
(***************************************************************************)
(* The chains of every network and the assets they list                    *)
(* (packages/config/src/tokens and chains).  An asset is its absolute      *)
(* location: xcTur and tur have the same one, and so have assets of        *)
(* different networks.  The Polkadot network has no chain.                 *)
(***************************************************************************)
EXTENDS Naturals, Sequences

ConstructLocation(parachainId, interior) ==
  [parents |-> 1, interior |-> <<[Parachain |-> parachainId]>> \o interior]

\* The location of tur in every network; of mgx and mgr.
Tur == ConstructLocation(2114, <<>>)
Mgx == ConstructLocation(2110, <<[GeneralKey |-> [data |-> [i \in 1 .. 64 |-> 0], length |-> 4]]>>)

Movr == ConstructLocation(2023, <<[PalletInstance |-> 10]>>)
Sdn  == ConstructLocation(2007, <<>>)
Rstr == ConstructLocation(2006, <<>>)
Sby  == ConstructLocation(2000, <<>>)

\* dev of the moonbase network, unit of the local one.
Unit == ConstructLocation(1000, <<[PalletInstance |-> 3]>>)

\* The network, the asset that isNative and the other assets, of the chains
\* of each family.
Oak ==
  [turing         |-> [network |-> "kusama",   native |-> Tur, foreign |-> {Sdn, Movr, Mgx}],
   turingStaging  |-> [network |-> "rococo",   native |-> Tur, foreign |-> {Rstr}],
   turingMoonbase |-> [network |-> "moonbase", native |-> Tur, foreign |-> {}],
   turingLocal    |-> [network |-> "dev",      native |-> Tur, foreign |-> {Sby, Unit, Mgx}]]

Astar ==
  [shiden  |-> [network |-> "kusama", native |-> Sdn,  foreign |-> {}],
   rocstar |-> [network |-> "rococo", native |-> Rstr, foreign |-> {}],
   shibuya |-> [network |-> "dev",    native |-> Sby,  foreign |-> {}]]

Mangata ==
  [mangata       |-> [network |-> "kusama", native |-> Mgx, foreign |-> {Tur}],
   mangataRococo |-> [network |-> "rococo", native |-> Mgx, foreign |-> {Tur}],
   mangataLocal  |-> [network |-> "dev",    native |-> Mgx, foreign |-> {Tur}]]

Moonbeam ==
  [moonriver     |-> [network |-> "kusama",   native |-> Movr, foreign |-> {Tur}],
   moonbaseAlpha |-> [network |-> "moonbase", native |-> Unit, foreign |-> {Tur}],
   moonbaseLocal |-> [network |-> "dev",      native |-> Unit, foreign |-> {Tur}]]

Chains == DOMAIN Oak \cup DOMAIN Astar \cup DOMAIN Mangata \cup DOMAIN Moonbeam
Assets == {Tur, Mgx, Movr, Sdn, Rstr, Sby, Unit}

Family(k) == CASE k \in DOMAIN Oak      -> "oak"
               [] k \in DOMAIN Astar    -> "astar"
               [] k \in DOMAIN Mangata  -> "mangata"
               [] k \in DOMAIN Moonbeam -> "moonbeam"

Entry(k) == CASE k \in DOMAIN Oak      -> Oak[k]
              [] k \in DOMAIN Astar    -> Astar[k]
              [] k \in DOMAIN Mangata  -> Mangata[k]
              [] k \in DOMAIN Moonbeam -> Moonbeam[k]

\* createChain is given it for the chains of these families.
IsEthereum(k) == Family(k) \in {"astar", "moonbeam"}

Network(k) == Entry(k).network
Native(k) == Entry(k).native
Listed(k) == {Native(k)} \cup Entry(k).foreign

\* Turing lists MGX, which is not registered there yet (kusama.ts, line 25).
NotRegisteredYet(k) == IF k = "turing" THEN {Mgx} ELSE {}

Registered(k) == Listed(k) \ NotRegisteredYet(k)

IsNativeAsset(k, assetLocation) == assetLocation = Native(k)

\* The parachain id of a chain, as the chain itself answers.
ParachainId(k) == Native(k).interior[1].Parachain

ASSUME DistinctChains ==
  \A k, l \in Chains : Network(k) = Network(l) /\ ParachainId(k) = ParachainId(l) => k = l
=============================================================================
