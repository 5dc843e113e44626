---------------------------- MODULE ChainAdapter ----------------------------
(***************************************************************************)
(* The initialization of chain adapters (packages/adapter/src/chains/      *)
(* chainAdapter.ts, and the override in astar.ts).                         *)
(*                                                                         *)
(* An adapter fills in the parts of its chain config that only the chain   *)
(* knows.  The config objects are exported constants of @oak-network/      *)
(* config, so adapters of one chain share one object, and initialize()     *)
(* may be called several times at once and again after a failure.  Each    *)
(* await is a point where other calls run.                                 *)
(***************************************************************************)
CONSTANTS
  Adapters,
  Chains,
  ChainOf,   \* ChainOf[a]: the chain adapter a's config and api stand for
  HasApi,    \* the adapters whose api is not undefined
  Astar,     \* the adapters that are AstarAdapters
  Inits,     \* invocations of initialize()
  Target,    \* Target[i]: the adapter of invocation i
  Doubtful,  \* the invocations whose query to the chain may be rejected
  Unset      \* an undefined field

ASSUME AdapterAssumption ==
  /\ ChainOf \in [Adapters -> Chains]
  /\ Target \in [Inits -> Adapters]
  /\ HasApi \subseteq Adapters /\ Doubtful \subseteq Inits
  /\ Astar \subseteq Adapters
  /\ \A a, b \in Adapters : ChainOf[a] = ChainOf[b] /\ a \in Astar => b \in Astar
  /\ Unset \notin Chains /\ "Concrete" # Unset

VARIABLES
  isInitialized,  \* isInitialized[a]
  chainConfig,    \* chainConfig[k]: the shared config object of chain k
  pc              \* pc[i]: the await invocation i is at

vars == <<isInitialized, chainConfig, pc>>

\* The prefix and the parachain id of a chain are told apart from those of
\* other chains by the chain itself.
Config == [ss58Prefix : Chains \cup {Unset}, paraId : Chains \cup {Unset},
           instructionNetworkType : {"Concrete", Unset}]

TypeOK ==
  /\ isInitialized \in [Adapters -> BOOLEAN]
  /\ chainConfig \in [Chains -> Config]
  /\ pc \in [Inits -> {"idle", "querying", "answered", "fetched", "done", "failed"}]

Init ==
  /\ isInitialized = [a \in Adapters |-> FALSE]
  /\ chainConfig = [k \in Chains |-> [ss58Prefix |-> Unset, paraId |-> Unset,
                                      instructionNetworkType |-> Unset]]
  /\ pc = [i \in Inits |-> "idle"]

Goto(i, from, to) == pc[i] = from /\ pc' = [pc EXCEPT ![i] = to]

ChainOfInit(i) == ChainOf[Target[i]]

\* Mutant: the codec is kept, toNumber() is forgotten.
SetPrefixCodec(i) ==
  chainConfig' = [chainConfig EXCEPT ![ChainOfInit(i)].ss58Prefix = <<ChainOfInit(i)>>]

\* The read of api.consts is synchronous and happens before the query.
SetPrefix(i) ==
  chainConfig' = [chainConfig EXCEPT ![ChainOfInit(i)].ss58Prefix = ChainOfInit(i)]
-----------------------------------------------------------------------------
\* initialize() of an initialized adapter returns at once.
ReturnEarly(i) ==
  /\ isInitialized[Target[i]]
  /\ Goto(i, "idle", "done")
  /\ UNCHANGED <<isInitialized, chainConfig>>

\* getApi() throws.
NoApi(i) ==
  /\ ~isInitialized[Target[i]]
  /\ Target[i] \notin HasApi
  /\ Goto(i, "idle", "failed")
  /\ UNCHANGED <<isInitialized, chainConfig>>

\* Mutants: the flag is set before the fetch (as before adapter 0.2.8);
\* the fetch is not awaited; the config is cleared before the fetch.
FlagFirst(i) ==
  /\ ~isInitialized[Target[i]] /\ Target[i] \in HasApi
  /\ Goto(i, "idle", "querying")
  /\ SetPrefix(i)
  /\ isInitialized' = [isInitialized EXCEPT ![Target[i]] = TRUE]

NoAwait(i) ==
  /\ ~isInitialized[Target[i]] /\ Target[i] \in HasApi
  /\ Goto(i, "idle", "fetched")
  /\ SetPrefix(i)
  /\ UNCHANGED isInitialized

ClearFirst(i) ==
  /\ ~isInitialized[Target[i]] /\ Target[i] \in HasApi
  /\ Goto(i, "idle", "querying")
  /\ chainConfig' = [chainConfig EXCEPT ![ChainOfInit(i)] =
       [@ EXCEPT !.ss58Prefix = ChainOfInit(i), !.paraId = Unset]]
  /\ UNCHANGED isInitialized

\* initialize() up to the query of parachainInfo.parachainId.
Fetch(i) ==
  /\ ~isInitialized[Target[i]]
  /\ Target[i] \in HasApi
  /\ Goto(i, "idle", "querying")
  /\ SetPrefix(i)
  /\ UNCHANGED isInitialized

QueryRejected(i) ==
  /\ i \in Doubtful
  /\ Goto(i, "querying", "failed")
  /\ UNCHANGED <<isInitialized, chainConfig>>

\* Mutant: nothing is done when the id is known already.
AnswerOnce(i) ==
  /\ chainConfig[ChainOfInit(i)].paraId = Unset
  /\ Goto(i, "querying", "answered")
  /\ chainConfig' = [chainConfig EXCEPT ![ChainOfInit(i)].paraId = ChainOfInit(i)]
  /\ UNCHANGED isInitialized

Answer(i) ==
  /\ Goto(i, "querying", "answered")
  /\ chainConfig' = [chainConfig EXCEPT ![ChainOfInit(i)].paraId = ChainOfInit(i)]
  /\ UNCHANGED isInitialized

\* fetchAndUpdateConfigs() returns, in AstarAdapter to its override.
Fetched(i) ==
  /\ Goto(i, "answered", "fetched")
  /\ IF Target[i] \in Astar
       THEN chainConfig' = [chainConfig EXCEPT
              ![ChainOfInit(i)].instructionNetworkType = "Concrete"]
       ELSE UNCHANGED chainConfig
  /\ UNCHANGED isInitialized

\* onInitialize() returns to initialize().
Finish(i) ==
  /\ Goto(i, "fetched", "done")
  /\ isInitialized' = [isInitialized EXCEPT ![Target[i]] = TRUE]
  /\ UNCHANGED chainConfig

Step(i) == ReturnEarly(i) \/ NoApi(i) \/ Fetch(i) \/ QueryRejected(i)
             \/ Answer(i) \/ Fetched(i) \/ Finish(i)

Next == \E i \in Inits : Step(i)

Spec == Init /\ [][Next]_vars

\* The chain answers a query or the query is rejected, and the event loop
\* runs what waits for the answer.
FairSpec == Spec /\ \A i \in Inits :
  WF_vars(QueryRejected(i) \/ Answer(i) \/ Fetched(i) \/ Finish(i))
-----------------------------------------------------------------------------
\* getLocation() returns a location; otherwise it throws.
LocationKnown(a) == chainConfig[ChainOf[a]].paraId # Unset

Ready(a) ==
  LET config == chainConfig[ChainOf[a]]
  IN  /\ config.ss58Prefix = ChainOf[a]
      /\ config.paraId = ChainOf[a]
      /\ a \in Astar => config.instructionNetworkType = "Concrete"

(***************************************************************************)
(* An adapter that says it is initialized has its whole config, whatever   *)
(* calls overlapped or failed and whoever else fetched into the same       *)
(* config object ("Set the 'isInitialized' variable after initialization   *)
(* is completed", packages/adapter/CHANGELOG.md line 13).                  *)
(***************************************************************************)
ReadyWhenInitialized == \A a \in Adapters : isInitialized[a] => Ready(a)

(***************************************************************************)
(* A caller that awaited initialize() can use the adapter: getLocation()   *)
(* does not throw, also when initialize() returned early (line 34).        *)
(***************************************************************************)
ReadyWhenAwaited == \A i \in Inits :
  pc[i] = "done" => /\ isInitialized[Target[i]]
                    /\ Ready(Target[i]) /\ LocationKnown(Target[i])

(***************************************************************************)
(* A later or overlapping initialization never takes back what an earlier  *)
(* one wrote: a location that getLocation() once returned stays the same.  *)
(***************************************************************************)
ConfigIsKept == [][\A a \in Adapters : LocationKnown(a) =>
  chainConfig'[ChainOf[a]].paraId = chainConfig[ChainOf[a]].paraId]_vars

(***************************************************************************)
(* Every call of initialize() settles, and a retry after a failed call     *)
(* succeeds when the chain answers it.                                     *)
(***************************************************************************)
InitializeSettles == \A i \in Inits :
  pc[i] = "querying" ~> pc[i] = "done" \/ (i \in Doubtful /\ pc[i] = "failed")
=============================================================================
