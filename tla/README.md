# A verification project for oak.js

oak.js is the SDK of the OAK/Turing network: packages that let an application schedule tasks
(`automationTime`, `automationPrice`), send XCM messages and stake. It is TypeScript over the
polkadot API; what is hard about it is not in one function but between functions: promises that
overlap, several chains that move on between two queries, and encodings that another chain reads.

The modules here model the code under `src/`; a line in a comment such as "(lines 58 to 60)" refers
to the file named at the head of its module. `PROJECT.json` maps each definition to its lines.

## 1. Inventory

| Component | State it keeps | Operations | Interacts with | What is hard | What makes it correct |
|---|---|---|---|---|---|
| Extrinsic submission (`adapter/src/utils.ts`, `sendExtrinsic`) | a promise per call; the node's pool, chain and subscription behind it | `sendExtrinsic` and its status callback | the node (nonce query, submission, notifications), every adapter above | overlapping calls, forks, lost transactions and sockets, a promise nobody rejects | settles once, with the final outcome of its own transaction; awaited calls are ordered on the chain |
| Adapter initialization (`chainAdapter.ts`, override in `astar.ts`) | `isInitialized` per adapter; config objects shared between adapters | `initialize`, `onInitialize`, `fetchAndUpdateConfigs`, `getLocation` | the chain; every flow and transfer reads what it writes | overlapping, failing and repeated initializations of one shared object | the flag and the return of `initialize()` imply a complete config, which is never taken back |
| Staking operations (`oak.ts`) | what each operation has read | `delegateWithAutoCompound`, `setAutoCompound`, `bondMore`, `getDelegation`, `getAutoCompoundingDelegationPercentage` | `parachainStaking` storage and dispatch, `sendExtrinsic` | hints go stale between the queries and the dispatch; other delegators and candidates move | refused by the chain only for what it could not know; throws only what the chain would refuse; what was set is read back |
| Task scheduling flows (`sdk/src/index.ts`, `task-builder/`, the adapters) | weights and fees read so far | four exported flows: time or price trigger, payment by the remote derivative or the sovereign account | two adapters, two chains, the task pallet, XCM executors | rates and weights are read one by one and used much later, elsewhere | what is paid suffices for both messages; a flow throws only for what the caller can put right |
| Weights and fees (`config/.../Weight.ts`, `weightToFee` of the adapters) | none | overall weights, fees, JSON | flows | two dimensions, integer widths, rounding | fee covers weight |
| Locations, accounts and units (`utils.ts`, `contract-utils.ts`) | none | `convertAbsoluteLocationToRelative`, `getAccountTypeFromAddress`, `isValidAddress`, encoding for precompiled contracts, derivative accounts | transfers, flows, contracts on other chains | byte strings another chain decodes by position | what is written denotes what was meant |
| Cross-chain transfers (the four adapters) | none of their own; balances on two chains | `crossChainTransfer`, `crossChainTransferWithEthSigner`, `transferMultiasset` | chain and token tables, locations, xTokens and contracts | three kinds of chains, two kinds of accounts, configs that may not be initialized | the asset reaches the account that was named, or nothing changes |
| Chain, token and contract tables (`config/src`) | constants | constructors, `isNative` and other tests | everything | — | asset locations are those the chains know |
| Recurrence helpers (`test/utils/recurrer.ts`) | none | hourly, daily, weekly, monthly time stamps | task API helper | ends of months and years, hours reached already | time stamps in the future, in order, nothing skipped |
| Task API helper (`test/utils/apis/AutomationTimeApi.ts`, `helpFn.ts`) and the tests over it (`test/functional/`) | none; the tasks on the chain | build, sign, send, verify, cancel; validate time stamps | node, `automationTime` pallet, recurrence helpers | the clock moves on between computing, validating and dispatching; a task runs while it is being cancelled; a test that times out goes on | what a call that returned has promised holds on the chain; every call ends; accepts exactly the slots still to come |
| Demo scripts (`demo/src`) | a subscription and a timer | schedule a task; listen for an event with a timeout | node | the timeout races the subscription, the event and queued callbacks | nothing is left behind by the loser; every listener with a timeout ends |
| RPC and runtime types, API augmentation, contract interfaces, build files | none | none | — | — | data |

How they fit: an application creates adapters over the shared configs and awaits `initialize()`; it
calls a flow, a transfer or a staking operation on them; these read from one or two chains, build an
extrinsic and hand it to `sendExtrinsic`, whose promise the application awaits.

## 2. Modules

| Module | Models | State and actions ↔ code |
|---|---|---|
| `TxNode` (external) | the node as `sendExtrinsic` depends on it | `pool`, `watched`, `stream`, `body`/`chain`/`fin`; `Author`, `Retract`, `Finalize`, `EndTx` (dropped, invalid, finality timeout), `Disconnect`, `Accept`, `IsNextIndex` for nonce -1 |
| `SendExtrinsic` | `sendExtrinsic` | `Call` (nonce query), `Submit`, `SubmitRejected`, `Deliver` (one invocation of the callback: logging and `resolve`); `promise[c]`, `reported[c]` (errors logged, by block) |
| `TxOutcome` | what `sendExtrinsic` promises, without nodes or callbacks | refined by `SendExtrinsic` (`ImplementsTxOutcome`) |
| `SendExtrinsic_proofs`, `SendExtrinsic_order_proofs` | proofs: of finality; of order, nonces, reports and the refinement | |
| `ChainAdapter`, `ChainAdapter_proofs` | `initialize` with each await as a step | `isInitialized[a]`, `chainConfig[k]` (one object per chain, shared by its adapters), `pc[i]`; `Fetch` writes the prefix and asks, `Answer`/`QueryRejected`, `Fetched` (Astar's override), `Finish` |
| `StakingPallet` (external) | the storage the queries read and the dispatch with its errors; `OtherMove`: other accounts and candidates | |
| `Delegation`, `Delegation_proofs` | the three staking operations, one action per await, and the two functions that read back (`Read`) | `hint[o]`, `errors[o]`, `answer[r]`; `changes[o]` counts what moved while `o` ran |
| `StakingLedger` | what the staking operations promise: transactions on what the account holds, without queries, hints and the delegations of others | refined by `Delegation` (`ImplementsStakingLedger`); `spare` is what is not staked, `held` the number of delegations |
| `ScheduleFlow`, `ScheduleFlow_proofs` | the four flows, one action per await, then `Schedule` and `Trigger` on the chains; weights of two dimensions (`Weight.ts`) | `task[f]` and `message[f]`: weights and fee of the two messages; `Upgrade`: rates and weights move |
| `XcmLocation` | pure operators: locations, addresses, encoding for contracts, and what a contract reads back | |
| `ChainTables` | the chain and token tables of every network | records by chain, one per family; `Listed(k)` is what the table of a chain says, `Registered(k)` what the chain has: all of it but MGX on Turing (`kusama.ts:25`) |
| `XcmTransfer`, `XcmTransfer_proofs` | the transfers and the chains that carry them out | `Build` (checks, an adapter without an api among them, and locations), `Dispatch`, `Deliver`, `Initialize`; `paraId[k]` is the shared config field |
| `TransferLedger` | what a transfer promises | refined by `XcmTransfer` (`ImplementsLedger`) |
| `Calendar` (external) | the UTC part of JavaScript's `Date`, four years in ticks of 14.4 s | 14.4 s divides an hour, a day and 604800 ms |
| `Recurrer` | `recurrer.ts` as operators | |
| `RecurringSchedule`, `RecurringSchedule_proofs` | a caller that computes times, waits, validates, waits, and has the chain check them (the repository has the functions but no such caller: it is the one their comments suppose) | `Compute`, `Wait`, `ValidateTimestamps`, `Dispatch` |
| `AutomationTime` (external) | the task storage, its errors, and the slots that begin | `due[t]`: the slots a task is in; `NextSlot` triggers and reschedules |
| `ListenEvents` | `listenEvents` of `demo/src/utils.js` | `subscription`, `timer`, `queue` (callbacks to run), `answer`; `Listen`, `Subscribed`/`SubscribeFails`, `Callback`, `TimerFires` |
| `TaskScripts`, `TaskScripts_proofs` | the tests and the demo scripts that schedule and cancel tasks, composed with `AutomationTime` and `ListenEvents` | `Begin` (reads the clock), `Sign` (nonce -1 for the tests, which counts the pool; the demos sign without one, so their nonce is that of the chain), `Submit`/`Refused`, `Include` (dispatch), `Finalized`, `Verify`; `Expire`: jest gives up on a test and starts the next |
| `TaskLife` | what the calls that schedule and cancel tasks promise, without clocks, nonces, pools and blocks | refined by `TaskScripts` (`ImplementsTaskLife`) |

Each `MC*` module instantiates one of them for TLC. A definition whose comment begins with
"Mutant" is a plausible bug: `PROJECT.json` names, for every property, the one that breaks it.

## 3. Runs

| Run | Shows | Instance and bounds |
|---|---|---|
| `send_faults` | `TypeOK`, `ResolvedIsFinal`, `AwaitOrdersChain`, `AwaitedNonceIsUsed`, `FailureIsReported`, `ImplementsTxOutcome`: with forks and every fault, a promise that settles does so with the final outcome of its own transaction | three calls of one account, two overlap and one awaits the first; 3 blocks, 1 retraction. A fork that changes an outcome needs 2 blocks and 1 retraction; a third block orders an awaited call after it |
| `send_overlap` | `SettlesOrGivenUp` (liveness): a call settles unless the node refused or replaced its transaction | two overlapping calls of one account, one of another; 4 blocks, 1 retraction, no faults. Four blocks leave room for every transaction after the retraction |
| `send_returns` | expected violation of `EveryCallReturns` | two overlapping calls of one account suffice |
| `chain_adapter` | `TypeOK`, `ReadyWhenInitialized`, `ReadyWhenAwaited`, `ConfigIsKept`, `InitializeSettles` (liveness) | two adapters of one Astar chain, one of an OAK chain, one without api; six invocations, of which three may fail: overlap on one adapter, on one config, retries |
| `delegation` | `TypeOK`, `UndisturbedOutcome`, `RoomForOneChange`, `AwaitedDelegationIsUsable`, `ReadsBackWhatWasSet`, `ImplementsStakingLedger` (transactions, which throw only when they are not permitted) | two collators, five operations in two overlapping sequences, an amount at the minimum and one below, the latter after the others, a read of an amount and one of a percentage; 2 moves of others. The room is for one change, two show what lies beyond. 0.6 million states |
| `delegation_balance` | expected violation of `InsufficientIsRefused` | no moves of others |
| `schedule_flow` | `TypeOK`, `PaidMessagesExecute`, `ThrowsOnlyWhenUnready` | two time flows (Astar caller with an overall weight, Moonbeam caller with an instruction count) and a sovereign price flow; three weights, of which two are greater in one dimension each; one upgrade at any moment, of one chain, to any rate (or none) and weight. One upgrade reaches every pair of reads, since a flow reads each value once. An instruction weighs differently on the two chains. 3.6 million states |
| `schedule_throws` | expected violation of `SomeTaskIsBuilt` | a price flow through the remote account and a time flow through the sovereign one: neither creates its task |
| `transfer` | `TypeOK`, `TrappedOnlyByCaller`, `RefusedOnlyForFunds`, `ImplementsLedger` | every function, pair of chains of one network, listed asset and kind of address (substrate, ethereum, wrong checksum, cut), beside a plain transfer on the same way; native assets of one network by adapters without an api; every two TUR transfers among three chains with funds for one each. MGX to and from Turing is among them, and is what the two invariants except by name |
| `recurring` | `TypeOK`, `TimesAreNext`, `MonthlyIsMonthly`, `ValidUntilReached`, `ValidatedIsAccepted` | starts at midnight, 7 and 23 and a tick around them, at ends of months, a leap day and a year; up to 25 times, 8 months; 4 delays around an hour, before the validation and before the dispatch. Eight months reach beyond the scheduling limit of six |
| `recurring_weekly` | expected violation of `WeeklyIsWeekly` | two weekly times |
| `tasks` | `TypeOK`, `CancelledIsGone`, `ReturnedScheduleRuns`, `PastOnlyWhenLate`, `RefusedOnlyInOverlap`, `QuietAfterAnswer`, `ImplementsTaskLife`, `EveryCallEnds`, `ListenerEnds` (the last two liveness) | six scenarios of one account: three tests (cancel a task that is not there; schedule, cancel, cancel again; schedule a recurring task, cancel) in pairs, with and without a demo script beside them, two demos beside one another, and a demo with a listener that gives up and one that does not; any test may expire; 3 slots begin, an hour of 2 slots and a day of 3. Three slots are enough for a task to run and reschedule itself before, during and after its cancellation |

Deadlock is not checked: in every run the callers' work is finite, or time is bounded, so the system stops.

### Fairness

* `SendExtrinsic`: the node answers a submission, includes a transaction that stays includable, and
  finalizes; the event loop runs a callback that is due. All weak, none for faults, retractions or
  for a caller making a call.
* `ChainAdapter`: a query is answered or rejected, and what waits for it runs. This is the promise
  contract of the polkadot API.
* `TaskScripts`: while a call that has begun can go on, some call does, and timers fire. That is
  the node answering and building blocks and the event loop running what is due. Nothing is assumed
  of callers, of time, or of the answer to a subscription: `ListenerEnds` holds without one.

### What the violations show

* `send_returns`: `signAndSend(...)` (`utils.ts:30`) is neither awaited nor caught and the callback
  resolves on `Finalized` only, so a call whose transaction is refused or replaced never settles;
  two overlapping calls of one account can read one nonce.
* `delegation_balance`: `!this.hasEnoughFreeBalance(...)` (`oak.ts:385`, 484) negates a promise;
  the error below it is never thrown.
* `schedule_throws`: the time flow passes `PayThroughSoverignAccount`, which the runtime's enum
  does not have (`oak.ts:29`); the builder of the price flow gives the extrinsic fifteen arguments,
  it takes fourteen (`AutomationPriceTaskBuilder.ts:33`). Neither call can be encoded.
* `recurring_weekly`: 604800 is added to milliseconds (`recurrer.ts:137`).

Other places where code and comment part, for which there is no run, and how the properties allow
for them:

* `kusama.ts:25` lists MGX among the assets of Turing and says "MGX is not registered on Turing yet".
  A transfer that relies on the table is trapped there, or refused when it starts there;
  `TrappedOnlyByCaller` and `RefusedOnlyForFunds` except exactly this asset on this chain.
* The demo scripts sign without a nonce (`scheduleFixedDynamicDispatchTask.js:36` and the same line
  of the recurring one), which takes the nonce of the chain and overlooks what is in the pool: a
  demo that signs beside a pending call of its account replaces it or is refused.
  `RefusedOnlyInOverlap` bounds the harm: only calls that overlap and are signed with one nonce.
* `findDayOfWeekInMonthForStartDate` adds the same seconds to milliseconds (`recurrer.ts:186`), so
  the week of the month has no effect; `getMonthlyRecurringTimestampsByDate` compares dates only
  (line 164), so on the date itself its first time stamp may lie in the past.
* `AutomationTimeApi.ts:115` promises a check against a scheduling limit. Line 136 never finds a
  time too far: the limit is undefined (the config has `scheduleLimit`, the code reads
  `schedulingTimeLimit`) and seconds are compared with milliseconds. `ValidatedIsAccepted` says
  which schedules the chain refuses in consequence.
* The verification in `helpFn.ts` (lines 298 to 307 and 364 to 383) compares one character with an
  id and asserts that nothing is found, also after a schedule. It cannot fail, so `CancelledIsGone`
  and `ReturnedScheduleRuns` state of the chain what it means to check.
* `getAutoCompoundingDelegationPercentage` returns undefined for a delegation with percentage 0,
  where `oak.ts:433` says that it does for a delegation that does not exist.
* `autoCompoundReward.js` and `scheduleDynamicDispatchTaskToAutoCompound.js` call
  `sendExtrinsic(extrinsic, api, keyringPair)`, whose parameters are `(api, extrinsic, keyPair)`:
  the first send rejects and the scripts end there. The listeners of the run `tasks` stand for
  callers of `listenEvents` that get so far.
* `listenEvents` lets every event pass when `conditions` is given (`utils.js:109`) and, when it is
  not, has no condition to test.

## 4. Proofs

Every component's type invariant is a theorem, and so are all its safety invariants and action
properties, and the four refinements. They hold for all values of the constants that
satisfy the assumptions; TLC evaluates the assumptions on every instance of section 3. In each
module the invariant is stronger than what it serves; why, is said here.

`SendExtrinsic_proofs`, for any calls, accounts, outcomes, bounds on blocks and reorganisations,
with or without faults; assumptions `NodeAssumption` (finite set of calls, natural bounds, outcomes
of known kinds) and `AfterAssumption`:

* `TypeCorrect`: `Spec => []TypeOK`.
* `ResolvedFinal`: `Spec => []ResolvedIsFinal`. The property is not inductive: the block a promise
  settles with is read from a notification that was sent earlier. `FinalInv` adds that every
  `Finalized` notification on the way names a final block that holds its call (`NoticesAreFinal`),
  and that blocks of the chain are among those built (`ChainIsBuilt`), for otherwise building a
  block could change the contents of a final one. The key lemma, `FinalityStep`, says that a
  finalized block stays finalized and keeps its contents in every step.

`SendExtrinsic_order_proofs`, on top of `FinalInv`:

* `AwaitOrders`: a call stands above those it awaited. `OrderInv` adds that no transaction is in the
  chain twice or in the chain and the pool, that only a call that watches has submitted, and that
  what a call awaits has settled: a settled call is in the final part of the chain, where a
  reorganisation cannot move it above its successor.
* `AwaitedNonce`: `NonceInv` says that the nonces of an account leave no gap below any block and that
  no two of its calls in the pool or on the chain share one, so that the index the node answers is
  past those on the chain, also after a retraction.
* `FailureReported`: `ReportInv` says that what was logged and what is on its way to a callback is
  about blocks that exist, whose contents no later step changes.
* `Implements`: `Spec => ImplementsTxOutcome`; every step of the node is a stutter of `TxOutcome`,
  the last invocation of the callback is its one step, which needs `OrderInv`.

`ChainAdapter_proofs`, for any adapters, chains and invocations; assumption `AdapterAssumption`
(adapters of one chain are of one family; the marker for an undefined field is no value):

* `InitInvariant`, then `TypeCorrect`, `ReadyInitialized`, `ReadyAwaited` and `ConfigKept`. That an
  adapter is ready is not inductive either: `initialize()` sets the flag long after it has written,
  and others write to the same object meanwhile. `InitInv` says for every await point what is
  written by then (`Written`), and that a field of a config is unset or what the chain says.

`Delegation_proofs`, for any collators, operations, amounts, percentages and moves of others:

* `TypeCorrect`, with `Base`: those of the others that auto-compound are among the others, or a
  count would fall below zero when they leave.
* `Undisturbing`, `RoomForOne` and the action property `ThrowsAreRefusals`, from `Counts`: at every
  await point, what an operation has read differs from the staking state by at most the changes
  since. The properties only speak of the dispatch; `Counts` carries the reads to it.
* `Usable` and `PercentageReadBack`, from `Awaited`: what an operation awaits is over before it
  begins and stays what it was; a good delegation stays while its collator is a candidate; the
  percentage on the chain is, for every good operation, that of a good one that it did not await.
* `ReadBack`, from `Added`: what the account has at a candidate is the sum of the amounts of the good
  operations on it. That a sum grows by the amount of the operation that joins (`SumAdds`), and what
  a fold computes at all, is induction over finite sets. It is done by a minimal counterexample: a
  nonempty family of subsets of a finite set has a minimal member (`MinimalSubset`, from the
  well-foundedness of strict inclusion), so a family of counterexamples would have one that is
  neither empty nor larger than a set that satisfies the claim. The family is a set, so that no
  theorem with an operator parameter is needed.
* `Implements`: `Spec => ImplementsStakingLedger`. The queries are stutters of `StakingLedger` (or a
  throw), a dispatch is its one transaction. What makes a failure the ledger's is `Counts`: an error
  about a hint means that changes overtook the operation (`RefusedForReason`). What makes a success
  the ledger's is that the total staked and the number of delegations follow the one stake that
  changes (`TotalsAre`, from the lemmas on sums), so that no amount is lost or staked twice.

`ScheduleFlow_proofs`, for any flows, rates and weights:

* `TypeCorrect`; `PaidExecutes`, from `Paid`: at every await point what is computed so far is covered
  by the rates and weights as they were read, and these are the present ones unless an upgrade has
  raised them; `ThrowsUnready`, with the hypothesis that the flows are of the two kinds whose task can
  be encoded, and `NotBuilt` for the two others, which is what the run `schedule_throws` shows by a
  counterexample.

`TaskScripts_proofs`, for any scenarios, scripts, frequencies, hours and days; `ScriptAssumption` says
which calls belong to which script, and that a cancellation names a task of the account:

* `TypeCorrect`, from `PhaseInv`: what the place of a call says of its transaction, without which the
  pool and the chain could share one.
* `CancelledGone` and `CancelOnce`, from `CancelInv`: what is due was dispatched, so that a cancelled
  task cannot come back; what a cancellation on the chain has removed is due no more.
* `PastWhenLate` from `LateInv` (no call has read a clock later than the present one), `ReturnedRuns`
  from `RunsInv` (a schedule on the chain is due as its call computed, or was cancelled, whether or
  not the call has returned), `RefusedInOverlap` from `OverlapInv` (of two calls of a test one has
  returned before the other begins; a nonce that is taken or replaced is that of a call of the account
  which overlaps and is signed with the same one).
* `Implements`: `Spec => ImplementsTaskLife`. A dispatch without an error is the one effect of its call,
  a slot may finish tasks that do not recur, and the end of a call tells its caller. `LifeInv` adds to
  `CancelInv` that what is due was scheduled with effect; that a call that has rejected or crashed
  never takes effect afterwards is `Phases`: what was refused is in neither the pool nor the chain.
* `Quiet`: `QuietAfterAnswer` of `ListenEvents`, as part of the composition.

`RecurringSchedule_proofs`, for any starts in the calendar, delays and numbers of times;
`CallAssumption`, `LimitAssumption` and `CalendarAssumption` say that the calls stay within the
calendar and that its months are months:

* `NextOnes`, `OncePerMonth`: lemmas on the operators of `Recurrer` and `Calendar` (the next hour, the
  next weekday, the first such weekday of a month, and that the months that follow one another have
  their starts in order), then `Invariant`: the times are those computed for the start.
* `ValidWhileToCome`, `ValidIsAccepted`: the verdict is about the moment of the check, and a schedule
  that is dispatched has passed the check at an earlier moment.

`XcmTransfer_proofs`, for any number of transfers, requests and funds, over the tables as they are.
`WorkloadAssumption`, `RequestAssumption`, `PurseAssumption` and `UnsetAssumption` say what a request is
(chains of one network, a function the source has, an address of hexadecimal digits), that a sender
has an account for an asset the source lists, and that undefined is no number:

* Lemmas on the encodings: `FourBytes` and `OneByte` (what `numberToHex` writes for an id or a pallet
  is read back), `ParachainRead`, `PalletRead`, `AccountRead` (what a contract reads of an encoded
  junction is that junction), `LocationRead`, `RelativeAsset` (the relative location of a native
  asset) and, from them, `AssetDenoted` and `BeneficiaryNamed`: whatever is built names the asset as
  the source knows it and the account on the destination.
* `TypeCorrect`, `TrappedByCaller`, `RefusedForFunds`, from `IInv`: a completed config has the id of its
  chain; what was built keeps naming what was asked for, for every asset registered on the source; and funds below what there was at the start
  are missing because a transfer of the same sender has left (`Spent`), without which a refusal for
  want of funds could not be traced to its cause.
* `Implements`: `Spec => ImplementsLedger`. `Build` and `Initialize` are stutters of `TransferLedger` (or
  a refusal), `Dispatch` and `Deliver` its steps; that `Deliver` credits the account that was named,
  on the chain that was named, is the lemma `Delivered`.

Two definitions of the model have a form the prover can unfold: `WithoutParachain` and the digits are
recursive functions over finite domains, for which the proofs give a table that satisfies the
equation. Digits go up to three, which the ids and pallets of the tables do not exceed.

`ThrowsWhatChainRefuses` and `CancelReturnsOnce` are theorems that no run checks: the refinements
`ImplementsStakingLedger` and `ImplementsTaskLife` demand more.

Only model-checked:

* Liveness (`SettlesOrGivenUp`, `InitializeSettles`, `EveryCallEnds`, `ListenerEnds`): fairness and `ENABLED` are out of the prover's reach.
* What the four violation runs refute. `NotBuilt` is the one of them that is also proved, for every
  instance.

## 5. What is not modelled

* Derivative accounts (`getDerivativeAccountV2`, `V3`): hashes, no behaviour.
* Fees in transfers; `Weight.toJSON`; `getDecimalBN`; the fee formula of Mangata for its own asset
  (`mangata.ts` lines 53 to 61: a benchmark value in place of a rate; whether it suffices depends on
  the chain's own formula, of which the repository says nothing). For other assets Mangata prices as
  the other chains do.
* Queries that are rejected, in the staking operations and the flows: the await throws, the operation
  or flow ends there, and nothing has been sent (`ChainAdapter` models them, because there something
  has been written by then). `ThrowsOnlyWhenUnready` therefore speaks of queries that are answered.
* Three errors of the staking pallet: `CannotDelegateIfLeaving` and `PendingDelegationRevoke` need a
  request to leave or revoke, which no code here sends, and
  `CannotDelegateLessThanOrEqualToLowestBottomWhenFull` a collator with as many delegations as it may
  have (`augment-api-errors.ts` lines 632, 657, 633). `ImplementsStakingLedger` is for the others.
* `queryWeightToFee`, by which Astar and Moonbeam price a weight in their own asset (`astar.ts` lines
  67 to 69, `moonbeam.ts` 92 to 95): the chain's formula is taken to be a rate on the reference time.
  What a flow pays is the chain's own answer there, whatever the formula.
* A clock of the caller that differs from that of the chain, in `RecurringSchedule`. Nothing in the
  repository calls `validateTimestamps`.
* Addresses of lengths a chain has no account for. `isSubstrateAddress` lets some of them pass (1, 2, 4, 8
  and 33 bytes), but `AccountId32` cannot be encoded from them, so the call throws, as in the model.
* Slots that fill up, fees and failures of tasks (`TimeSlotFull`, `InsufficientBalance`): the tests
  have a chain of their own. Forks and lost transactions beneath `TaskScripts`: they are the subject
  of `SendExtrinsic`, and the two helpers wait for finality in the same way.
* Queries of the test helpers that only print or return what the chain says, and
  `validateTransferParams`, which nothing calls.
* In the demo scripts, everything after the first send of the two that compound (see above).
* Type declarations, generated augmentation, contract ABIs, build files: no behaviour. The
  augmentation is three quarters of the lines of the repository; the modules of the pallets take from
  it the names of errors, events and storage and the arguments of the extrinsics that the code uses.
* Callers that give up and send again: `sendExtrinsic` has no retry and the repository no such
  caller. The nearest is a test that times out, which is in `TaskScripts`.

The chains are external: their modules hold what the code relies on (storage it reads, names and
arity of extrinsics, statuses it looks at), from the way the code uses it and from the
augmentation files.

## 6. Plan

Done, in this order: submission, initialization, staking, flows, transfers, recurrence, tasks and
listeners; the abstract specifications `TxOutcome`, `TransferLedger`, `StakingLedger` and `TaskLife`; the proofs
above, which leave no safety property to TLC alone. The model is complete but for what section 5
leaves out.

Next, in the proofs: `numberToHex` and the digits for numbers of any length, should a chain get a
longer id.
