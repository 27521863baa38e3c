# A verification of lend-worker-stellar

TLA+ specifications of the worker in this repository, TLC runs that check them on
small instances, and TLAPS proofs for every instance. Paths are relative to the
repository; `lw-*` stands for `crates/lw-*`.

## The system

The worker follows the contracts of the Lend factory on Stellar and keeps Postgres
tables up to date. It is one process with two tokio tasks and two bounded channels.

    Stellar RPC (live) ----\                       tx_events (1000)
    RPC replay endpoint ----+--> event_loop  ------------------------>  Handler --> Postgres
    Hubble (BigQuery) -----/     (index task) <------------------------ (store task)
                                                   tx_cmd (10)

| Component | State | Operations | What makes it correct |
|---|---|---|---|
| Event loop, `lw-chain/src/event_loop.rs` | contracts, id map, cursor, retention floor, replay source | drain commands, fetch, decode and forward, recover from errors | nothing is passed over silently, no source is asked again what it refused, the cursor only rises |
| RPC source and bounded replay, `event_source.rs` | of one call: batch, page cursor, retries, lowest batch cursor | one getEvents filter per batch of five contracts, paging, retries; the replay cuts at its span | resume at the lowest batch, on one node's view per batch, in chain order; cut events and cursor alike |
| Hubble source, `hubble.rs` | dataset, watermark | connect, coverage, query | the right network; hold while not ingested; unique and stable event identity |
| Decoding, `log_handlers.rs`, `lw-domain/src/activity_builder.rs` | none | event to activity rows | an identity per row, amounts that never exceed what moved (not kept for withdrawals), balances that can be rebuilt |
| Store task, `lw-app/src/handler.rs` | operations last loaded, contract list | boot, process_events, sync progress, sync status, effects, refresh | tables are a function of the stored events |
| Stores, `lw-storage` | operations, activity, fiat_holdings | inserts, totals, status history, gated update, add_first_chain | one row per event, one holding per investment |
| Configuration, logging, health check | environment | read at start | not modelled |

Interaction: the loop sends the rows of one event as a message; the store task inserts
them and, for the kinds of `factory_needs_refresh`, recomputes totals and statuses. A
creation also records its token in `operations.supported_chains`, reloads all
operations and sends the loop a new contract list with the highest stored ledgers,
which may raise the cursor. Both sources are called through the trait `EventSource`,
which says what a call owes. The operations table is shared with the backend API and
the worker of the EVM chains.

The hard behaviours: two tasks that block each other, a cursor written by sweeps,
refusals and commands, nodes at different heights behind one URL, retention windows
that move, statements that fail on either side of their commit, a process that dies
between two steps, events that are read twice, and tables other programs write.
`PROJECT.json` lists each as a hazard at its line.

## The modules

| Module | Models |
|---|---|
| `Network` | The chain and the nodes: ledgers close, endpoints prune, Hubble ingests. External. |
| `EventSource` | The trait, as an abstract specification of one call of `fetch`: it fails, or returns every event before the ledger to resume from, in chain order (`Spec`); `TransactionSpec` asks for the order of ledgers and transactions only. |
| `RpcSource` | `RpcEventSource::fetch`, alone or inside `BackfillSource`: `TakeBatch`, `Page`, `AboveTip`, `Retry`, `Fails`, `Return`, one node per request. Implements `EventSource!Spec`. |
| `RpcSourceProofs` | Theorems about `RpcSource`, the refinement among them. |
| `HubbleSource` | `build_replay`'s decision to trust Hubble (`ReadNetworkTip`, `Connect`, `FallBack`) and one `HubbleSource::fetch` (`ResolveCoverage`, `HoldCursor`, `ReadEvents`, `QueryFails`), with ingestion between the queries. Implements `EventSource!TransactionSpec`, and not `Spec`: the order inside a transaction is not the chain's. |
| `HubbleSourceProofs` | Theorems about `HubbleSource`, the refinement among them. |
| `Activities` | `decode_event`, `handle_event`, `build_activity`, `insert_many` and the derived fiat holding, as operators; the actions are the contracts that emit the events. |
| `ChainList`, `SupportedChains` | `operations.supported_chains`: the list `add_first_chain` promises to keep, and its writers under Postgres's snapshots and row lock (`Scan`, `Lock`, `Stage`, `Commit`, `Rollback`). The second implements the first. |
| `StorageProofs` | Theorems about what the store keeps: `Activities`, and `SupportedChains` with its refinement. |
| `Channels` | The two bounded channels, messages and commands. |
| `EventLoop` | The index task: `DrainCommand`, `StartSweep`, one `FetchBatch` per getEvents filter, `FetchHubble`, `FetchRefused`, `FetchFails`, `ForwardEvent`/`DropEvent`, `FinishSweep`. |
| `Indexer` | The abstract worker: the loop against any store task that takes a message, stores it or not, and may send a command that runs no further than what is stored. Holds the properties of the loop. |
| `LoopProofs` | What each step of `EventLoop` preserves, whatever runs beside it: lemmas for `IndexerProofs` and `WorkerProofs`. |
| `IndexerProofs` | Theorems about `Indexer`. |
| `Handler` | The store task and its tables: `Receive`, `Insert`, `ReadTotals`, `SaveTotals`, `SyncStatus`, `AddFirstChain`, `RecordHolding`, `NoEffects`, `Reload`, `SendCommand`; `Publish`, `Register`, `EvmSale` and `EvmStatus` for other writers. |
| `HandlerProofs` | What the operators of `Handler` return (sums, highest stored ledger, hashes) and what its steps do: lemmas for `ProjectionProofs` and `WorkerProofs`. |
| `Projection` | The store task against any event loop that sends the chain's events in order and may repeat some. |
| `ProjectionProofs` | Theorems about `Projection`. |
| `Worker` | Both tasks, the tables and crashes; refines `Indexer`. |
| `WorkerProofs` | Theorems about `Worker`, the refinement among them. |
| `MCIndexer`, `MCProjection`, `MCWorker`, `MCRpcSource`, `MCHubbleSource`, `MCActivities`, `MCSupportedChains`, `MCStorage` | Instances for TLC. |

How they fit. `EventLoop` uses a source through what `EventSource` says of a call: an answer of
one node per batch, a batch at a time (`FetchBatch`), or the replay of a span
(`FetchHubble`). `RpcSource!BatchIsOneAnswer` is the fact that lets a batch of several
pages be one answer; `HonoursTrait` and `HonoursTraitPerTransaction` are the rest. `Handle` forwards
events in the order of the source in use, the RPC's or Hubble's. `Worker` uses messages that
stand for the rows of one event, which `Activities` builds; its `AddFirstChain` is one atomic
step, which `SupportedChains!ActsAtomically` allows.

State and code. `pc` is where the loop is in its iteration: draining, inside
`active.fetch` (with the batches `todo`, what was `merged`, the lowest `next`), or in
the `for raw in &events` loop. `hpc` is where the store task is in `process_events`;
`batch` is the message in hand, `op_data` the operations last loaded. `retention_floor`
is 0 for `None`. `replay` is what `build_replay` returned. A definition named
after a mutation (`...UntruncatedNext`, `NoHashes`) is a plausible bug and is not part of
any specification; the comment above it says so.

Abstractions. In the modules around the event loop an event is a record of ledger,
transaction, place, contract, operation, kind and shares; payloads, addresses and USDC
amounts belong to `Activities`, where an event has its topics and data fields. The two
rows of a transfer are one message, inserted by one statement. A retried request is the
request it ends in, except in `RpcSource`. The RPC's scan limit is assumed not to truncate an
answer. A message of a kind `decode_event` rejects or `handle_event` filters is
`unindexed`. Each SQL statement is a step that takes place or fails, and one that fails may have been committed; the queries of one
read phase (five totals, the operations and latest blocks) are one step, and so are the
status read and its update, whose gate is in the update. A failed read phase is one fault.
An amount that does not fit BIGINT is an event of `Wide`. Hubble orders one contract's
events by XDR bytes, taken to be their order in the ledger, and a transaction is one operation. Its
events table is taken to be no further behind than `history_ledgers`, as the module comment
of `hubble.rs` does. A query that outlasts its timeout answers with neither rows nor a page token:
that is BigQuery's `jobs.query` protocol, external here. `funding_participants` is left out.
An RPC node omits the page cursor only when it has nothing left (`Cursorless`).

Other workers. The table also belongs to workers of other chains. `Abroad` bounds the status rows
they store: `get_operation_status_history` does not select by chain, so these rows
take part here too (`elsewhere`), and such a worker syncs the status of an operation its chain is
primary of by the same rule. A sale elsewhere (`EvmSale`) is one step, its row, sum and write of
`shares_sold` together, and nothing is refunded there. Their code, if it is like this one's,
reads and then writes; a stale write of theirs over a Stellar sale, or over a finished
sale, is therefore outside the model, and `ProgressCurrent`, `StellarProgressCurrent` and
`FinishedSoldOut` speak of the operations this chain is primary of.

## The runs

Passing runs. Every one of them is exhaustive.

* `loop_rpc`: live node with a bounded RPC replay. Five ledgers, four events (one that
  cannot be decoded), two contracts in one batch, span 1, one fault, either channel of
  capacity 1. Both windows prune up to ledger 4, so the loop is refused by live, then by
  the replay, and skips. `NoSilentGap`, `NoRefusedRetry`, `NothingHandledTwice`,
  `SkippedUnreachable`, `CursorMonotonic`.
* `loop_hubble`: the archival replay, one contract per batch, so that live sweeps have
  several batches. `ArchivalSkipsNothing`, `NoSilentGap`, and the liveness property
  `CatchUp`: every closed ledger is passed in the end.
* `projection`: five histories of two operations (one owned by another chain, published late and
  started by its worker), with a refund larger than what was bought on chain, a finish, a
  cancellation, a pause with a fiat purchase after it, two status events in one ledger, an amount
  that does not fit BIGINT; one failing statement, one repeated event, one sale elsewhere, and
  a finish of the first operation that another chain stores at any time.
  `ProgressCurrent`, `StellarProgressCurrent`, `StatusCurrent`, `FinishedSoldOut`,
  `HoldingsBacked`, `HoldingsMatch`, `ForeignStatusUntouched`.
* `rpc_source`: one call for one to three contracts in batches of two, pages of two, one retry
  per request; every request reaches a node of any height while ledgers close and
  windows move, and one event cannot be decoded. Live or replaying with span 1 and the
  smallest `MaxInt` at which one past the ceiling does not wrap. `HonoursTrait` is the refinement of `EventSource`,
  `BatchIsOneAnswer` says what mixing nodes inside a batch may not do, `InChainOrder` what
  batches may not.
* `hubble_source`: the dataset is this network's, an older one's or a younger one's; three
  ledgers per query, ingestion one ledger at a time, a quiet ledger and a row that was not
  serialised, two contracts in one transaction. `OwnHistoryOnly`; `HonoursTraitPerTransaction` is
  the refinement of `EventSource!TransactionSpec`.
* `storage`: what the store keeps, in two parts that share no state, so that a behaviour takes
  the steps of one. Rows: three users, the platform's wallet among them, three
  transactions of any kind, amounts on either side of the digit that is dropped;
  `BalancesRebuilt`, `TradesTruncated`, `HeldInCustody`. Chains: three calls of
  `add_first_chain`, two of them of one deployment (a creation handled again after a restart) and
  one by the worker of another chain, beside two transactions of other programs;
  `OneOfEach`, `OnlyGrows`, `RecordedWhenDone`; `ActsAtomically` is the refinement of `ChainList`.
* `worker`: both tasks, six events over five closed ledgers that nodes may not have
  reached yet, two of them custodial sales in one ledger and one of the rewards contract, an
  operation registered late, one failing statement, two restarts.
  `LivesAreIndexers` is the refinement: every life of the worker is one of `Indexer`'s,
  with the message not yet inserted still queued and "refresh" standing for a creation
  on its way to a reload. `OnlyTornLedgersLose` accounts for every event the cursor
  ever passed, across restarts; `DropsOnlyUnknown` says how far the loop's id map may
  lag the store task. The liveness property `RecordedIsFollowed`: a token that was recorded
  reaches the loop, by the command or by the next boot; commands wait for the end of a sweep
  here, as in the code. With two creations neither task blocks the other, which the deadlock check
  confirms; with four they do, which is `worker_deadlock`.

Runs that end in a counterexample, each for a sentence of the repository the code does
not keep:

* `loop_refresh_gap`: a command lifts the cursor over a lagging batch's ledgers.
* `loop_hash`: Hubble's index restarts per contract, the hash does not name the contract.
* `activities_withdrawal`: a withdrawal is stored with seven decimals in place of six.
* `hubble_source_slow`: a query that times out is taken for an empty one, its ledgers are passed.
* `worker_deadlock`: both tasks wait for room in each other's channel.

Where the passing properties are narrower than the repository's words. The exception is
written into the property, so that nothing else may break it:

| Property | Exception | In the code |
|---|---|---|
| `OnlyTornLedgersLose` | `torn`: a crash inside a ledger loses the rest of it, as `latest_block` is the highest stored ledger | `handler.rs:384` |
| `OnlyTornLedgersLose` | `everSince`: transfers of a token before its discovery are passed, the one cursor is never lowered | `event_loop.rs:189` |
| `OnlyTornLedgersLose`, `DropsOnlyUnknown` | operations the API registers or publishes late: their creation is dropped for good, their events until a command names them | `log_handlers.rs:157`, `event_loop.rs:193` |
| `RecordedIsFollowed` | an operation published after its creation was handled is not observed until another creation or a restart | `handler.rs:303` |
| `HoldingsMatch` | the effects of an event are skipped when no operation is unfinished, and a paused one does not count: a fiat purchase stored then has no holding | `handler.rs:290`, `op_repository.rs:140` |
| `StatusCurrent` | `paused` is never left: a paused operation is not "unfinished" | `op_repository.rs:140` |
| `StatusCurrent` | a status row that another chain stored may decide: the history is not selected by chain | `activity_repository.rs:336` |
| `RecordedIsFollowed` | both tasks stuck in a send, which takes more creations than this run has: `worker_deadlock` | `handler.rs:160` |
| `ProgressCurrent`, `StellarProgressCurrent` | an operation of another chain is current only from the next message after its worker opened it, so the properties leave these out | `op_repository.rs:118` |
| `StatusCurrent` | `finished` waits for the next Stellar event when another chain completes the sale | `handler.rs:271` |
| `ProgressCurrent` | one amount out of BIGINT's range stops the progress of every operation | `activity_repository.rs:216` |
| `HonoursTraitPerTransaction` | not the trait's chain order (`event_source.rs:83-84`) inside a transaction: the index rows are ordered by restarts per contract | `hubble.rs:334` |
| `SkippedUnreachable` | `ReplayIsDeeper`: a replay endpoint that retains less than the live one makes the loop skip what the live node serves | `event_loop.rs:65` |
| `HonoursTrait` of `RpcSource` | a `BACKFILL_MAX_SPAN` near `i32::MAX` wraps the cursor | `event_source.rs:365` |
| `HoldingsMatch`, `HeldOnce` | an event read live and again through Hubble has another index, hence another hash; the runs read an event again from the same source | `hubble.rs:322` |

Bounds. `MaxLedger`, `MaxLow`, `MaxFaults`, `MaxDbFaults`, `MaxEvm`, `Abroad`, `MaxRereads`,
`MaxCrashes`, `Starts`, `MaxEvents`, `UsdcAmounts` and the event sets are the only bounds. One fault or failure at any
step is enough for what the properties relate (the loop keeps nothing of an earlier
fault but the cursor and the floor); two restarts let a life begin from a database that a
crash left behind, and crash again. Channels of capacity 1 make every send block
somewhere. Five ledgers hold a window that overtakes the cursor twice, once per source.
Two batches of two pages each are enough for every mix of heights a sweep can meet, since a batch
keeps nothing of another but the lowest cursor. Three writers and two transactions put a
commit between any snapshot and its lock. A claim, a transfer and a transfer back need three
transactions. `MaxInt` is small so that its neighbourhood is reached; nothing else depends on it.
`CHECK_DEADLOCK FALSE` is set where the system may stop: when a finite history has been
processed (`projection`), when a call has returned (`rpc_source`, `hubble_source*`, `storage`,
`activities_withdrawal`) and where the stop is the subject (`worker_deadlock`).

Fairness. Weak fairness of each task (`LoopStep`, `PeerStep`,
`LoopTurn`, `HandlerTurn`): tokio polls a task that can run, and a blocked send or
receive is a disabled step. Hubble's pipeline keeps ingesting, which the archival
replay relies on. `Worker` has the real loop: it takes commands between sweeps only, and while
one task waits in a send its turn is disabled. `Projection`, which reduces the loop to what it sends,
assumes no fairness. No fairness for ledgers, pruning, faults, publication,
sales or status events elsewhere, nor for crashes.

## The proofs

Every safety property of a passing run is a theorem: type correctness, invariants, action
properties and the four refinements. TLAPS checks them for every
chain, contract set, history, configuration, channel capacity and number of faults, repetitions and
crashes. They rest on the named assumptions of the modules (`NetworkAssumption`,
`HandlerAssumption`, ...) and, where a theorem says `ASSUME`, on the following hypotheses.
TLC evaluates the assumptions in every run, and in the `MC` modules the hypotheses about
events, so the instances it checks are instances of the theorems.

| Hypothesis | Says | Needed by |
|---|---|---|
| `SingleBatch` | the contracts fit one getEvents filter; false for a worker of more than five | `NoGap`, `HandledAtMostOnce`, `OnlyTornLedgersAreLost` |
| `ReplayIsDeeper` | the bounded replay keeps what live keeps | `SkipsOnlyUnreachable` |
| `NetworksApart` | the tips of two networks differ by more than `MAX_TIP_DRIFT`, and Hubble is not ahead of the chain | `HubbleSourceProofs` |
| `~SlowQueries` | no query outlasts its timeout; without it `hubble_source_slow` | `HubbleImplementsTraitPerTransaction` |
| `HashesDistinct` | the fields hashed name the event; an RPC event id does | the theorems on sums and holdings |
| `Lifecycle` | an operation is created first, and open before its shares move or it finishes | progress, status |
| `Course`, `Ordered` | its status goes through the stages in order (pausing at will) and not at all after a finish or a cancellation; a history is in chain order | `StatusIsCurrent` |
| `Emitters` | rewards events come from the rewards contract, transfers from their token | `LivesImplementIndexer`, `OnlyTornLedgersAreLost` |
| `OneNumbering` | Hubble numbers events as the RPC does, or is not configured; without it `loop_hash` | `NothingHeldTwice`, `OnlyTornLedgersAreLost` |
| `Bounded` | `MaxLedger` bounds the events | `OnlyTornLedgersAreLost` |
| `PlacesDistinct` | an RPC event id names one event | `RpcSourceProofs` |
| `RoomForSpan` | a replay starts so that its span stays below `i32::MAX` | `RpcImplementsTrait` |

None is a fact this repository could establish: they speak of the contracts, of the nodes and
of the deployment.

### The index task

`IndexerProofs` starts from any chain and any boot (`FirstTip`, `FirstLow`, `FirstIngested`,
`BootBlocks`), so it speaks of every life of the worker, not only the first.

* `TypeCorrect`. `TypeOK` is not inductive: a sweep's `next` must stay at or above the
  cursor it started from (`NextAhead`), or a finished sweep could put the cursor below zero.
* `CursorNeverFalls` follows from `NextAhead`: only a command, a sweep's end and a skip
  write the cursor.
* `NeverSpins` (`NoRefusedRetry`) by `RefusalAnswered`: after a refusal by live the
  floor lies above the cursor and a replay exists, so the next sweep asks another source.
* `NoGap` and `HandledAtMostOnce` by `GapInv`. A refresh may lift the cursor to one past the
  highest stored ledger, so the invariant has to say that nothing queued, stored or reported lies
  at or past the ledger the loop resumes from (`StoredBehind`, `CommandsBehind`), that
  a sweep is whole (`SweepWhole`) and that what it holds covers the ledgers it will pass
  (`Covered`). Without `SingleBatch` the first is false: `loop_refresh_gap`.
* `ArchivalKeepsHistory`, and `SkipsOnlyUnreachable` by the invariant `Deeper`.

### The store task

`ProjectionProofs` rests on `HandlerProofs`: a sum over a finite set of rows is a natural number,
and zero without rows. The community modules define such sums by recursion over a
CHOOSE; the lemmas get to them from a minimal subset (`MinimalSubset`), which the library's
theorem on well-founded orders gives without an operator parameter.

* `TypeCorrect`, with finiteness of `rows` as the strengthening the sums need.
* `FinishedIsSoldOut`. `FinishedSoldOut` alone is not inductive: totals are read in one
  step and written in another, and if the operation could finish between the two the write might
  reopen the sum. `FinishInv` adds that totals exist only in the task that would also
  finish, and that their operations are ongoing.
* `ForeignStatusKept`: the operations in memory may be old, but never name this chain primary
  where another one is (`ForeignInv`).
* `HoldingsAreBacked`: a message between its insert and its effect (`Pending`) counts as a
  holding still to come; each row is counted for one event (`InsertCounts`).
* `HoldingsAreMatched`: while nothing failed, a stored custodial investment has its holding or is
  the message in hand (`MatchInv`); a repeated one is stopped by its hash, which
  `MessagesInv` keeps the hash of its event.
* `StellarProgressIsCurrent` and `ProgressIsCurrent`. Totals are written for the operations
  that were ongoing when they were read, so an operation must be open before its
  first sale is summed (`OpenedInv`, from `Lifecycle`) and what the task remembers of its chains may
  be no further behind the table than one creation on its way to a reload (`MemoryInv`).
  `ProgressInv` then follows a sum from the rows to `totals` to the column; for all chains
  together it is bounded on both sides, as sales elsewhere overtake the task.
* `StatusIsCurrent`. The table holds kinds, not an order: the highest priority decides, among the
  kinds stored here or elsewhere (`Seen`, `StatusKinds`). A finish elsewhere may end an operation
  before its events here are stored (`Ended`), so what the other invariants say of its stages is
  said of operations not ended. The rows this chain
  stored are those of an initial part of a history (`FeedInv`, `OrderInv`), whose last
  status event has the highest priority (`StagesAre`) and was, when stored, the message that
  triggers the refresh (`NewestInv`). `SettledInv` says the status is up to date between refreshes;
  `PausedInv` and `WrittenInv` bound the exceptions.

### The whole worker

`WorkerProofs` uses the lemmas of both tasks.

* `TypeCorrect`, across restarts: the lemmas of `LoopProofs` and `HandlerProofs`, plus the boot.
* `RestartsKnowAll` (`ObservedIsRecorded`): the store task writes the token before it
  names it in a command, and nothing erases one (`ObservedInv`).
* `KnownIsForwarded` (`DropsOnlyUnknown`): between reload and drain the id map lags by
  exactly the commands on their way (`MapInv`).
* `NothingHeldTwice` (`HeldOnce`): a crash forgets the message in hand but not its row, so what is
  read again is stopped by the hash, provided that it is the same hash (`HashInv`).
* `LivesImplementIndexer`, the step simulation behind `LivesAreIndexers`: every step of the worker
  is one of `Indexer`'s, or none. The steps between an insert and its command map to none; an insert
  maps to the reduced store task's, a reload to its refresh, whose ledger is then no higher than
  what is stored because each read is per emitting contract; a restart without a failing read is
  a boot. It carries what `IndexerProofs` shows to each life of the worker.
* `OnlyTornLedgersAreLost`. Within a life the messages from the store to the queue to the rest
  of the sweep form one line in chain order (`LifeOrder`), starting no lower than the
  highest stored ledger; so when a crash drops the line, the next life resumes at the ledger
  where it was cut, and only that ledger's rest can be missing (`HandledCarried`,
  `Past`). `EverInv` keeps, over all lives, from which ledger a contract was first
  observed. `LossInv` joins these with the invariants above.

### The sources

`RpcSourceProofs`, for any nodes answering any request, at any heights:

* `TypeCorrect`: no request is retried past the budget, and every batch that is done has
  said where to resume.
* `ReturnsInChainOrder`, from what sorting owes: a rearrangement without inversions.
* `BatchesAreAnswers`: a page continues from a place its node has reached and sees all that
  lies before it, so a batch collected from several nodes is the answer of the last (`BatchInv`).
* `RpcImplementsTrait`: batches that are done hold all events before the lowest `next`
  (`NextInv`), sorting neither adds nor loses any, and the replay's cut keeps exactly those up to the
  ledger it reports.

`HubbleSourceProofs`: `TypeCorrect`, `NeverForeignHistory` and the refinement
`HubbleImplementsTraitPerTransaction`. `ListingComplete` turns "ordered as the query orders" into
"all of them, each once, transaction by transaction"; within a transaction the query's order is
not that of the chain, so no more can be proved.

### What the store keeps

`StorageProofs`, for any writers and deployments: `ChainsTypeCorrect`, `ChainsWellFormed`,
`CallsRecord`, `NothingLost`, and the refinement `ImplementsList`. The argument is that the
holder of the lock is the one writer, and that what it has staged is one step of
`ChainList` away from what is committed.

And for any users, amounts of USDC and number of transactions, in production or outside it:

* `ActivitiesTypeCorrect`, `BalancesCanBeRebuilt`, `TradesNeverExceedMoved` and
  `HoldingsAreCustody` (`ACTypeOK`, `BalancesRebuilt`, `TradesTruncated`, `HeldInCustody`).
  The invariant adds that the rows are finite and of earlier transactions (`Earlier`), so that no
  new hash is refused (`NewHash`).
* First, what a transaction's events become: decoding, filtering and `insert_many` folded over them
  add exactly the rows named in `ClaimAdds`, `TransferAdds`, `TradeAdds`, ...: a claim one
  row although it is two events, a transfer two, a transfer back none.
* Then, what these rows do to the sums. `Sum` is `MapThenSumSet`, whose recursion takes
  elements in the order of CHOOSE: `IterSolves` shows that it has a solution, `IterAgrees` that
  it does not depend on the set it starts from, `SumRemoves` that any row may be taken
  first, and so `SumGrows` that one more row adds its share. Balances, USDC and
  holdings follow row by row (`BalanceGrows`, `TruncatedGrows`, `CustodyAfter`).

### Only model-checked

`CatchUp` and `RecordedIsFollowed` are liveness properties, which TLAPS cannot reach. The five
counterexamples are TLC's.

## What is not modelled

Environment parsing, logging, the health check and the connection pool; SQL text, the
partition window and billing of BigQuery; JSON fields the worker never reads back;
`funding_participants`, a count nothing depends on; the width of ledger numbers outside
`RpcSource`; order and bridge events that this build never emits;
the row lock of statements other than `add_first_chain` (each
is one atomic step, and overwrites its column whatever it read before).

## Plan

1. The core: network, loop, abstract worker and its theorems; store task; whole worker.
   Done.
2. Extend: both sources against the trait, late registration and discovery, the
   supported_chains column, activities and their amounts, Stellar sums, status rows of other chains.
   Done. Left: a shallower replay endpoint.
3. Prove: every safety property of a passing run, refinements included. Done.
4. State a lock-free variant of the command channel and the cursor rule as a
   specification a fix could be checked against, if the code changes.
