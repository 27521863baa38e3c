------------------------------ MODULE EventLoop ------------------------------
(***************************************************************************)
(* The indexing task of crates/lw-chain/src/event_loop.rs with the three    *)
(* event sources it drives (event_source.rs, hubble.rs).  One task polls    *)
(* from a single cursor, decodes what a sweep returned and forwards it on   *)
(* tx_events; contract sets reach it on tx_cmd.                             *)
(***************************************************************************)
EXTENDS Channels

CONSTANTS
  BatchCap,           \* MAX_CONTRACT_IDS_PER_FILTER
  MaxSpan,            \* BACKFILL_MAX_SPAN or HUBBLE_MAX_SPAN
  HubbleConfigured,   \* HUBBLE_BILLING_PROJECT is not empty
  BackfillConfigured, \* BACKFILL_SOURCE_URL is not empty
  MaxFaults           \* bound: failed fetches and answers of lagging nodes

ASSUME EventLoopAssumption ==
  /\ BatchCap \in Nat \ {0}
  /\ MaxSpan \in Nat \ {0}
  /\ HubbleConfigured \in BOOLEAN /\ BackfillConfigured \in BOOLEAN
  /\ MaxFaults \in Nat

VARIABLES
  pc,               \* "drain" | "fetch" | "forward"
  replay,           \* "none" | "bounded" | "archival", decided at boot
  contracts,        \* addresses observed
  fopid_to_opid,    \* factory ids the loop can map to an operation
  cursor,           \* next ledger to fetch
  retention_floor,  \* oldest ledger live retains, 0 while unknown (None)
  source,           \* endpoint of the sweep in progress
  todo,             \* contracts of this sweep not fetched yet
  merged,           \* events fetched by this sweep, not yet forwarded
  next,             \* lowest batch cursor of this sweep, -1 before the first
  faults,           \* faults left
  \* History, read by properties only.
  since,            \* the cursor when a contract was first observed
  handled,          \* events given to handle_event
  skipped,          \* ledgers given up by SkipGap
  refused           \* last request refused as below retention

loopVars == <<pc, replay, contracts, fopid_to_opid, cursor, retention_floor,
              source, todo, merged, next, faults>>
histVars == <<since, handled, skipped, refused>>

-----------------------------------------------------------------------------
Maxima(S) == {x \in S : \A y \in S : y <= x}

\* build_replay: what the configuration and the probes at boot may lead to.
BuildReplay ==
  (IF HubbleConfigured THEN {"archival"} ELSE {})
    \cup (IF BackfillConfigured THEN {"bounded", "none"} ELSE {"none"})

\* The source of the next sweep, and with it the meaning of its errors.
ActiveSource ==
  IF retention_floor # 0 /\ replay # "none" /\ cursor < retention_floor
    THEN "replay" ELSE "live"

Attempt ==
  CASE source = "replay" /\ replay = "archival" -> "BackfillArchival"
    [] source = "replay" /\ replay # "archival" -> "BackfillBounded"
    [] source = "live" /\ replay # "none" -> "LiveWithBackfill"
    [] OTHER -> "LiveOnly"

\* Mutants of ClassifyFetchError: a replay that ran out of history holds the
\* cursor; a gap is skipped before the replay source was tried.
ClassifyHoldsAtReplay(attempt, floor) ==
  IF attempt = "LiveWithBackfill" THEN "ReplayGap"
  ELSE IF attempt = "LiveOnly" THEN "SkipGap" ELSE "Report"
ClassifySkipsUntried(attempt, floor) ==
  IF attempt = "BackfillArchival" THEN "Report" ELSE "SkipGap"

\* classify_fetch_error for a rejection that names the range `floor'..tip.
ClassifyFetchError(attempt, floor) ==
  IF attempt = "BackfillArchival" \/ cursor >= floor THEN "Report"
  ELSE IF attempt = "LiveWithBackfill" THEN "ReplayGap"
  ELSE "SkipGap"

\* Mutant of DrainCursor: the command's block replaces the cursor.
DrainCursorFollows(latest) == Larger(latest + 1, StartLedger)

\* The cursor after an UpdateContracts command whose largest block is `latest'.
DrainCursor(latest) == Larger(Larger(cursor, latest + 1), StartLedger)

\* Mutant of BatchNext: resume at the last event's ledger, not past it.
BatchNextRescans(found, h) ==
  IF found = {} THEN {Larger(h + 1, cursor)} ELSE Maxima({e.ledger : e \in found})

\* The ledger a batch resumes from, given what a node at `h' returned.
BatchNext(found, h) ==
  IF found = {} THEN {Larger(h + 1, cursor)}
                ELSE {m + 1 : m \in Maxima({e.ledger : e \in found})}

\* Mutants of LowestNext: None taken for a number; the furthest batch wins.
LowestNextOfNone(n) == Smaller(next, n)
HighestNext(n) == IF next = -1 THEN n ELSE Larger(next, n)

\* The lowest batch cursor of the sweep so far.
LowestNext(n) == IF next = -1 THEN n ELSE Smaller(next, n)

\* BackfillSource truncates what the endpoint returned.
BackfillCeiling == cursor + MaxSpan
Truncated(events) == {e \in events : e.ledger <= BackfillCeiling}

\* Mutant of TruncatedNext: the events are cut, the cursor is not.
UntruncatedNext(n) == n
TruncatedNext(n) == Smaller(n, BackfillCeiling + 1)

-----------------------------------------------------------------------------
\* The task starts with nothing but the configuration.
LoopInit ==
  /\ pc = "drain"
  /\ replay \in BuildReplay
  /\ contracts = {} /\ fopid_to_opid = {}
  /\ cursor = StartLedger
  /\ retention_floor = 0
  /\ source = "live" /\ todo = {} /\ merged = {} /\ next = -1
  /\ faults = MaxFaults
  /\ since = [c \in Contracts |-> 0]
  /\ handled = {} /\ skipped = {} /\ refused = <<"live", -1>>

\* try_recv returned a command: the cursor only rises, contracts are added and
\* the map is replaced.
DrainCommand ==
  /\ pc = "drain"
  /\ cmdQ # <<>>
  /\ LET c == Head(cmdQ) IN
       /\ cursor' = DrainCursor(c.latest)
       /\ contracts' = contracts \cup c.observed
       /\ fopid_to_opid' = c.ops
       /\ since' = [d \in Contracts |->
                      IF d \in c.observed \ contracts THEN cursor' ELSE since[d]]
  /\ cmdQ' = Tail(cmdQ)
  /\ UNCHANGED <<netVars, pc, replay, retention_floor, source, todo, merged, next,
                 faults, evQ, handled, skipped, refused>>

\* The queue is drained and something is observed: choose the source and fetch.
StartSweep ==
  /\ pc = "drain"
  /\ cmdQ = <<>>
  /\ contracts # {}
  /\ source' = ActiveSource
  /\ todo' = contracts /\ merged' = {} /\ next' = -1
  /\ pc' = "fetch"
  /\ UNCHANGED <<netVars, replay, contracts, fopid_to_opid, cursor, retention_floor,
                 faults, chanVars, histVars>>

OverRpc == source = "live" \/ replay = "bounded"

\* The order in which a sweep's events are handled: that of the chain, or that of
\* Hubble's rows.
Earliest(S) ==
  {e \in S : \A f \in S : IF OverRpc THEN ~Before(f, e) ELSE ~RowBefore(f, e)}

\* The fetch returned these events and the ledger to resume from.
SweepReturns(events, n) ==
  /\ merged' = events /\ next' = n /\ todo' = {}
  /\ pc' = "forward"

\* One getEvents batch against a node whose tip is `h'.  The last batch ends
\* the fetch, and a replay is then cut at its ceiling.
FetchBatch(B, h) ==
  LET found == Visible(cursor, h, B) IN
  /\ pc = "fetch" /\ OverRpc
  /\ Cardinality(B) = Smaller(BatchCap, Cardinality(todo))
  /\ low[source] <= cursor \/ cursor > h
  /\ found \cap Garbled = {}
  /\ h < tip => faults > 0
  /\ faults' = IF h < tip THEN faults - 1 ELSE faults
  /\ \E n \in BatchNext(found, h) :
       LET gathered == merged \cup found
           lowest == LowestNext(n) IN
       IF B # todo
         THEN /\ merged' = gathered /\ next' = lowest /\ todo' = todo \ B
              /\ pc' = pc
         ELSE IF source = "live"
           THEN SweepReturns(gathered, lowest)
           ELSE SweepReturns(Truncated(gathered), TruncatedNext(lowest))
  /\ UNCHANGED <<netVars, replay, contracts, fopid_to_opid, cursor, retention_floor,
                 source, chanVars, histVars>>

\* Hubble answers for as much of the span as it has ingested; when it has
\* ingested none of it the cursor holds.  Undecodable rows are skipped.
FetchHubble ==
  LET last == Smaller(cursor + MaxSpan - 1, ingested) IN
  /\ pc = "fetch" /\ ~OverRpc
  /\ IF ingested < cursor
       THEN SweepReturns({}, cursor)
       ELSE SweepReturns(Visible(cursor, last, contracts) \ Garbled, last + 1)
  /\ UNCHANGED <<netVars, replay, contracts, fopid_to_opid, cursor, retention_floor,
                 source, faults, chanVars, histVars>>

\* A node refuses the cursor as below its retention, and the whole fetch fails.
FetchRefused ==
  LET floor == low[source]
      recovery == ClassifyFetchError(Attempt, floor) IN
  /\ pc = "fetch" /\ OverRpc
  /\ cursor < floor
  /\ retention_floor' = IF recovery = "Report" THEN retention_floor ELSE floor
  /\ IF recovery = "SkipGap"
       THEN cursor' = floor /\ skipped' = skipped \cup (cursor .. floor - 1)
       ELSE UNCHANGED <<cursor, skipped>>
  /\ refused' = <<source, cursor>>
  /\ todo' = {} /\ merged' = {} /\ next' = -1
  /\ pc' = "drain"
  /\ UNCHANGED <<netVars, replay, contracts, fopid_to_opid, source, faults,
                 chanVars, since, handled>>

\* A transport error outlived its retries, or an RPC event could not be decoded:
\* everything fetched so far is dropped and the cursor holds.
FetchFails ==
  /\ pc = "fetch"
  /\ \/ faults > 0 /\ faults' = faults - 1
     \/ OverRpc /\ Visible(cursor, tip, todo) \cap Garbled # {} /\ UNCHANGED faults
  /\ todo' = {} /\ merged' = {} /\ next' = -1
  /\ pc' = "drain"
  /\ UNCHANGED <<netVars, replay, contracts, fopid_to_opid, cursor, retention_floor,
                 source, chanVars, histVars>>

-----------------------------------------------------------------------------
\* handle_event may yield activities: an operation's events need its id in the
\* map, its creation also looks the id up in the store, and a transfer takes
\* its operation from the observed token.
MayIndex(e) ==
  \/ e.kind \in {"op_created", "op_lend_transfered"}
  \/ e.kind \in OperationKinds /\ e.op \in fopid_to_opid

\* ... and it may yield none.
MayDrop(e) ==
  \/ e.kind = "unindexed"
  \/ e.kind \in OperationKinds \cup {"op_created"} /\ e.op \notin fopid_to_opid

\* {tx_hash}#{event_index}#{suffix}: the RPC reads the index from the event id.
EventHash(e) == <<e.tx, IF OverRpc THEN e.pos ELSE HubbleIndex(e), e.kind>>

Handle(e) ==
  /\ pc = "forward"
  /\ e \in Earliest(merged)
  /\ merged' = merged \ {e}
  /\ handled' = handled \cup {e}
  /\ UNCHANGED <<netVars, pc, replay, contracts, fopid_to_opid, cursor,
                 retention_floor, source, todo, next, faults, cmdQ,
                 since, skipped, refused>>

\* The send blocks while tx_events is full.
ForwardEvent(e) ==
  /\ MayIndex(e)
  /\ Post([event |-> e, hash |-> EventHash(e)])
  /\ Handle(e)

DropEvent(e) ==
  /\ MayDrop(e)
  /\ evQ' = evQ
  /\ Handle(e)

FinishSweep ==
  /\ pc = "forward"
  /\ merged = {}
  /\ cursor' = next /\ next' = -1
  /\ pc' = "drain"
  /\ UNCHANGED <<netVars, replay, contracts, fopid_to_opid, retention_floor, source,
                 todo, merged, faults, chanVars, histVars>>

-----------------------------------------------------------------------------
LoopStep ==
  \/ DrainCommand
  \/ StartSweep
  \/ \E B \in SUBSET todo, h \in low[source] .. tip : FetchBatch(B, h)
  \/ FetchHubble
  \/ FetchRefused
  \/ FetchFails
  \/ \E e \in merged : ForwardEvent(e) \/ DropEvent(e)
  \/ FinishSweep

\* The chain and the nodes, as far as this worker's replay source reads them.
NetworkStep ==
  /\ \/ CloseLedger
     \/ Prune("live")
     \/ replay = "bounded" /\ Prune("replay")
     \/ replay = "archival" /\ Ingest
  /\ UNCHANGED <<loopVars, chanVars, histVars>>

LoopTypeOK ==
  /\ pc \in {"drain", "fetch", "forward"}
  /\ replay \in {"none", "bounded", "archival"}
  /\ contracts \subseteq Contracts /\ fopid_to_opid \subseteq Ops
  /\ cursor \in Nat /\ retention_floor \in Nat
  /\ source \in Endpoints
  /\ todo \subseteq contracts
  /\ merged \subseteq Events
  /\ next \in Nat \cup {-1}
  /\ faults \in Nat
  /\ since \in [Contracts -> Nat]
  /\ handled \subseteq Events /\ skipped \subseteq Nat
  /\ refused \in Endpoints \X (Nat \cup {-1})

\* The events below `l' that the worker owes to whoever reads its store.
Due(l) ==
  {e \in Events \ Garbled :
     /\ e.contract \in contracts
     /\ since[e.contract] <= e.ledger /\ e.ledger < l
     /\ e.ledger \notin skipped}

=============================================================================
