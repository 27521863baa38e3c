------------------------------- MODULE Handler -------------------------------
(***************************************************************************)
(* The store task: Handler::run's receive loop (crates/lw-app/src/          *)
(* handler.rs) and the Postgres tables it writes (crates/lw-storage).       *)
(* Every SQL statement is one atomic step, or one failed query of a budget. *)
(***************************************************************************)
EXTENDS Channels, FiniteSetsExt

CONSTANTS
  Token,        \* op_token an operation's creation names
  Rewards,      \* REWARDS_CONTRACT_ID, when configured
  Custodial,    \* invested_fiat events the OpLend wallet holds for a user
  Total,        \* operations.total_shares, written by the API
  Foreign,      \* operations another chain is primary for
  Drafts,       \* operations not published when the chain starts
  Unregistered, \* operations whose factory_op_id the API has not written then
  Wide,         \* events with an amount that does not fit BIGINT
  MaxDbFaults,  \* bound: statements that fail
  MaxEvm,       \* bound: shares of an operation sold on other chains
  Abroad        \* bound: status rows of other chains, as <<operation, kind>>

ASSUME HandlerAssumption ==
  /\ Token \in [Ops -> Contracts]
  /\ Rewards \subseteq Contracts
  /\ Custodial \subseteq {e \in Events : e.kind = "invested_fiat"}
  /\ Total \in [Ops -> Nat]
  /\ Foreign \subseteq Ops /\ Drafts \subseteq Ops /\ Unregistered \subseteq Ops
  /\ Wide \subseteq Events
  /\ MaxDbFaults \in Nat /\ MaxEvm \in Nat
  /\ Abroad \subseteq Ops \X Kinds

VARIABLES
  \* The database.
  rows,       \* activity, the rows of this chain
  elsewhere,  \* the kinds of the status rows of other chains, per operation
  status,     \* operations.funding_status
  sold,       \* operations.shares_sold
  soldHere,   \* operations.stellar_shares_sold
  linked,     \* operations whose supported_chains holds the Stellar token
  primary,    \* ... as the primary entry
  published,  \* operations that are published
  registered, \* operations whose factory_op_id is written
  evmSold,    \* net shares the other chains' rows hold
  holdings,   \* fiat_holdings rows written for an event
  \* The task.
  hpc,        \* the step of HandlerSteps the task is at
  batch,      \* the message in hand, if any
  totals,     \* sums read but not yet written, per ongoing operation
  op_data,    \* operations as last loaded
  command,    \* the command waiting for room in tx_cmd, if any
  dbFaults    \* failing statements left

\* Two columns of one UPDATE, and what only other programs write.
progressVars == <<sold, soldHere>>
othersVars == <<published, registered, evmSold, elsewhere>>

dbVars == <<rows, status, progressVars, linked, primary, holdings, othersVars>>
taskVars == <<hpc, batch, totals, op_data, command>>
handlerVars == <<dbVars, taskVars, dbFaults>>

HandlerSteps ==
  {"recv", "insert", "progress", "save", "status", "effects", "reload", "send"}

FundingStatus ==
  {"upcoming", "predeposit", "open", "paused", "finished", "canceled"}

OpData == [known : SUBSET Ops, linked : SUBSET Ops, primary : SUBSET Ops]

-----------------------------------------------------------------------------
\* Mutant of Priority: started below predeposit.
PrioritySwapped ==
  [op_created |-> 1, op_predeposits_open |-> 4, op_started |-> 2, op_paused |-> 5,
   op_resumed |-> 6, op_finished |-> 7, op_canceled |-> 8]

\* activity_event_priority and activity_event_to_funding_status, for the events
\* get_operation_status_history selects.
Priority ==
  [op_created |-> 1, op_predeposits_open |-> 2, op_started |-> 4, op_paused |-> 5,
   op_resumed |-> 6, op_finished |-> 7, op_canceled |-> 8]

FundingStatusOf ==
  [op_created |-> "upcoming", op_predeposits_open |-> "predeposit",
   op_started |-> "open", op_paused |-> "paused", op_resumed |-> "open",
   op_finished |-> "finished", op_canceled |-> "canceled"]

StatusEvents == DOMAIN Priority

\* Mutant of FactoryNeedsRefresh: a refund triggers nothing.
FactoryNeedsRefreshUnlessRefund(kind) ==
  kind \in StatusEvents \cup {"invested", "invested_fiat"}

FactoryNeedsRefresh(kind) ==
  kind \in StatusEvents \cup {"invested", "invested_fiat", "refunded"}

OfOp(o, kinds) == {r.event : r \in {m \in rows : m.event.op = o /\ m.event.kind \in kinds}}

Highest(kinds) == {k \in kinds : \A l \in kinds : Priority[l] <= Priority[k]}

\* The event that decides the status of an operation, if any: the query selects
\* by factory_op_id, so the rows of every chain take part.
StatusHistory(o) == Highest({e.kind : e \in OfOp(o, StatusEvents)} \cup elsewhere[o])

SharesOf(o, kind) ==
  MapThenSumSet(LAMBDA r : r.event.shares,
                {r \in rows : r.event.op = o /\ r.event.kind = kind})

\* Mutant of NetFunded: a plain subtraction.
NetFundedWraps(o, others) ==
  SharesOf(o, "invested") + others - SharesOf(o, "refunded")

\* net_funded_shares over the rows of every chain, saturating at zero; `others'
\* is what the rows of other chains add.
NetFunded(o, others) ==
  LET invested == SharesOf(o, "invested") + others
      refunded == SharesOf(o, "refunded") IN
  IF invested < refunded THEN 0 ELSE invested - refunded

\* factory_op_id IS NOT NULL AND published.
Listed == published \cap registered

Ongoing == {o \in Listed : status[o] \in {"open", "predeposit"}}
Unfinished == {o \in Listed : status[o] \in {"open", "predeposit", "upcoming"}}

RewardsKinds == {"claimed_rewards", "rewards_distributed"}

\* The highest stored ledger of a contract's events, 0 when there is none or the
\* query failed.
LatestStored(c, readable) ==
  LET kinds == CASE c = Factory -> {"op_created"} \cup (OperationKinds \ RewardsKinds)
                 [] c \in Rewards -> RewardsKinds
                 [] OTHER -> {"op_lend_transfered"}
      stored == {r \in rows : r.event.kind \in kinds /\
                   (kinds = {"op_lend_transfered"} => c = Token[r.event.op])}
  IN IF c \in readable THEN Max({0} \cup {r.event.ledger : r \in stored}) ELSE 0

\* Mutant of LatestBlock: the ledger to resume from, which the loop adds again.
LatestBlockPlusOne(c, readable) == LatestStored(c, readable) + 1

\* The factory falls back to its start ledger.
LatestBlock(c, readable) ==
  IF c = Factory /\ LatestStored(c, readable) = 0 THEN StartLedger
                                                  ELSE LatestStored(c, readable)

-----------------------------------------------------------------------------
DbFault == dbFaults > 0 /\ dbFaults' = dbFaults - 1

\* get_all.
Loaded == [known |-> Listed, linked |-> linked, primary |-> primary]

\* Mutant of Observable: whether or not the token was recorded.
ObservableKnown(d) == {Factory} \cup Rewards \cup {Token[o] : o \in d.known}

\* The contracts the loaded operations lead to.
Observable(d) ==
  {Factory} \cup Rewards \cup {Token[o] : o \in d.known \cap d.linked}

\* Mutant of Reads: the id map holds only operations with a Stellar token.
ReadsLinked(d, loaded) ==
  {[op_data |-> d,
    faulty |-> ~loaded \/ readable # Observable(d),
    command |-> [observed |-> Observable(d), ops |-> d.known \cap d.linked,
                 latest |-> Max({LatestBlock(c, readable) : c \in Observable(d)})]] :
     readable \in SUBSET Observable(d)}

\* The get_latest_*_activity reads for the operations in memory, as the outcomes
\* they may have: a failed read counts as 0.
Reads(d, loaded) ==
  {[op_data |-> d,
    faulty |-> ~loaded \/ readable # Observable(d),
    command |-> [observed |-> Observable(d), ops |-> d.known,
                 latest |-> Max({LatestBlock(c, readable) : c \in Observable(d)})]] :
     readable \in SUBSET Observable(d)}

\* Mutant of Loads: the operations are not loaded again.
LoadsNothing(old) == Reads(old, TRUE)

\* get_op_data and those reads: a failed load keeps the operations last loaded.
Loads(old) == Reads(Loaded, TRUE) \cup Reads(old, FALSE)

NoTotals == [o \in {} |-> 0]
NoOps == [known |-> {}, linked |-> {}, primary |-> {}]

Receive ==
  /\ hpc = "recv"
  /\ evQ # <<>>
  /\ batch' = <<Head(evQ)>> /\ evQ' = Tail(evQ)
  /\ hpc' = "insert"
  /\ UNCHANGED <<cmdQ, dbVars, totals, op_data, command, dbFaults>>

\* The message in hand.
Held == Head(batch)

\* On to the next step for the message in hand, or to the next message.
GoTo(step) ==
  /\ hpc' = step
  /\ batch' = IF step = "recv" THEN <<>> ELSE batch

\* Mutant of Hashes: no unique key.
NoHashes == {}

\* The hashes already stored; event_hash is UNIQUE.
Hashes == {r.hash : r \in rows}

\* insert_many is one statement.  A failure may reach the worker after the
\* commit; either way the task goes on to the next message.
Insert ==
  /\ hpc = "insert"
  /\ \/ /\ Held.hash \notin Hashes
        /\ rows' = rows \cup {Held}
        /\ GoTo(IF FactoryNeedsRefresh(Held.event.kind) THEN "progress" ELSE "recv")
        /\ UNCHANGED dbFaults
     \/ /\ Held.hash \in Hashes
        /\ GoTo("recv")
        /\ UNCHANGED <<rows, dbFaults>>
     \/ /\ DbFault
        /\ rows' \in {rows} \cup {rows \cup {m} : m \in {n \in {Held} : n.hash \notin Hashes}}
        /\ GoTo("recv")
  /\ UNCHANGED <<chanVars, status, progressVars, linked, primary, holdings, othersVars,
                 totals, op_data, command>>

\* SUM(... ::BIGINT) over every ongoing operation at once: one amount that does
\* not fit fails the query for all of them.
TotalsFit ==
  \A r \in rows :
    r.event \in Wide /\ r.event.kind \in {"invested", "refunded"} => r.event.op \notin Ongoing

\* Mutant of TotalsOf: the Stellar sums are taken over every chain.
TotalsOfAnyChain(o) ==
  [all |-> NetFunded(o, evmSold[o]), here |-> NetFunded(o, evmSold[o])]

\* Shares sold over all chains, and on this one.
TotalsOf(o) == [all |-> NetFunded(o, evmSold[o]), here |-> NetFunded(o, 0)]

\* sync_op_progress reads the totals of every ongoing operation ...
ReadTotals ==
  /\ hpc = "progress"
  /\ \/ /\ totals' = IF TotalsFit THEN [o \in Ongoing |-> TotalsOf(o)] ELSE NoTotals
        /\ UNCHANGED dbFaults
     \/ DbFault /\ UNCHANGED totals
  /\ GoTo("save")
  /\ UNCHANGED <<chanVars, dbVars, op_data, command>>

\* A statement that fails may do so after its commit.
MayFail == DbFault \/ UNCHANGED dbFaults

\* ... and then writes what it read, when every query worked.
SaveTotals ==
  /\ hpc = "save"
  /\ \/ /\ sold' = [o \in Ops |-> IF o \in DOMAIN totals THEN totals[o].all ELSE sold[o]]
        /\ soldHere' = [o \in Ops |-> IF o \in DOMAIN totals THEN totals[o].here
                                                            ELSE soldHere[o]]
        /\ IF DOMAIN totals = {} THEN UNCHANGED dbFaults ELSE MayFail
     \/ DOMAIN totals # {} /\ DbFault /\ UNCHANGED progressVars
  /\ totals' = NoTotals
  /\ GoTo("status")
  /\ UNCHANGED <<chanVars, rows, status, linked, primary, holdings, othersVars,
                 op_data, command>>

\* update_operation_status for one operation: `finished' waits for every share
\* to be sold.
Updated(o, history) ==
  LET new == {FundingStatusOf[k] : k \in history}
      applies == {s \in new : s = "finished" => sold[o] = Total[o]} IN
  IF o \in Unfinished /\ applies # {} THEN CHOOSE s \in applies : TRUE ELSE status[o]

\* Mutants of StatusUpdate: `finished' is not gated; every operation is updated.
StatusUpdateUngated(o) ==
  IF o \in Unfinished \cap op_data.known \cap op_data.primary /\ StatusHistory(o) # {}
    THEN FundingStatusOf[CHOOSE k \in StatusHistory(o) : TRUE]
    ELSE status[o]
StatusUpdateAnyChain(o) ==
  IF o \in op_data.known THEN Updated(o, StatusHistory(o)) ELSE status[o]

\* ... and only for those this chain is primary for, as far as the task knows.
StatusUpdate(o) ==
  IF o \in op_data.known \cap op_data.primary THEN Updated(o, StatusHistory(o)) ELSE status[o]

\* sync_op_status up to the per-event effects, which are skipped when nothing is
\* unfinished or that query fails.
SyncStatus ==
  /\ hpc = "status"
  /\ \/ /\ Unfinished # {}
        /\ \/ status' = [o \in Ops |-> StatusUpdate(o)] /\ MayFail
           \/ DbFault /\ UNCHANGED status
        /\ GoTo("effects")
     \/ /\ (Unfinished = {} /\ UNCHANGED dbFaults) \/ DbFault
        /\ UNCHANGED status
        /\ GoTo("recv")
  /\ UNCHANGED <<chanVars, rows, progressVars, linked, primary, holdings, othersVars,
                 totals, op_data, command>>

\* add_first_chain: the token is appended once, as primary unless one is there,
\* to the operation that has the creation's factory_op_id.
AddFirstChain ==
  LET created == {Held.event.op} \cap registered IN
  /\ hpc = "effects"
  /\ Held.event.kind = "op_created"
  /\ \/ /\ linked' = linked \cup created
        /\ primary' = primary \cup (created \ (linked \cup Foreign))
        /\ MayFail
     \/ DbFault /\ UNCHANGED <<linked, primary>>
  /\ GoTo("reload")
  /\ UNCHANGED <<chanVars, rows, status, progressVars, holdings, othersVars,
                 totals, op_data, command>>

\* fiat_holdings has no key: every insert is a new row.
RecordHolding ==
  /\ hpc = "effects"
  /\ Held.event.kind = "invested_fiat"
  /\ \/ Held.event \notin Custodial /\ UNCHANGED <<holdings, dbFaults>>
     \/ /\ Held.event \in Custodial
        /\ \/ /\ holdings' = [holdings EXCEPT ![Held.event] = holdings[Held.event] + 1]
              /\ MayFail
           \/ DbFault /\ UNCHANGED holdings
  /\ GoTo("recv")
  /\ UNCHANGED <<chanVars, rows, status, progressVars, linked, primary, othersVars,
                 totals, op_data, command>>

NoEffects ==
  /\ hpc = "effects"
  /\ Held.event.kind \notin {"op_created", "invested_fiat"}
  /\ GoTo("recv")
  /\ UNCHANGED <<chanVars, dbVars, totals, op_data, command, dbFaults>>

\* refresh_data: the reads, then a send that waits for room.
Reload ==
  /\ hpc = "reload"
  /\ \E l \in Loads(op_data) :
       /\ op_data' = l.op_data /\ command' = <<l.command>>
       /\ IF l.faulty THEN DbFault ELSE UNCHANGED dbFaults
  /\ GoTo("send")
  /\ UNCHANGED <<chanVars, dbVars, totals>>

SendCommand ==
  /\ hpc = "send"
  /\ Send(Head(command)) /\ command' = <<>>
  /\ GoTo("recv")
  /\ UNCHANGED <<evQ, dbVars, totals, op_data, dbFaults>>

HandlerStep ==
  \/ Receive \/ Insert
  \/ ReadTotals \/ SaveTotals \/ SyncStatus
  \/ AddFirstChain \/ RecordHolding \/ NoEffects
  \/ Reload \/ SendCommand

\* The API publishes an operation.
Publish(o) ==
  /\ published' = published \cup {o}
  /\ UNCHANGED <<rows, status, progressVars, linked, primary, registered, evmSold, elsewhere,
                 holdings>>

\* The API writes the factory id of an operation.
Register(o) ==
  /\ registered' = registered \cup {o}
  /\ UNCHANGED <<rows, status, progressVars, linked, primary, published, evmSold, elsewhere,
                 holdings>>

\* The worker of another chain stores a sale and syncs shares_sold.
EvmSale(o) ==
  /\ o \in Ongoing
  /\ evmSold[o] < MaxEvm
  /\ evmSold' = [evmSold EXCEPT ![o] = evmSold[o] + 1]
  /\ sold' = [sold EXCEPT ![o] = NetFunded(o, evmSold[o] + 1)]
  /\ UNCHANGED <<rows, status, soldHere, linked, primary, published, registered, elsewhere,
                 holdings>>

\* The worker of another chain stores a status event and, where its chain is the
\* primary one, syncs the status by the same rule.
EvmStatus(o, k) ==
  /\ <<o, k>> \in Abroad /\ k \notin elsewhere[o]
  /\ UNCHANGED rows
  /\ elsewhere' = [elsewhere EXCEPT ![o] = elsewhere[o] \cup {k}]
  /\ status' = IF o \in Foreign THEN [status EXCEPT ![o] = Updated(o, StatusHistory(o)')]
                                 ELSE status
  /\ UNCHANGED <<progressVars, linked, primary, published, registered, evmSold, holdings>>

OthersStep ==
  /\ \/ \E o \in Ops \ published : Publish(o)
     \/ \E o \in Ops \ registered : Register(o)
     \/ \E o \in published : EvmSale(o)
     \/ \E o \in Ops, k \in StatusEvents : EvmStatus(o, k)
  /\ UNCHANGED <<taskVars, dbFaults, chanVars>>

\* The tables before the worker first runs.
DbInit ==
  /\ rows = {}
  /\ status = [o \in Ops |-> "upcoming"]
  /\ sold = [o \in Ops |-> 0] /\ soldHere = [o \in Ops |-> 0]
  /\ linked = {} /\ primary = {}
  /\ published = Ops \ Drafts /\ registered = Ops \ Unregistered
  /\ evmSold = [o \in Ops |-> 0] /\ elsewhere = [o \in Ops |-> {}]
  /\ holdings = [e \in Events |-> 0]
  /\ dbFaults = MaxDbFaults

HandlerTypeOK ==
  /\ rows \subseteq Message
  /\ status \in [Ops -> FundingStatus]
  /\ sold \in [Ops -> Nat] /\ soldHere \in [Ops -> Nat] /\ evmSold \in [Ops -> Nat]
  /\ linked \subseteq Ops /\ primary \subseteq linked /\ published \subseteq Ops
  /\ registered \subseteq Ops
  /\ elsewhere \in [Ops -> SUBSET StatusEvents]
  /\ holdings \in [Events -> Nat]
  /\ hpc \in HandlerSteps
  /\ DOMAIN totals \subseteq Ops /\ \A o \in DOMAIN totals : totals[o] \in [all : Nat, here : Nat]
  /\ batch \in Seq(Message) /\ Len(batch) = IF hpc = "recv" THEN 0 ELSE 1
  /\ op_data \in OpData
  /\ command \in Seq(Command) /\ Len(command) = IF hpc = "send" THEN 1 ELSE 0
  /\ dbFaults \in Nat

=============================================================================
