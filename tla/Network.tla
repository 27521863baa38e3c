------------------------------- MODULE Network -------------------------------
(***************************************************************************)
(* The outside world of the indexer, as crates/lw-chain/src/event_source.rs *)
(* and hubble.rs use it: the Stellar chain and the nodes that serve it.     *)
(*                                                                         *)
(* The events the chain will ever contain are a constant; a ledger becomes *)
(* visible when it closes.  Two RPC endpoints serve windows of the chain:  *)
(* "live" (SOROBAN_RPC_URL) and "replay" (BACKFILL_SOURCE_URL).  A window   *)
(* starts at the oldest ledger the node retains and moves up as the node   *)
(* prunes.  Hubble, when it is the replay source, has no lower bound but    *)
(* trails the tip: `ingested' is its watermark.                             *)
(***************************************************************************)
EXTENDS Integers, FiniteSets

CONSTANTS
  Contracts,      \* contract addresses the worker may observe
  Ops,            \* factory operation ids
  Events,         \* every event of the chain, past and future
  Garbled,        \* the events whose XDR this build cannot decode
  FirstTip,       \* chain tip when the worker boots
  FirstLow,       \* what the endpoints retain then
  FirstIngested,  \* what Hubble has ingested then
  MaxLedger,      \* bound: the last ledger that closes
  MaxLow,         \* bound: how far retention windows are pruned
  ReplayIsDeeper  \* whether the replay endpoint retains at least what live does

\* The events of a known operation that need nothing but its id.
OperationKinds ==
  {"op_predeposits_open", "op_predeposits_closed", "op_started", "op_paused",
   "op_resumed", "op_finished", "op_canceled", "invested", "invested_fiat",
   "refunded", "claimed_op_token", "funding_withdrawn", "claimed_rewards",
   "rewards_distributed"}

\* "unindexed" stands for every event decode_event or handle_event gives up on.
Kinds == OperationKinds \cup {"op_created", "op_lend_transfered", "unindexed"}

(***************************************************************************)
(* `ledger' is RawSorobanEvent.ledger_seq, `tx' its transaction, `pos' the  *)
(* place of the event in its ledger (the RPC event id), `op' the factory    *)
(* operation it names, `shares' the shares bought or refunded.              *)
(***************************************************************************)
Event ==
  [ledger : Nat, tx : Nat, pos : Nat, contract : Contracts, op : Ops, kind : Kinds,
   shares : Nat]

Endpoints == {"live", "replay"}

ASSUME NetworkAssumption ==
  /\ Events \subseteq Event /\ IsFiniteSet(Events)
  /\ Garbled \subseteq Events
  /\ FirstTip \in Nat /\ FirstIngested \in Nat
  /\ FirstLow \in [Endpoints -> Nat]
  /\ ReplayIsDeeper => FirstLow["replay"] <= FirstLow["live"]
  /\ MaxLedger \in Nat
  /\ MaxLow \in Nat
  /\ ReplayIsDeeper \in BOOLEAN

VARIABLES
  tip,       \* last closed ledger
  low,       \* oldest ledger each endpoint retains
  ingested   \* last ledger Hubble has ingested

netVars == <<tip, low, ingested>>

NetworkTypeOK ==
  /\ tip \in Nat
  /\ low \in [Endpoints -> Nat]
  /\ ingested \in Nat

NetworkInit ==
  /\ tip = FirstTip
  /\ low = FirstLow
  /\ ingested = FirstIngested

\* A ledger closes, and its events become visible.
CloseLedger ==
  /\ tip < MaxLedger
  /\ tip' = tip + 1
  /\ UNCHANGED <<low, ingested>>

\* An endpoint drops its oldest ledger.
Prune(s) ==
  /\ low[s] < tip
  /\ low[s] < MaxLow
  /\ s = "replay" /\ ReplayIsDeeper => low["replay"] < low["live"]
  /\ low' = [low EXCEPT ![s] = low[s] + 1]
  /\ UNCHANGED <<tip, ingested>>

\* Hubble's pipeline catches up by some ledgers.
Ingest ==
  /\ ingested < tip
  /\ ingested' = ingested + 1
  /\ UNCHANGED <<tip, low>>

\* What a node whose tip is `h' returns for contracts B from `start' on.
Visible(start, h, B) ==
  {e \in Events : start <= e.ledger /\ e.ledger <= h /\ e.contract \in B}

\* The order of events on chain.
Before(e, f) == e.ledger < f.ledger \/ (e.ledger = f.ledger /\ e.pos < f.pos)

\* Hubble numbers the events of one contract in one transaction: ROW_NUMBER
\* starts over in every contract, and its order, by XDR bytes, is taken to be
\* that of `pos'.
HubbleIndex(e) ==
  Cardinality({f \in Events : f.tx = e.tx /\ f.contract = e.contract /\ f.pos < e.pos})

\* ORDER BY ledger_sequence, transaction_id, operation_id, event_index, where a
\* transaction is one operation.
RowBefore(e, f) ==
  \/ e.ledger < f.ledger
  \/ e.ledger = f.ledger /\ e.tx < f.tx
  \/ e.ledger = f.ledger /\ e.tx = f.tx /\ HubbleIndex(e) < HubbleIndex(f)

=============================================================================
