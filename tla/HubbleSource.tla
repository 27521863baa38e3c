----------------------------- MODULE HubbleSource ----------------------------
(***************************************************************************)
(* The archival replay: how build_replay (event_loop.rs) comes to trust     *)
(* Hubble at boot, and one call of HubbleSource::fetch, two BigQuery        *)
(* queries with the pipeline loading tables in between (hubble.rs).         *)
(***************************************************************************)
EXTENDS Network, SequencesExt

CONSTANTS
  MaxSpan,         \* HUBBLE_MAX_SPAN
  MaxInt,          \* i32::MAX
  MaxDrift,        \* MAX_TIP_DRIFT
  OtherTip,        \* the tips another network's dataset may be at
  Starts,          \* bound: the start_ledger arguments
  SlowQueries      \* whether a query may outlast QUERY_TIMEOUT_MS

ASSUME HubbleSourceAssumption ==
  /\ MaxInt \in Nat /\ MaxSpan \in -MaxInt .. MaxInt
  /\ MaxDrift \in Nat /\ OtherTip \subseteq Nat
  /\ Starts \subseteq 0 .. MaxInt
  /\ SlowQueries \in BOOLEAN

VARIABLES
  dataset,      \* <<>> when HUBBLE_DATASET is of this network, else <<its tip>>
  pc,           \* "tip" | "connect" | "coverage" | "events" | "done"
  network_tip,  \* tip of the live RPC, <<>> for None
  replay,       \* "none" until build_replay decides: "archival" | "fallback"
  start, ids,   \* the arguments
  covered,      \* Coverage.max_ledger
  answer

vars == <<netVars, dataset, pc, network_tip, replay, start, ids, covered, answer>>

Source == INSTANCE EventSource

\* Another network's dataset is whole, and holds none of our contracts.
OwnNetwork == dataset = <<>>
Watermark == IF OwnNetwork THEN ingested ELSE dataset[1]

\* Mutant of Plausible: only a dataset ahead of the chain is suspect.
PlausibleSigned(hubble_tip) == hubble_tip - network_tip[1] <= MaxDrift

\* A dataset whose tip is this far off belongs to another network.
Plausible(hubble_tip) ==
  /\ network_tip[1] - hubble_tip <= MaxDrift
  /\ hubble_tip - network_tip[1] <= MaxDrift

Span == Max({MaxSpan, 1})
RequestedEnd == Min({start + Span - 1, MaxInt})

\* Mutant of ResumeAfter: the whole span, ingested or not.
ResumeAfterSpan == RequestedEnd + 1

\* The cursor advances only as far as Hubble has ingested.
ResumeAfter == covered + 1

\* The sequences that list S as the query may.
Listings(S) ==
  {s \in SetToSeqs(S) : \A i, j \in DOMAIN s : i < j => ~RowBefore(s[j], s[i])}

\* The rows of the events query that decode; the others are skipped.
Rows ==
  IF OwnNetwork THEN Visible(start, Min({covered, ingested}), ids) \ Garbled ELSE {}

-----------------------------------------------------------------------------
Init ==
  /\ NetworkInit
  /\ dataset \in {<<>>} \cup {<<t>> : t \in OtherTip}
  /\ pc = "tip" /\ network_tip = <<>> /\ replay = "none"
  /\ start \in Starts /\ ids \in (SUBSET Contracts) \ {{}}
  /\ covered = 0
  /\ answer = Source!Pending

\* Mutant of TipReads: an unknown tip is a number like any other.
TipReadsDefaulted == {<<-1>>, <<tip>>}

TipReads == {<<>>, <<tip>>}

\* get_latest_ledger, on which event_loop calls build_replay.
ReadNetworkTip ==
  /\ pc = "tip" /\ pc' = "connect"
  /\ network_tip' \in TipReads
  /\ UNCHANGED <<netVars, dataset, replay, start, ids, covered, answer>>

\* The dataset is readable and close to the live chain.
Connect ==
  /\ pc = "connect" /\ pc' = "coverage"
  /\ network_tip # <<>>
  /\ Watermark > 0
  /\ Plausible(Watermark)
  /\ replay' = "archival"
  /\ UNCHANGED <<netVars, dataset, network_tip, start, ids, covered, answer>>

\* No tip, no credentials, a probe that failed, an empty table or too great a
\* drift: the RPC replay instead, if one is configured.
FallBack ==
  /\ pc = "connect" /\ pc' = "done"
  /\ replay' = "fallback"
  /\ UNCHANGED <<netVars, dataset, network_tip, start, ids, covered, answer>>

Finish(a) == answer' = a /\ pc' = "done"

\* The first query: the watermark within the requested range.
ResolveCoverage ==
  /\ pc = "coverage"
  /\ start <= Watermark
  /\ covered' = Min({RequestedEnd, Watermark})
  /\ pc' = "events"
  /\ UNCHANGED <<netVars, dataset, network_tip, replay, start, ids, answer>>

\* Nothing of the range is ingested, or the query is too slow to say.
HoldCursor ==
  /\ pc = "coverage"
  /\ Watermark < start \/ SlowQueries
  /\ Finish(Source!Ok(<<>>, start))
  /\ UNCHANGED <<netVars, dataset, network_tip, replay, start, ids, covered>>

\* What `query' may return for the events: a response that is not complete in
\* time has no rows and no page token, and is returned as it is.
Results == Listings(Rows) \cup (IF SlowQueries THEN {<<>>} ELSE {})

\* The second query.
ReadEvents ==
  /\ pc = "events"
  /\ \E result \in Results : Finish(Source!Ok(result, ResumeAfter))
  /\ UNCHANGED <<netVars, dataset, network_tip, replay, start, ids, covered>>

\* Either query, or a page of its result, fails.
QueryFails ==
  /\ pc \in {"coverage", "events"}
  /\ Finish(Source!Failed)
  /\ UNCHANGED <<netVars, dataset, network_tip, replay, start, ids, covered>>

Next ==
  \/ ReadNetworkTip \/ Connect \/ FallBack
  \/ ResolveCoverage \/ HoldCursor
  \/ ReadEvents \/ QueryFails
  \/ /\ CloseLedger \/ Ingest
     /\ UNCHANGED <<dataset, pc, network_tip, replay, start, ids, covered, answer>>

Spec == Init /\ [][Next]_vars

-----------------------------------------------------------------------------
TypeOK ==
  /\ NetworkTypeOK
  /\ dataset \in {<<>>} \cup {<<t>> : t \in OtherTip}
  /\ pc \in {"tip", "connect", "coverage", "events", "done"}
  /\ network_tip \in Seq(Nat) /\ Len(network_tip) <= 1
  /\ replay \in {"none", "archival", "fallback"}
  /\ start \in Nat /\ ids \subseteq Contracts /\ covered \in Nat
  /\ answer.kind \in {"pending", "ok", "err"}

(***************************************************************************)
(* The replay returns every event before the ledger to resume from, once,   *)
(* in the order of ledgers and transactions, although ledgers and events    *)
(* come from two queries with ingestion between them, and no row may mean   *)
(* "nothing happened" or "not ingested yet" (hubble.rs:17-20, 429-431).  The *)
(* trait promises chain order (event_source.rs:83-84); inside a transaction *)
(* the query does not give it, as its index starts over per contract        *)
(* (hubble.rs:323, 334).                                                    *)
(***************************************************************************)
HonoursTraitPerTransaction == Source!TransactionSpec

(***************************************************************************)
(* A dataset of another network is never replayed, whether its ledger       *)
(* numbers are ahead of this network's or behind, and not while the own tip *)
(* is unknown (hubble.rs:131-135, event_loop.rs:81-84).                     *)
(***************************************************************************)
OwnHistoryOnly == replay = "archival" => OwnNetwork

(***************************************************************************)
(* Every ledger before the one to resume from has been read: a query that   *)
(* is still running is waited for (hubble.rs:43-44: "How long BigQuery may  *)
(* take before the first response returns; paging continues afterwards      *)
(* regardless").                                                            *)
(***************************************************************************)
ReadWhatItPasses ==
  answer.kind = "ok" =>
    Visible(start, answer.next - 1, ids) \ Garbled \subseteq ToSet(answer.events)

=============================================================================
