------------------------------- MODULE Indexer -------------------------------
(***************************************************************************)
(* The event loop against any store task.  The other task is reduced to     *)
(* what the loop can see of it: it takes a message, stores it or not, and   *)
(* may then send one command whose latest_block is at most the highest      *)
(* stored ledger.  Worker.tla checks that the handler does no more.         *)
(***************************************************************************)
EXTENDS EventLoop

CONSTANT BootBlocks  \* highest latest_block the store may report at boot

ASSUME IndexerAssumption == BootBlocks \subseteq Nat

VARIABLES
  peer,     \* "idle" | "refresh"
  stored    \* highest ledger the other task has stored

peerVars == <<peer, stored>>
vars == <<netVars, loopVars, chanVars, peerVars, histVars>>

\* Handler::run from an empty state: both tasks, their channels and the first
\* command.
Boot ==
  /\ LoopInit
  /\ evQ = <<>>
  /\ stored \in BootBlocks
  /\ \E observed \in SUBSET Contracts, ops \in SUBSET Ops :
       /\ Factory \in observed
       /\ cmdQ = <<[observed |-> observed, latest |-> stored, ops |-> ops]>>
  /\ peer = "idle"

Init == NetworkInit /\ Boot

\* The insert may fail; when it succeeds, an operation's creation is usually
\* followed by a refresh of the contract set.
Receive ==
  /\ peer = "idle"
  /\ evQ # <<>>
  /\ evQ' = Tail(evQ)
  /\ \/ UNCHANGED peerVars
     \/ /\ stored' = Larger(stored, Head(evQ).event.ledger)
        /\ \/ peer' = "idle"
           \/ Head(evQ).event.kind = "op_created" /\ peer' = "refresh"
  /\ UNCHANGED <<netVars, loopVars, cmdQ, histVars>>

\* refresh_data sends what the store holds now.
Refresh(observed, latest, ops) ==
  /\ peer = "refresh"
  /\ Factory \in observed
  /\ Send([observed |-> observed, latest |-> latest, ops |-> ops])
  /\ peer' = "idle"
  /\ UNCHANGED <<netVars, loopVars, evQ, stored, histVars>>

\* The refresh does not happen: nothing is unfinished, or a query failed.
Forgo ==
  /\ peer = "refresh" /\ peer' = "idle"
  /\ UNCHANGED <<netVars, loopVars, chanVars, stored, histVars>>

PeerStep ==
  \/ Receive
  \/ Forgo
  \/ \E observed \in SUBSET Contracts, latest \in 0 .. stored, ops \in SUBSET Ops :
       Refresh(observed, latest, ops)

Next ==
  \/ LoopStep /\ UNCHANGED peerVars
  \/ PeerStep
  \/ NetworkStep /\ UNCHANGED peerVars

\* Both tasks are scheduled by tokio whenever they can run, and Hubble keeps
\* ingesting; nothing obliges ledgers to close or nodes to prune.
Fairness ==
  /\ WF_vars(LoopStep /\ UNCHANGED peerVars)
  /\ WF_vars(PeerStep)
  /\ WF_vars(replay = "archival" /\ Ingest /\ UNCHANGED <<loopVars, chanVars, peerVars,
                                                         histVars>>)

Spec == Init /\ [][Next]_vars /\ Fairness

-----------------------------------------------------------------------------
TypeOK ==
  /\ NetworkTypeOK /\ LoopTypeOK /\ ChannelsTypeOK
  /\ peer \in {"idle", "refresh"} /\ stored \in Nat

(***************************************************************************)
(* No silent gap: once the cursor has passed a ledger, every event of an    *)
(* observed contract in it was handled, unless SkipGap gave the ledger up   *)
(* (which the code logs).  It speaks of fetch, paging, batching, the        *)
(* replay's ceiling, Hubble's watermark and the commands that raise the     *)
(* cursor together: event_loop.rs:186-199, 228, 248.                        *)
(***************************************************************************)
NoSilentGap == Due(cursor) \subseteq handled

(***************************************************************************)
(* The loop never repeats a request that was just refused as below          *)
(* retention (event_loop.rs:51-53: "it must never leave the cursor pointed  *)
(* at a source that just refused it").                                      *)
(***************************************************************************)
NoRefusedRetry == pc = "fetch" => <<source, cursor>> # refused

(***************************************************************************)
(* Hubble holds history from genesis: with it nothing is ever given up      *)
(* (event_loop.rs:55-58, test never_skips_a_gap_hubble_could_still_replay). *)
(***************************************************************************)
ArchivalSkipsNothing == replay = "archival" => skipped = {}

(***************************************************************************)
(* What SkipGap gives up is out of reach of every source, the live node     *)
(* included (event_loop.rs:29-31: "an out-of-range rejection means the gap  *)
(* is unreachable from any source").  True where the replay endpoint retains *)
(* what the live one does.                                                  *)
(***************************************************************************)
SkippedUnreachable ==
  [][\A l \in skipped' \ skipped :
       /\ l < low["live"]
       /\ replay = "bounded" => l < low["replay"]
       /\ replay # "archival"]_vars

(***************************************************************************)
(* Nothing is handled twice in one life of the worker: a sweep starts       *)
(* where the last one ended (event_loop.rs:228).  It holds when every sweep *)
(* is a single batch; with several, the lowest batch cursor re-reads.       *)
(***************************************************************************)
NothingHandledTwice == pc = "forward" => merged \cap handled = {}

(***************************************************************************)
(* The cursor never moves back (event_loop.rs:189-191, 228, 248).           *)
(***************************************************************************)
CursorMonotonic == [][cursor <= cursor']_vars

(***************************************************************************)
(* Every ledger that closes is eventually behind the cursor, whatever the   *)
(* nodes have pruned: the loop never spins on a refusal (the incident of    *)
(* event_loop.rs:49-53), nor waits for a watermark that has passed.         *)
(***************************************************************************)
CatchUp == \A l \in 1 .. MaxLedger : tip >= l ~> cursor > l

(***************************************************************************)
(* An event hash names one event (hubble.rs:305-306: the index "exists      *)
(* solely to keep `{tx_hash}#{event_index}` unique").                       *)
(***************************************************************************)
HashNamesOneEvent ==
  \A i, j \in DOMAIN evQ : evQ[i].hash = evQ[j].hash => evQ[i].event = evQ[j].event

=============================================================================
