------------------------------- MODULE Worker -------------------------------
(***************************************************************************)
(* The whole worker: Handler::run starts the event loop, sends it the first *)
(* command and then receives (handler.rs:83-118).  A crash loses both tasks *)
(* and both channels; the next process boots from the database.             *)
(***************************************************************************)
EXTENDS EventLoop, Handler

CONSTANT MaxCrashes  \* bound: restarts

ASSUME WorkerAssumption == MaxCrashes \in Nat

VARIABLES
  crashes,    \* restarts so far
  \* History, read by properties only; it survives a crash.
  everSince,  \* the lowest cursor at which a contract was ever first observed
  torn,       \* the last stored ledger of each life that crashed
  given       \* ledgers that some life gave up

lifeVars == <<crashes, everSince, torn, given>>
vars == <<netVars, loopVars, histVars, chanVars, handlerVars, lifeVars>>

\* Nothing is observed from this ledger on.
Never == MaxLedger + 1

Stored == Max({StartLedger} \cup {r.event.ledger : r \in rows})

\* The first process: it reads the database and queues the first command.
Init ==
  /\ NetworkInit /\ DbInit /\ LoopInit
  /\ hpc = "recv" /\ batch = <<>> /\ totals = NoTotals /\ command = <<>>
  /\ \E l \in Loads(NoOps) :
       ~l.faulty /\ op_data = l.op_data /\ cmdQ = <<l.command>>
  /\ evQ = <<>>
  /\ crashes = 0
  /\ everSince = [c \in Contracts |-> Never]
  /\ torn = {} /\ given = {}

\* The lowest cursor a contract was first observed at, this life included.
Observe ==
  everSince' = [c \in Contracts |->
                  IF c \in contracts' THEN Smaller(everSince[c], since'[c])
                                      ELSE everSince[c]]

\* get_op_id_from_fop_id, for a creation the map does not know: it is forwarded
\* when the store knows its id by now, and dropped when the query fails.
LookupHolds ==
  LET asked == {e \in merged \ merged' :
                  pc = "forward" /\ e.kind = "op_created" /\ e.op \notin fopid_to_opid} IN
  \/ /\ \A e \in asked : e.op \in registered <=> evQ' # evQ
     /\ UNCHANGED dbFaults
  \/ asked # {} /\ evQ' = evQ /\ DbFault

LoopTurn ==
  /\ LoopStep
  /\ LookupHolds
  /\ Observe /\ given' = given \cup skipped'
  /\ UNCHANGED <<dbVars, taskVars, crashes, torn>>

HandlerTurn == HandlerStep /\ UNCHANGED <<netVars, loopVars, histVars, lifeVars>>

\* The loop of a new process: LoopInit, in the next state.
LoopRestart ==
  /\ pc' = "drain" /\ replay' \in BuildReplay
  /\ contracts' = {} /\ fopid_to_opid' = {} /\ cursor' = StartLedger
  /\ retention_floor' = 0 /\ source' = "live"
  /\ todo' = {} /\ merged' = {} /\ next' = -1 /\ faults' = MaxFaults
  /\ since' = [c \in Contracts |-> 0]
  /\ handled' = {} /\ skipped' = {} /\ refused' = <<"live", -1>>

\* The process dies between any two steps and is started again.
Crash ==
  /\ crashes < MaxCrashes
  /\ crashes' = crashes + 1
  /\ torn' = torn \cup {Stored}
  /\ \E l \in Loads(NoOps) :
       /\ IF l.faulty THEN DbFault ELSE UNCHANGED dbFaults
       /\ op_data' = l.op_data /\ cmdQ' = <<l.command>>
  /\ evQ' = <<>>
  /\ hpc' = "recv" /\ batch' = <<>> /\ totals' = NoTotals /\ command' = <<>>
  /\ LoopRestart
  /\ UNCHANGED <<netVars, dbVars, everSince, given>>

Outside ==
  \/ NetworkStep /\ UNCHANGED <<handlerVars, lifeVars>>
  \/ OthersStep /\ UNCHANGED <<netVars, loopVars, histVars, lifeVars>>

Next == LoopTurn \/ HandlerTurn \/ Crash \/ Outside

\* tokio runs whichever task can move.
Fairness == WF_vars(LoopTurn) /\ WF_vars(HandlerTurn)

Spec == Init /\ [][Next]_vars /\ Fairness

-----------------------------------------------------------------------------
(***************************************************************************)
(* What is assumed of the chain and of the contracts, which are not in this *)
(* repository, where a property relies on it.                               *)
(***************************************************************************)
\* Who emits what is read back per contract (get_latest_*_activity): the rewards
\* contract its own events, a token its transfers.
Emitters ==
  /\ \A e \in Events : /\ e.kind \in RewardsKinds => e.contract \in Rewards
                       /\ e.kind = "op_lend_transfered" => e.contract = Token[e.op]
  /\ Factory \notin Rewards
  /\ \A q \in Ops : Token[q] \notin Rewards \cup {Factory}

\* The hash an event has when the RPC reads it, and whichever source does.
HashOf(e) == <<e.tx, e.pos, e.kind>>
OneNumbering == ~HubbleConfigured \/ \A e \in Events : HubbleIndex(e) = e.pos

\* It names the event.
HashesDistinct == \A e, f \in Events : HashOf(e) = HashOf(f) => e = f

\* MaxLedger bounds the chain.
Bounded == \A e \in Events : e.ledger <= MaxLedger

TypeOK ==
  /\ NetworkTypeOK /\ LoopTypeOK /\ ChannelsTypeOK /\ HandlerTypeOK
  /\ crashes \in 0 .. MaxCrashes
  /\ everSince \in [Contracts -> Nat]
  /\ torn \subseteq Nat /\ given \subseteq Nat

\* The handler as Indexer sees it: a message it has not inserted is still
\* queued, and one it has inserted may be a creation on its way to a refresh.
I == INSTANCE Indexer WITH
  evQ <- (IF hpc = "insert" THEN batch ELSE <<>>) \o evQ,
  EvCap <- EvCap + 1,
  stored <- Stored,
  peer <- IF hpc \notin {"recv", "insert"} /\ Head(batch).event.kind = "op_created"
            THEN "refresh" ELSE "idle",
  BootBlocks <- Nat

(***************************************************************************)
(* Every life of the worker is a life of the indexer, so what is proved of  *)
(* Indexer holds of the worker: a boot whose reads all work is a boot of    *)
(* the indexer, and every step is one of its steps or none.                 *)
(***************************************************************************)
LivesAreIndexers ==
  /\ I!Init
  /\ [][IF crashes' = crashes THEN [I!Next]_(I!vars)
                              ELSE dbFaults' = dbFaults => I!Boot']_vars

\* The events a complete database would hold.
Owed ==
  {e \in Events \ Garbled :
     /\ e.kind # "unindexed" /\ e.op \notin Drafts \cup Unregistered
     /\ everSince[e.contract] <= e.ledger /\ e.ledger < cursor
     /\ e.ledger \notin given}

Present ==
  {r.event : r \in rows} \cup {evQ[i].event : i \in DOMAIN evQ}
    \cup {batch[i].event : i \in DOMAIN batch}

(***************************************************************************)
(* What the cursor has passed is stored, or on its way, across restarts;    *)
(* a crash can cost no more than the rest of the ledger it interrupted      *)
(* (handler.rs:382-438, event_loop.rs:186-191: the next process resumes     *)
(* past the highest stored ledger).                                         *)
(***************************************************************************)
OnlyTornLedgersLose ==
  dbFaults = MaxDbFaults => \A e \in Owed \ Present : e.ledger \in torn

\* The contracts a process that starts now can lead the loop to.
Recorded == {Factory} \cup Rewards \cup {Token[q] : q \in linked \cap Listed}

(***************************************************************************)
(* A token is recorded before the loop observes it, and what a command says *)
(* never runs ahead of the database: no restart can come back knowing less  *)
(* than the process that died (handler.rs:148-166, 291-313).                *)
(***************************************************************************)
ObservedIsRecorded ==
  /\ contracts \subseteq Recorded
  /\ \A i \in DOMAIN cmdQ : cmdQ[i].observed \subseteq Recorded /\ cmdQ[i].latest <= Stored

(***************************************************************************)
(* A custodial investment is at most one fiat holding, whatever is sent     *)
(* again after a restart (handler.rs:133-142, 315-359).                     *)
(***************************************************************************)
HeldOnce == \A e \in Custodial : holdings[e] <= 1

(***************************************************************************)
(* The id map of the loop lags the store task by what is on its way, no     *)
(* more: an event of an operation that was loaded is dropped only while the *)
(* command that names it is still to be taken (activity_builder.rs:38-39,   *)
(* handler.rs:148-166, event_loop.rs:186-204: commands are drained between  *)
(* sweeps, and each replaces the map).                                      *)
(***************************************************************************)
DropsOnlyUnknown ==
  [][\A e \in handled' \ handled :
       e.kind \in OperationKinds /\ e.op \in op_data.known /\ cmdQ \o command = <<>>
         => evQ' # evQ]_vars

(***************************************************************************)
(* A contract set that was sent reaches the loop (event_loop.rs:140-141:    *)
(* "Re-subscribes when the command channel delivers an updated contract     *)
(* set").                                                                   *)
(***************************************************************************)
Resubscribes == cmdQ # <<>> ~> cmdQ = <<>>

(***************************************************************************)
(* Once the token of a published operation is recorded the loop comes to    *)
(* observe it (handler.rs:148-166, 291-313, event_loop.rs:186-199): by the  *)
(* command of the refresh, however long the sweep lasts that it waits for,  *)
(* or, when the process dies before that, by the boot of the next one.      *)
(* Only a query that fails can prevent it, as long as the channels do not   *)
(* fill up on both sides (Resubscribes).                                    *)
(***************************************************************************)
RecordedIsFollowed ==
  \A q \in Ops \ (Drafts \cup Unregistered) :
    q \in linked ~> (Token[q] \in contracts \/ dbFaults < MaxDbFaults)

=============================================================================
