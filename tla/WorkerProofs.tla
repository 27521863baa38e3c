---------------------------- MODULE WorkerProofs -----------------------------
(***************************************************************************)
(* Theorems about the whole worker, for every chain, every capacity of the  *)
(* channels and any number of crashes and failing statements.               *)
(***************************************************************************)
EXTENDS Worker, HandlerProofs, LoopProofs

USE NetworkAssumption, ChannelsAssumption, EventLoopAssumption, HandlerAssumption,
    WorkerAssumption

-----------------------------------------------------------------------------
\* The highest ledger of some rows, START_LEDGER when there are none.
LEMMA HighestIs ==
  ASSUME NEW R \in SUBSET Message, IsFiniteSet(R)
  PROVE  /\ Max({StartLedger} \cup {r.event.ledger : r \in R}) \in Nat
         /\ StartLedger <= Max({StartLedger} \cup {r.event.ledger : r \in R})
         /\ \A m \in R : m.event.ledger <= Max({StartLedger} \cup {r.event.ledger : r \in R})
         /\ Max({StartLedger} \cup {r.event.ledger : r \in R})
              \in {StartLedger} \cup {r.event.ledger : r \in R}
<1> DEFINE A == {StartLedger}
           B == {r.event.ledger : r \in R}
<1>1. IsFiniteSet(B) /\ IsFiniteSet(A)
  BY LedgersFinite, FS_Singleton
<1>2. B \subseteq Nat
  BY MessageIs
<1>3. A \cup B \subseteq Int /\ A \cup B # {} /\ A \cup B \subseteq Nat /\ StartLedger \in A \cup B
  BY <1>2
<1>4. \A m \in R : m.event.ledger \in A \cup B
  OBVIOUS
<1>5. IsFiniteSet(A \cup B)
  <2> HIDE DEF A, B
  <2> QED
    BY <1>1, FS_Union
<1>6. Max(A \cup B) \in A \cup B /\ \A x \in A \cup B : x <= Max(A \cup B)
  <2> HIDE DEF A, B
  <2> QED
    BY <1>3, <1>5, MaxIs
<1>7. /\ Max(A \cup B) \in Nat /\ StartLedger <= Max(A \cup B)
      /\ \A m \in R : m.event.ledger <= Max(A \cup B)
  <2> HIDE DEF A, B
  <2> QED
    BY <1>3, <1>4, <1>6
<1> QED
  BY <1>6, <1>7

LEMMA StoredIs ==
  ASSUME RowsOK
  PROVE  /\ Stored \in Nat /\ StartLedger <= Stored
         /\ \A r \in rows : r.event.ledger <= Stored
         /\ Stored \in {StartLedger} \cup {r.event.ledger : r \in rows}
<1>1. rows \in SUBSET Message /\ IsFiniteSet(rows)
  BY DEF RowsOK
<1> QED
  BY ONLY <1>1, HighestIs DEF Stored

LEMMA StoredIsNext ==
  ASSUME RowsOK'
  PROVE  /\ Stored' \in Nat /\ StartLedger <= Stored'
         /\ \A r \in rows' : r.event.ledger <= Stored'
         /\ Stored' \in {StartLedger} \cup {r.event.ledger : r \in rows'}
<1>1. rows' \in SUBSET Message /\ IsFiniteSet(rows')
  BY DEF RowsOK
<1> QED
  BY ONLY <1>1, HighestIs DEF Stored

\* It never falls, and a row moves it to its own ledger at most.
LEMMA StoredRises ==
  ASSUME RowsOK, RowsOK', rows \subseteq rows'
  PROVE  Stored <= Stored' /\ Stored \in Nat /\ Stored' \in Nat
BY StoredIs, StoredIsNext

LEMMA StoredAfter ==
  ASSUME RowsOK, NEW m \in Message, rows' = rows \cup {m}
  PROVE  Stored' = Larger(Stored, m.event.ledger)
<1>1. RowsOK' /\ m.event.ledger \in Nat
  BY FS_AddElement, MessageIs DEF RowsOK
<1>2. Stored <= Stored' /\ m.event.ledger <= Stored' /\ Stored \in Nat /\ Stored' \in Nat
  BY <1>1, StoredIs, StoredIsNext
<1>3. Stored' \in {StartLedger} \cup {r.event.ledger : r \in rows} \cup {m.event.ledger}
  BY <1>1, StoredIsNext
<1>4. Stored' <= Stored \/ Stored' = m.event.ledger
  BY <1>3, StoredIs
<1> QED
  BY <1>1, <1>2, <1>4 DEF Larger

-----------------------------------------------------------------------------
LifeTypeOK ==
  /\ crashes \in 0 .. MaxCrashes
  /\ everSince \in [Contracts -> Nat]
  /\ torn \subseteq Nat /\ given \subseteq Nat

WorkerInv == LoopInv /\ HandlerInv /\ LifeTypeOK

LEMMA WorkerInvIs == WorkerInv => TypeOK /\ RowsOK /\ Loaded \in OpData
BY HandlerInvRows DEF WorkerInv, LoopInv, LoopTypes, HandlerInv, LifeTypeOK, TypeOK

\* What the store task and the database are left with by the loop.
LEMMA LoopTurnFrame ==
  ASSUME LoopTurn, dbFaults \in Nat
  PROVE  /\ UNCHANGED <<dbVars, taskVars, crashes, torn>>
         /\ dbFaults' \in Nat /\ dbFaults' <= dbFaults
         /\ dbFaults' = dbFaults \/ DbFault
BY DEF LoopTurn, LookupHolds, DbFault

LEMMA LoopTurnInv == WorkerInv /\ LoopTurn => WorkerInv'
<1> SUFFICES ASSUME WorkerInv, LoopTurn PROVE WorkerInv'
  OBVIOUS
<1>1. LoopInv'
  BY LoopInvNext DEF WorkerInv, LoopTurn
<1>2. UNCHANGED <<dbVars, taskVars, crashes, torn>> /\ dbFaults' \in Nat
  BY LoopTurnFrame DEF WorkerInv, HandlerInv, HandlerTypeOK
<1>3. HandlerInv'
  BY <1>1, <1>2 DEF WorkerInv, HandlerInv, HandlerTypeOK, LoopInv, LoopTypes, dbVars, taskVars,
                    progressVars, othersVars
<1>4. LifeTypeOK'
  <2>1. since' \in [Contracts -> Nat] /\ skipped' \subseteq Nat /\ everSince \in [Contracts -> Nat]
    BY <1>1 DEF LoopInv, LoopTypes, LoopTypeOK, WorkerInv, LifeTypeOK
  <2>2. \A c \in Contracts : Smaller(everSince[c], since'[c]) \in Nat
    BY <2>1 DEF Smaller
  <2>3. everSince' \in [Contracts -> Nat]
    BY <2>1, <2>2 DEF LoopTurn, Observe
  <2> QED
    BY <1>2, <2>1, <2>3 DEF LoopTurn, WorkerInv, LifeTypeOK
<1> QED
  BY <1>1, <1>3, <1>4 DEF WorkerInv

LEMMA HandlerTurnInv == WorkerInv /\ HandlerTurn => WorkerInv'
<1> SUFFICES ASSUME WorkerInv, HandlerTurn PROVE WorkerInv'
  OBVIOUS
<1>1. HandlerInv'
  BY HandlerStepInv DEF WorkerInv, HandlerTurn
<1>2. UNCHANGED <<netVars, loopVars, histVars, lifeVars>>
  BY DEF HandlerTurn
<1>3. LoopInv'
  BY <1>1, <1>2, LoopInvOthers DEF WorkerInv, HandlerInv
<1> QED
  BY <1>1, <1>2, <1>3 DEF WorkerInv, LifeTypeOK, lifeVars

LEMMA OutsideInv == WorkerInv /\ Outside => WorkerInv'
<1> SUFFICES ASSUME WorkerInv, Outside PROVE WorkerInv'
  OBVIOUS
<1>1. CASE NetworkStep /\ UNCHANGED <<handlerVars, lifeVars>>
  <2>1. LoopInv'
    BY <1>1, LoopInvNetwork DEF WorkerInv
  <2> QED
    BY <1>1, <2>1 DEF WorkerInv, HandlerInv, HandlerTypeOK, LoopInv, LoopTypes, LifeTypeOK, lifeVars,
                      handlerVars, dbVars, taskVars, progressVars, othersVars
<1>2. CASE OthersStep /\ UNCHANGED <<netVars, loopVars, histVars, lifeVars>>
  <2>1. HandlerInv'
    BY <1>2, OthersStepInv DEF WorkerInv
  <2>2. LoopInv'
    BY <1>2, <2>1, LoopInvOthers DEF WorkerInv, HandlerInv
  <2> QED
    BY <1>2, <2>1, <2>2 DEF WorkerInv, LifeTypeOK, lifeVars
<1> QED
  BY <1>1, <1>2 DEF Outside

LEMMA NoOpsType == NoOps \in OpData
BY DEF NoOps, OpData

\* What a process that starts finds and does.
LEMMA RestartIs ==
  ASSUME WorkerInv, Crash
  PROVE  \E l \in Loads(NoOps) :
           /\ l.op_data \in {Loaded, NoOps} /\ l.op_data \in OpData /\ l.command \in Command
           /\ l.command.observed = Observable(l.op_data) /\ l.command.ops = l.op_data.known
           /\ l.command.latest \in {0, StartLedger} \cup {r.event.ledger : r \in rows}
           /\ dbFaults' = dbFaults =>
                /\ l.op_data = Loaded
                /\ \A c \in Observable(Loaded) :
                     LatestBlock(c, Observable(Loaded)) <= l.command.latest
           /\ op_data' = l.op_data /\ cmdQ' = <<l.command>>
           /\ dbFaults' \in Nat /\ dbFaults' <= dbFaults
<1>1. PICK l \in Loads(NoOps) :
        /\ IF l.faulty THEN DbFault ELSE UNCHANGED dbFaults
        /\ op_data' = l.op_data /\ cmdQ' = <<l.command>>
  BY DEF Crash
<1>2. dbFaults \in Nat
  BY DEF WorkerInv, HandlerInv, HandlerTypeOK
<1>3. dbFaults' \in Nat /\ dbFaults' <= dbFaults /\ (dbFaults' = dbFaults => ~l.faulty)
  BY <1>1, <1>2 DEF DbFault
<1> QED
  BY <1>1, <1>3, WorkerInvIs, LoadsAre, NoOpsType

LEMMA RestartType ==
  ASSUME UNCHANGED netVars, NetworkTypeOK, LoopRestart, ChannelsTypeOK'
  PROVE  LoopInv'
<1>1. replay' \in {"none", "bounded", "archival"}
  BY DEF LoopRestart, BuildReplay
<1> QED
  BY <1>1 DEF LoopInv, LoopTypes, LoopTypeOK, NetworkTypeOK, NextAhead, LoopRestart, netVars, Endpoints

LEMMA CrashInv == WorkerInv /\ Crash => WorkerInv'
<1> SUFFICES ASSUME WorkerInv, Crash PROVE WorkerInv'
  OBVIOUS
<1>1. op_data' \in OpData /\ cmdQ' \in Seq(Command) /\ dbFaults' \in Nat
  <2>1. PICK l \in Loads(NoOps) :
          /\ l.op_data \in OpData /\ l.command \in Command
          /\ op_data' = l.op_data /\ cmdQ' = <<l.command>> /\ dbFaults' \in Nat
    BY RestartIs
  <2> QED
    BY <2>1
<1>2. ChannelsTypeOK'
  BY <1>1 DEF Crash, ChannelsTypeOK
<1>3. LoopInv'
  BY <1>2, RestartType DEF Crash, WorkerInv, LoopInv, LoopTypes
<1>4. HandlerInv'
  BY <1>1, <1>2 DEF Crash, WorkerInv, HandlerInv, HandlerTypeOK, HandlerSteps, NoTotals, dbVars,
                    progressVars, othersVars
<1>5. LifeTypeOK'
  <2>1. Stored \in Nat
    BY WorkerInvIs, StoredIs
  <2>2. crashes' \in 0 .. MaxCrashes
    BY DEF Crash, WorkerInv, LifeTypeOK
  <2>3. torn' \subseteq Nat /\ UNCHANGED <<everSince, given>>
    BY <2>1 DEF Crash, WorkerInv, LifeTypeOK
  <2> QED
    BY <2>2, <2>3 DEF WorkerInv, LifeTypeOK
<1> QED
  BY <1>3, <1>4, <1>5 DEF WorkerInv

LEMMA WorkerInit == Init => WorkerInv
<1> SUFFICES ASSUME Init PROVE WorkerInv
  OBVIOUS
<1>1. rows = {} /\ published \subseteq Ops /\ linked = {} /\ primary = {}
  BY DEF Init, DbInit
<1>2. RowsOK /\ Loaded \in OpData
  BY <1>1, LoadedType, FS_EmptySet DEF RowsOK
<1>3. PICK l \in Loads(NoOps) : ~l.faulty /\ op_data = l.op_data /\ cmdQ = <<l.command>>
  BY DEF Init
<1>4. op_data \in OpData /\ cmdQ \in Seq(Command)
  BY <1>2, <1>3, NoOpsType, LoadsAre
<1>5. HandlerInv
  BY <1>1, <1>2, <1>4
  DEF Init, DbInit, HandlerInv, HandlerTypeOK, ChannelsTypeOK, FundingStatus, HandlerSteps, NoTotals, RowsOK
<1>6. LoopInv
  <2>1. replay \in {"none", "bounded", "archival"}
    BY DEF Init, LoopInit, BuildReplay
  <2> QED
    BY <1>5, <2>1 DEF Init, NetworkInit, LoopInit, LoopInv, LoopTypes, LoopTypeOK, NetworkTypeOK,
                      NextAhead, HandlerInv, Endpoints
<1>7. LifeTypeOK
  BY DEF Init, LifeTypeOK, Never
<1> QED
  BY <1>5, <1>6, <1>7 DEF WorkerInv

LEMMA WorkerInvNext == WorkerInv /\ [Next]_vars => WorkerInv'
<1> SUFFICES ASSUME WorkerInv, [Next]_vars PROVE WorkerInv'
  OBVIOUS
<1>1. CASE UNCHANGED vars
  BY <1>1 DEF vars, netVars, loopVars, histVars, chanVars, handlerVars, lifeVars, dbVars, taskVars,
     progressVars, othersVars, WorkerInv, LoopInv, LoopTypes, LoopTypeOK, NetworkTypeOK, NextAhead,
     ChannelsTypeOK, HandlerInv, HandlerTypeOK, LifeTypeOK
<1> QED
  BY <1>1, LoopTurnInv, HandlerTurnInv, OutsideInv, CrashInv DEF Next

(***************************************************************************)
(* Every variable of the worker keeps its type, across restarts: no sum, no *)
(* count and no step of either task leaves its domain.                      *)
(***************************************************************************)
THEOREM TypeCorrect == Spec => []TypeOK
<1>1. Init => WorkerInv
  BY WorkerInit
<1>2. WorkerInv /\ [Next]_vars => WorkerInv'
  BY WorkerInvNext
<1>3. WorkerInv => TypeOK
  BY WorkerInvIs
<1> QED
  BY <1>1, <1>2, <1>3, PTL DEF Spec

-----------------------------------------------------------------------------
\* No step takes anything back from the tables that restarts rely on.
LEMMA DatabaseGrows ==
  ASSUME [Next]_vars
  PROVE  rows \subseteq rows' /\ linked \subseteq linked' /\ Listed \subseteq Listed'
<1>1. CASE LoopTurn
  BY <1>1 DEF LoopTurn, dbVars, othersVars, Listed
<1>2. CASE HandlerTurn
  BY <1>2 DEF HandlerTurn, HandlerStep, Receive, Insert, ReadTotals, SaveTotals, SyncStatus,
              AddFirstChain, RecordHolding, NoEffects, Reload, SendCommand, dbVars, othersVars, Listed
<1>3. CASE Crash
  BY <1>3 DEF Crash, dbVars, othersVars, Listed
<1>4. CASE Outside
  <2>1. CASE NetworkStep /\ UNCHANGED <<handlerVars, lifeVars>>
    BY <2>1 DEF handlerVars, dbVars, othersVars, Listed
  <2>2. CASE OthersStep
    BY <2>2 DEF OthersStep, Publish, Register, EvmSale, EvmStatus, Listed
  <2> QED
    BY <1>4, <2>1, <2>2 DEF Outside
<1>5. CASE UNCHANGED vars
  BY <1>5 DEF vars, handlerVars, dbVars, othersVars, Listed
<1> QED
  BY <1>1, <1>2, <1>3, <1>4, <1>5 DEF Next

LEMMA RecordedGrows ==
  ASSUME WorkerInv, WorkerInv', [Next]_vars
  PROVE  Recorded \subseteq Recorded' /\ Stored <= Stored' /\ Stored \in Nat /\ Stored' \in Nat
<1>1. rows \subseteq rows' /\ linked \subseteq linked' /\ Listed \subseteq Listed'
  BY DatabaseGrows
<1>2. RowsOK /\ RowsOK'
  BY DEF WorkerInv, HandlerInv, HandlerTypeOK, RowsOK
<1> QED
  BY <1>1, <1>2, StoredRises DEF Recorded

\* Where a command comes from and where it goes.
LEMMA CommandFrame ==
  ASSUME [Next]_vars
  PROVE  \/ DrainCommand /\ LoopTurn /\ UNCHANGED <<command, op_data>>
         \/ Reload /\ UNCHANGED <<contracts, fopid_to_opid, cmdQ>>
         \/ SendCommand /\ UNCHANGED <<contracts, fopid_to_opid, op_data>>
         \/ Crash
         \/ UNCHANGED <<contracts, fopid_to_opid, cmdQ, command, op_data>>
<1>1. CASE LoopTurn
  BY <1>1 DEF LoopTurn, LoopStep, StartSweep, FetchBatch, FetchHubble, FetchRefused, FetchFails,
              ForwardEvent, DropEvent, Handle, FinishSweep, chanVars, taskVars
<1>2. CASE HandlerTurn
  BY <1>2 DEF HandlerTurn, HandlerStep, Receive, Insert, ReadTotals, SaveTotals, SyncStatus,
              AddFirstChain, RecordHolding, NoEffects, Reload, SendCommand, loopVars, chanVars
<1>3. CASE Outside
  BY <1>3 DEF Outside, NetworkStep, OthersStep, loopVars, chanVars, handlerVars, taskVars
<1>4. CASE UNCHANGED vars
  BY <1>4 DEF vars, loopVars, chanVars, handlerVars, taskVars
<1> QED
  BY <1>1, <1>2, <1>3, <1>4 DEF Next

(***************************************************************************)
(* What the loop knows comes from a command, and every command was made     *)
(* from operations the database holds and ledgers it has stored: neither    *)
(* goes back, so no command can run ahead of them.                          *)
(***************************************************************************)
CommandRecorded(c) == Factory \in c.observed /\ c.observed \subseteq Recorded /\ c.latest <= Stored
RecordedCommands == {c \in Command : CommandRecorded(c)}

ObservedInv ==
  /\ op_data.known \subseteq Listed /\ op_data.linked \subseteq linked
  /\ contracts \subseteq Recorded
  /\ \A i \in 1 .. Len(cmdQ) : cmdQ[i] \in RecordedCommands
  /\ \A i \in 1 .. Len(command) : command[i] \in RecordedCommands

LEMMA ObservableRecorded ==
  ASSUME NEW d, d.known \subseteq Listed, d.linked \subseteq linked
  PROVE  Observable(d) \subseteq Recorded
BY DEF Observable, Recorded

\* What a load returns is what the database holds.
LEMMA LoadRecorded ==
  ASSUME RowsOK, Loaded \in OpData, NEW old \in OpData, NEW l \in Loads(old),
         old.known \subseteq Listed, old.linked \subseteq linked
  PROVE  /\ l.op_data.known \subseteq Listed /\ l.op_data.linked \subseteq linked
         /\ l.command \in RecordedCommands
<1>1. /\ l.op_data \in {Loaded, old} /\ l.command \in Command
      /\ l.command.observed = Observable(l.op_data)
      /\ l.command.latest \in {0, StartLedger} \cup {r.event.ledger : r \in rows}
  BY LoadsAre
<1>2. l.op_data.known \subseteq Listed /\ l.op_data.linked \subseteq linked
  BY <1>1 DEF Loaded
<1>3. Observable(l.op_data) \subseteq Recorded /\ Factory \in Observable(l.op_data)
  BY <1>2, ObservableRecorded DEF Observable
<1>4. l.command.latest <= Stored
  BY <1>1, StoredIs
<1> QED
  BY <1>1, <1>2, <1>3, <1>4 DEF CommandRecorded, RecordedCommands

\* A command stays recorded.
LEMMA CommandsKept ==
  ASSUME WorkerInv, WorkerInv', [Next]_vars
  PROVE  RecordedCommands \subseteq RecordedCommands'
<1>1. Recorded \subseteq Recorded' /\ Stored <= Stored' /\ Stored \in Nat /\ Stored' \in Nat
  BY RecordedGrows
<1>2. SUFFICES ASSUME NEW c \in Command, CommandRecorded(c) PROVE CommandRecorded(c)'
  BY DEF RecordedCommands
<1>3. c.latest \in Nat
  BY DEF Command
<1> QED
  BY <1>1, <1>2, <1>3 DEF CommandRecorded

LEMMA ObservedInit == Init => ObservedInv
<1> SUFFICES ASSUME Init PROVE ObservedInv
  OBVIOUS
<1>1. RowsOK /\ Loaded \in OpData
  BY WorkerInit, WorkerInvIs
<1>2. PICK l \in Loads(NoOps) : op_data = l.op_data /\ cmdQ = <<l.command>>
  BY DEF Init
<1>3. /\ l.op_data.known \subseteq Listed /\ l.op_data.linked \subseteq linked
      /\ l.command \in RecordedCommands
  BY <1>1, <1>2, NoOpsType, LoadRecorded DEF NoOps
<1>4. contracts = {} /\ command = <<>>
  BY DEF Init, LoopInit
<1> QED
  BY <1>2, <1>3, <1>4 DEF ObservedInv

\* Commands move along a queue unchanged.
LEMMA TailOfSeq ==
  ASSUME NEW S, NEW q \in Seq(S), q # <<>>
  PROVE  /\ Tail(q) \in Seq(S) /\ Len(Tail(q)) = Len(q) - 1 /\ Len(q) \in Nat
         /\ Head(q) = q[1] /\ Head(q) \in S /\ 1 \in 1 .. Len(q)
         /\ \A i \in 1 .. Len(Tail(q)) : Tail(q)[i] = q[i + 1] /\ i + 1 \in 1 .. Len(q)
OBVIOUS

LEMMA AppendOfSeq ==
  ASSUME NEW S, NEW q \in Seq(S), NEW x \in S
  PROVE  /\ Append(q, x) \in Seq(S) /\ Len(Append(q, x)) = Len(q) + 1 /\ Len(q) \in Nat
         /\ Append(q, x)[Len(q) + 1] = x
         /\ \A i \in 1 .. Len(q) : Append(q, x)[i] = q[i]
OBVIOUS

\* A queue whose members are in a set: what is taken off it and put on it.
LEMMA QueueTail ==
  ASSUME NEW S, NEW T, NEW q \in Seq(S), q # <<>>, \A i \in 1 .. Len(q) : q[i] \in T
  PROVE  Head(q) \in T /\ \A i \in 1 .. Len(Tail(q)) : Tail(q)[i] \in T
BY TailOfSeq

LEMMA QueueAppend ==
  ASSUME NEW S, NEW T, NEW q \in Seq(S), NEW x \in S, x \in T, \A i \in 1 .. Len(q) : q[i] \in T
  PROVE  \A i \in 1 .. Len(Append(q, x)) : Append(q, x)[i] \in T
<1>1. Len(Append(q, x)) = Len(q) + 1 /\ Len(q) \in Nat /\ Append(q, x)[Len(q) + 1] = x
  BY AppendOfSeq
<1>2. TAKE i \in 1 .. Len(Append(q, x))
<1>3. i \in 1 .. Len(q) \/ i = Len(q) + 1
  BY <1>1
<1> QED
  BY <1>1, <1>3, AppendOfSeq

\* The command that waits to be sent.
LEMMA CommandHeld ==
  ASSUME WorkerInv, SendCommand
  PROVE  /\ cmdQ \in Seq(Command) /\ command \in Seq(Command) /\ command # <<>>
         /\ Head(command) = command[1] /\ 1 \in 1 .. Len(command) /\ Head(command) \in Command
         /\ cmdQ' = Append(cmdQ, Head(command)) /\ command' = <<>>
<1>1. cmdQ \in Seq(Command) /\ command \in Seq(Command) /\ hpc = "send"
  BY DEF WorkerInv, HandlerInv, HandlerTypeOK, ChannelsTypeOK, SendCommand
<1>2. Len(command) = 1
  BY <1>1 DEF WorkerInv, HandlerInv, HandlerTypeOK
<1>3. command # <<>>
  <2> SUFFICES ASSUME command = <<>> PROVE FALSE
    OBVIOUS
  <2>1. Len(command) = 0
    OBVIOUS
  <2> QED
    BY <1>2, <2>1
<1> QED
  BY <1>1, <1>3, TailOfSeq DEF SendCommand, Send

LEMMA ObservedNext ==
  ASSUME WorkerInv, WorkerInv', ObservedInv, [Next]_vars
  PROVE  ObservedInv'
<1>1. cmdQ \in Seq(Command) /\ command \in Seq(Command) /\ op_data \in OpData
  BY DEF WorkerInv, HandlerInv, HandlerTypeOK, ChannelsTypeOK
<1>2. /\ \A i \in 1 .. Len(cmdQ) : cmdQ[i] \in RecordedCommands'
      /\ \A i \in 1 .. Len(command) : command[i] \in RecordedCommands'
  BY CommandsKept DEF ObservedInv
<1>3. contracts \subseteq Recorded'
  BY RecordedGrows DEF ObservedInv
<1>4. op_data.known \subseteq Listed' /\ op_data.linked \subseteq linked'
  BY DatabaseGrows DEF ObservedInv
<1>5. CASE DrainCommand /\ UNCHANGED <<command, op_data>>
  <2>1. cmdQ # <<>> /\ cmdQ' = Tail(cmdQ) /\ contracts' = contracts \cup Head(cmdQ).observed
    BY <1>5 DEF DrainCommand
  <2>2. Head(cmdQ) \in RecordedCommands' /\ \A i \in 1 .. Len(cmdQ') : cmdQ'[i] \in RecordedCommands'
    BY <1>1, <1>2, <2>1, QueueTail
  <2>3. contracts' \subseteq Recorded'
    BY <1>3, <2>1, <2>2 DEF CommandRecorded, RecordedCommands
  <2> QED
    BY <1>2, <1>4, <1>5, <2>2, <2>3 DEF ObservedInv
<1>6. CASE Reload /\ UNCHANGED <<contracts, fopid_to_opid, cmdQ>>
  <2>1. PICK l \in Loads(op_data) : op_data' = l.op_data /\ command' = <<l.command>>
    BY <1>6 DEF Reload
  <2>2. /\ l.op_data.known \subseteq Listed /\ l.op_data.linked \subseteq linked
        /\ l.command \in RecordedCommands
    BY <1>1, WorkerInvIs, LoadRecorded DEF ObservedInv
  <2>3. op_data'.known \subseteq Listed' /\ op_data'.linked \subseteq linked'
    BY <2>1, <2>2, DatabaseGrows
  <2>4. \A i \in 1 .. Len(command') : command'[i] \in RecordedCommands'
    BY <2>1, <2>2, CommandsKept
  <2> QED
    BY <1>2, <1>3, <1>6, <2>3, <2>4 DEF ObservedInv
<1>7. CASE SendCommand /\ UNCHANGED <<contracts, fopid_to_opid, op_data>>
  <2>1. /\ Head(command) \in Command /\ Head(command) \in RecordedCommands'
        /\ cmdQ' = Append(cmdQ, Head(command)) /\ command' = <<>>
    BY <1>2, <1>7, CommandHeld
  <2>2. \A i \in 1 .. Len(cmdQ') : cmdQ'[i] \in RecordedCommands'
    BY <1>1, <1>2, <2>1, QueueAppend
  <2> QED
    BY <1>3, <1>4, <1>7, <2>1, <2>2 DEF ObservedInv
<1>8. CASE Crash
  <2>1. PICK l \in Loads(NoOps) : op_data' = l.op_data /\ cmdQ' = <<l.command>>
    BY <1>8 DEF Crash
  <2>2. /\ l.op_data.known \subseteq Listed /\ l.op_data.linked \subseteq linked
        /\ l.command \in RecordedCommands
    BY WorkerInvIs, NoOpsType, LoadRecorded DEF NoOps
  <2>3. l.command \in RecordedCommands'
    BY <2>2, CommandsKept
  <2>4. op_data'.known \subseteq Listed' /\ op_data'.linked \subseteq linked'
    BY <2>1, <2>2, DatabaseGrows
  <2>5. contracts' = {} /\ command' = <<>>
    BY <1>8 DEF Crash, LoopRestart
  <2> QED
    BY <2>1, <2>3, <2>4, <2>5 DEF ObservedInv
<1>9. CASE UNCHANGED <<contracts, fopid_to_opid, cmdQ, command, op_data>>
  BY <1>2, <1>3, <1>4, <1>9 DEF ObservedInv
<1> QED
  BY <1>5, <1>6, <1>7, <1>8, <1>9, CommandFrame

(***************************************************************************)
(* No restart comes back knowing less: what the loop observes, and what a   *)
(* command on its way tells it, the database already holds.                 *)
(***************************************************************************)
THEOREM RestartsKnowAll == Spec => []ObservedIsRecorded
<1>1. Init => WorkerInv /\ ObservedInv
  BY WorkerInit, ObservedInit
<1>2. WorkerInv /\ ObservedInv /\ [Next]_vars => (WorkerInv /\ ObservedInv)'
  BY WorkerInvNext, ObservedNext
<1>3. WorkerInv /\ ObservedInv => ObservedIsRecorded
  <2>1. WorkerInv => \A i \in DOMAIN cmdQ : i \in 1 .. Len(cmdQ)
    BY DEF WorkerInv, HandlerInv, ChannelsTypeOK
  <2> QED
    BY <2>1 DEF ObservedInv, ObservedIsRecorded, CommandRecorded, RecordedCommands
<1> QED
  BY <1>1, <1>2, <1>3, PTL DEF Spec

-----------------------------------------------------------------------------
\* The last command on its way names what the task knows; when none is, the loop
\* has taken it.
MapInv ==
  /\ command # <<>> => Head(command).ops = op_data.known
  /\ command = <<>> /\ cmdQ # <<>> => cmdQ[Len(cmdQ)].ops = op_data.known
  /\ command = <<>> /\ cmdQ = <<>> => fopid_to_opid = op_data.known

LEMMA MapInit == Init => MapInv
<1> SUFFICES ASSUME Init PROVE MapInv
  OBVIOUS
<1>1. RowsOK /\ Loaded \in OpData
  BY WorkerInit, WorkerInvIs
<1>2. PICK l \in Loads(NoOps) : op_data = l.op_data /\ cmdQ = <<l.command>>
  BY DEF Init
<1>3. l.command.ops = l.op_data.known
  BY <1>1, NoOpsType, LoadsAre
<1>4. command = <<>>
  BY DEF Init
<1> QED
  BY <1>2, <1>3, <1>4 DEF MapInv

LEMMA MapNext ==
  ASSUME WorkerInv, MapInv, [Next]_vars
  PROVE  MapInv'
<1>1. cmdQ \in Seq(Command) /\ command \in Seq(Command) /\ op_data \in OpData
  BY DEF WorkerInv, HandlerInv, HandlerTypeOK, ChannelsTypeOK
<1>2. CASE DrainCommand /\ UNCHANGED <<command, op_data>>
  <2>1. cmdQ # <<>> /\ cmdQ' = Tail(cmdQ) /\ fopid_to_opid' = Head(cmdQ).ops
    BY <1>2 DEF DrainCommand
  <2>2. CASE Len(cmdQ) = 1
    BY <1>1, <1>2, <2>1, <2>2 DEF MapInv
  <2>3. CASE Len(cmdQ) # 1
    <3>1. /\ Len(cmdQ') = Len(cmdQ) - 1 /\ Len(cmdQ) \in Nat /\ Len(cmdQ) # 0
          /\ \A i \in 1 .. Len(cmdQ') : cmdQ'[i] = cmdQ[i + 1]
      BY <1>1, <2>1, TailOfSeq
    <3>2. Len(cmdQ') \in 1 .. Len(cmdQ') /\ Len(cmdQ') + 1 = Len(cmdQ)
      BY <2>3, <3>1
    <3>3. cmdQ'[Len(cmdQ')] = cmdQ[Len(cmdQ)]
      BY <3>1, <3>2
    <3>4. cmdQ # <<>> /\ cmdQ' # <<>>
      <4> SUFFICES ASSUME cmdQ' = <<>> PROVE FALSE
        BY <2>1
      <4>1. Len(cmdQ') = 0
        OBVIOUS
      <4> QED
        BY <3>1, <4>1, <2>3
    <3>5. command' = command /\ op_data' = op_data
      BY <1>2
    <3> QED
      BY <3>3, <3>4, <3>5 DEF MapInv
  <2> QED
    BY <2>2, <2>3
<1>3. CASE Reload /\ UNCHANGED <<contracts, fopid_to_opid, cmdQ>>
  <2>1. PICK l \in Loads(op_data) : op_data' = l.op_data /\ command' = <<l.command>>
    BY <1>3 DEF Reload
  <2>2. l.command.ops = l.op_data.known
    BY <1>1, WorkerInvIs, LoadsAre
  <2> QED
    BY <2>1, <2>2 DEF MapInv
<1>4. CASE SendCommand /\ UNCHANGED <<contracts, fopid_to_opid, op_data>>
  <2>1. /\ Head(command) \in Command /\ command # <<>>
        /\ cmdQ' = Append(cmdQ, Head(command)) /\ command' = <<>>
    BY <1>4, CommandHeld
  <2>2. /\ Len(cmdQ') = Len(cmdQ) + 1 /\ Len(cmdQ) \in Nat
        /\ cmdQ'[Len(cmdQ) + 1] = Head(command)
    BY <1>1, <2>1, AppendOfSeq
  <2>3. cmdQ'[Len(cmdQ')] = Head(command) /\ cmdQ' # <<>>
    BY <2>2
  <2> QED
    BY <1>4, <2>1, <2>3 DEF MapInv
<1>5. CASE Crash
  <2>1. PICK l \in Loads(NoOps) : op_data' = l.op_data /\ cmdQ' = <<l.command>>
    BY <1>5 DEF Crash
  <2>2. l.command.ops = l.op_data.known
    BY WorkerInvIs, NoOpsType, LoadsAre
  <2>3. command' = <<>>
    BY <1>5 DEF Crash
  <2> QED
    BY <2>1, <2>2, <2>3 DEF MapInv
<1>6. CASE UNCHANGED <<contracts, fopid_to_opid, cmdQ, command, op_data>>
  BY <1>6 DEF MapInv
<1> QED
  BY <1>2, <1>3, <1>4, <1>5, <1>6, CommandFrame

\* Only the loop handles events, and it forwards what its map knows.
LEMMA HandledIs ==
  ASSUME WorkerInv, [Next]_vars, NEW e \in handled' \ handled, e.kind \in OperationKinds,
         e.op \in fopid_to_opid
  PROVE  evQ' # evQ
<1>1. LoopTurn
  BY DEF Next, HandlerTurn, Crash, LoopRestart, Outside, NetworkStep, histVars, vars
<1>2. PICK f \in merged : ForwardEvent(f) \/ DropEvent(f)
  BY <1>1 DEF LoopTurn, LoopStep, DrainCommand, StartSweep, FetchBatch, FetchHubble, FetchRefused,
              FetchFails, FinishSweep, histVars
<1>3. f = e
  BY <1>2 DEF ForwardEvent, DropEvent, Handle
<1>4. ~MayDrop(e)
  BY DEF MayDrop, OperationKinds
<1>5. Post([event |-> e, hash |-> EventHash(e)]) /\ evQ \in Seq(Message) /\ e \in Events
  BY <1>2, <1>3, <1>4
  DEF ForwardEvent, DropEvent, WorkerInv, LoopInv, LoopTypes, LoopTypeOK, ChannelsTypeOK
<1>6. [event |-> e, hash |-> EventHash(e)] \in Message
  BY <1>5, MessageOf
<1>7. Len(evQ') = Len(evQ) + 1 /\ Len(evQ) \in Nat
  BY <1>5, <1>6, AppendOfSeq DEF Post
<1> QED
  BY <1>7

(***************************************************************************)
(* The loop drops no event of an operation the store task has loaded, once  *)
(* no command is on its way.                                                *)
(***************************************************************************)
THEOREM KnownIsForwarded == Spec => DropsOnlyUnknown
<1>1. Init => WorkerInv /\ MapInv
  BY WorkerInit, MapInit
<1>2. WorkerInv /\ MapInv /\ [Next]_vars => (WorkerInv /\ MapInv)'
  BY WorkerInvNext, MapNext
<1>3. ASSUME WorkerInv, MapInv, [Next]_vars, NEW e \in handled' \ handled,
             e.kind \in OperationKinds, e.op \in op_data.known, cmdQ \o command = <<>>
      PROVE  evQ' # evQ
  <2>1. cmdQ \in Seq(Command) /\ command \in Seq(Command)
    BY <1>3 DEF WorkerInv, HandlerInv, HandlerTypeOK, ChannelsTypeOK
  <2>2. cmdQ = <<>> /\ command = <<>>
    BY <1>3, <2>1
  <2>3. fopid_to_opid = op_data.known
    BY <1>3, <2>2 DEF MapInv
  <2> QED
    BY <1>3, <2>3, HandledIs
<1>4. WorkerInv /\ MapInv /\ [Next]_vars =>
        [\A e \in handled' \ handled :
           e.kind \in OperationKinds /\ e.op \in op_data.known /\ cmdQ \o command = <<>>
             => evQ' # evQ]_vars
  BY <1>3
<1> QED
  BY <1>1, <1>2, <1>4, PTL DEF Spec, DropsOnlyUnknown

-----------------------------------------------------------------------------
\* The messages the worker has: stored, queued or in hand.
Queued == {evQ[i] : i \in 1 .. Len(evQ)}
InHand == {batch[i] : i \in 1 .. Len(batch)}
Mail == rows \cup Queued \cup InHand

MessageFor(e) == [event |-> e, hash |-> EventHash(e)]

LEMMA TailElements ==
  ASSUME NEW S, NEW q \in Seq(S), q # <<>>
  PROVE  /\ {Tail(q)[i] : i \in 1 .. Len(Tail(q))} \subseteq {q[i] : i \in 1 .. Len(q)}
         /\ Head(q) \in {q[i] : i \in 1 .. Len(q)}
BY TailOfSeq

LEMMA AppendElements ==
  ASSUME NEW S, NEW q \in Seq(S), NEW x \in S
  PROVE  {Append(q, x)[i] : i \in 1 .. Len(Append(q, x))} \subseteq {q[i] : i \in 1 .. Len(q)} \cup {x}
<1> DEFINE T == {q[i] : i \in 1 .. Len(q)} \cup {x}
<1>1. \A i \in 1 .. Len(q) : q[i] \in T
  OBVIOUS
<1>2. x \in T
  OBVIOUS
<1> HIDE DEF T
<1>3. \A i \in 1 .. Len(Append(q, x)) : Append(q, x)[i] \in T
  BY <1>1, <1>2, QueueAppend
<1> QED
  BY <1>3 DEF T

\* How a step moves them: the loop sends one, the task takes the oldest, stores
\* the one in hand or is done with it, or a crash loses all but the rows.
LEMMA MailFrame ==
  ASSUME [Next]_vars
  PROVE  \/ /\ \E e \in merged : ForwardEvent(e)
            /\ LoopTurn /\ UNCHANGED <<rows, batch, hpc>>
         \/ /\ Receive /\ HandlerTurn
            /\ evQ # <<>> /\ evQ' = Tail(evQ) /\ batch' = <<Head(evQ)>> /\ rows' = rows
         \/ /\ Insert /\ HandlerTurn /\ evQ' = evQ
            /\ rows' \in {rows, rows \cup {Held}} /\ batch' \in {batch, <<>>}
         \/ /\ hpc \notin {"recv", "insert"} /\ HandlerTurn
            /\ UNCHANGED <<rows, evQ>> /\ batch' \in {batch, <<>>}
         \/ Crash /\ rows' = rows /\ evQ' = <<>> /\ batch' = <<>>
         \/ UNCHANGED <<rows, evQ, batch, hpc>>
<1>1. CASE LoopTurn
  <2>1. UNCHANGED <<rows, batch, hpc>>
    BY <1>1 DEF LoopTurn, dbVars, taskVars
  <2>2. evQ' = evQ \/ \E e \in merged : ForwardEvent(e)
    BY <1>1 DEF LoopTurn, LoopStep, DrainCommand, StartSweep, FetchBatch, FetchHubble, FetchRefused,
                FetchFails, DropEvent, FinishSweep, chanVars
  <2> QED
    BY <1>1, <2>1, <2>2
<1>2. CASE HandlerTurn
  <2>1. CASE Receive
    BY <1>2, <2>1 DEF Receive, dbVars
  <2>2. CASE Insert
    BY <1>2, <2>2 DEF Insert, GoTo, chanVars
  <2>3. CASE ReadTotals \/ SaveTotals \/ SyncStatus
    BY <1>2, <2>3 DEF ReadTotals, SaveTotals, SyncStatus, GoTo, chanVars, dbVars
  <2>4. CASE AddFirstChain \/ RecordHolding \/ NoEffects
    BY <1>2, <2>4 DEF AddFirstChain, RecordHolding, NoEffects, GoTo, chanVars, dbVars
  <2>5. CASE Reload \/ SendCommand
    BY <1>2, <2>5 DEF Reload, SendCommand, GoTo, chanVars, dbVars
  <2> QED
    BY <1>2, <2>1, <2>2, <2>3, <2>4, <2>5 DEF HandlerTurn, HandlerStep
<1>3. CASE Crash
  BY <1>3 DEF Crash, dbVars
<1>4. CASE Outside
  BY <1>4 DEF Outside, NetworkStep, OthersStep, Publish, Register, EvmSale, EvmStatus, chanVars, handlerVars,
              dbVars, taskVars
<1>5. CASE UNCHANGED vars
  BY <1>5 DEF vars, chanVars, handlerVars, dbVars, taskVars
<1> QED
  BY <1>1, <1>2, <1>3, <1>4, <1>5 DEF Next

LEMMA MailSent ==
  ASSUME WorkerInv, [Next]_vars
  PROVE  \/ Mail' \subseteq Mail
         \/ \E e \in merged : /\ ForwardEvent(e) /\ e \in Events /\ LoopTurn
                              /\ Mail' \subseteq Mail \cup {MessageFor(e)}
<1>1. evQ \in Seq(Message) /\ merged \subseteq Events
  BY DEF WorkerInv, LoopInv, LoopTypes, LoopTypeOK, ChannelsTypeOK
<1>2. hpc # "recv" => Held \in InHand
  <2> HAVE hpc # "recv"
  <2>1. batch = <<Held>>
    BY HeldIs DEF WorkerInv, HandlerInv
  <2>2. Len(batch) = 1 /\ batch[1] = Held
    BY <2>1
  <2> QED
    BY <2>2 DEF InHand
<1>3. ASSUME NEW e \in merged, ForwardEvent(e), LoopTurn, UNCHANGED <<rows, batch, hpc>>
      PROVE  Mail' \subseteq Mail \cup {MessageFor(e)}
  <2>1. evQ' = Append(evQ, MessageFor(e))
    BY <1>3 DEF ForwardEvent, Post, MessageFor
  <2>2. MessageFor(e) \in Message
    BY <1>1, MessageOf DEF MessageFor
  <2>3. Queued' \subseteq Queued \cup {MessageFor(e)}
    <3> DEFINE m == MessageFor(e)
    <3> HIDE DEF m
    <3>1. m \in Message /\ evQ' = Append(evQ, m)
      BY <2>1, <2>2 DEF m
    <3>2. Queued' \subseteq Queued \cup {m}
      BY <1>1, <3>1, AppendElements DEF Queued
    <3> QED
      BY <3>2 DEF m
  <2>4. InHand' = InHand /\ rows' = rows
    BY <1>3 DEF InHand
  <2> QED
    BY <2>3, <2>4 DEF Mail
<1>4. CASE evQ # <<>> /\ evQ' = Tail(evQ) /\ batch' = <<Head(evQ)>> /\ rows' = rows
  <2>1. Queued' \subseteq Queued /\ Head(evQ) \in Queued
    BY <1>1, <1>4, TailElements DEF Queued
  <2>2. InHand' = {Head(evQ)}
    BY <1>4 DEF InHand
  <2> QED
    BY <1>4, <2>1, <2>2 DEF Mail
<1>5. ASSUME evQ' \in {evQ, <<>>}, batch' \in {batch, <<>>},
             rows' = rows \/ (hpc # "recv" /\ rows' = rows \cup {Held})
      PROVE  Mail' \subseteq Mail
  <2>1. Queued' \subseteq Queued
    BY <1>5 DEF Queued
  <2>2. InHand' \subseteq InHand
    BY <1>5 DEF InHand
  <2> QED
    BY <1>2, <1>5, <2>1, <2>2 DEF Mail
<1>6. Insert => hpc # "recv"
  BY DEF Insert
<1> QED
  BY <1>1, <1>3, <1>4, <1>5, <1>6, MailFrame

-----------------------------------------------------------------------------
(***************************************************************************)
(* When every source numbers events the same way, a message carries the one *)
(* hash its event has, from the fetch to the row.                           *)
(***************************************************************************)
SourceInv == replay \in BuildReplay /\ (source = "replay" => replay # "none")

HashInv == SourceInv /\ \A m \in Mail : m.hash = HashOf(m.event)

LEMMA SourceNext ==
  ASSUME SourceInv, [Next]_vars
  PROVE  SourceInv'
<1>1. CASE LoopTurn
  <2>1. replay' = replay /\ source' \in {source, ActiveSource}
    BY <1>1 DEF LoopTurn, LoopStep, DrainCommand, StartSweep, FetchBatch, FetchHubble, FetchRefused,
                FetchFails, ForwardEvent, DropEvent, Handle, FinishSweep
  <2> QED
    BY <2>1 DEF SourceInv, ActiveSource, BuildReplay
<1>2. CASE Crash
  BY <1>2 DEF Crash, LoopRestart, SourceInv, BuildReplay
<1>3. CASE HandlerTurn \/ Outside \/ UNCHANGED vars
  BY <1>3 DEF HandlerTurn, Outside, NetworkStep, loopVars, vars, SourceInv, BuildReplay
<1> QED
  BY <1>1, <1>2, <1>3 DEF Next

LEMMA EventHashIs ==
  ASSUME OneNumbering, WorkerInv, SourceInv, NEW e \in Events
  PROVE  EventHash(e) = HashOf(e)
<1>1. CASE OverRpc
  BY <1>1 DEF EventHash, HashOf
<1>2. CASE ~OverRpc
  <2>1. replay = "archival"
    BY <1>2 DEF OverRpc, WorkerInv, LoopInv, LoopTypes, LoopTypeOK, Endpoints, SourceInv
  <2>2. HubbleConfigured
    BY <2>1 DEF SourceInv, BuildReplay
  <2> QED
    BY <1>2, <2>2 DEF OneNumbering, EventHash, HashOf
<1> QED
  BY <1>1, <1>2

LEMMA HashInit == Init => HashInv
<1> SUFFICES ASSUME Init PROVE HashInv
  OBVIOUS
<1>1. rows = {} /\ evQ = <<>> /\ batch = <<>> /\ replay \in BuildReplay /\ source = "live"
  BY DEF Init, DbInit, LoopInit
<1>2. Mail = {}
  BY <1>1 DEF Mail, Queued, InHand
<1> QED
  BY <1>1, <1>2 DEF HashInv, SourceInv

LEMMA HashNext ==
  ASSUME OneNumbering, WorkerInv, HashInv, [Next]_vars
  PROVE  HashInv'
<1>1. \A m \in Mail' : m.hash = HashOf(m.event)
  <2>1. CASE Mail' \subseteq Mail
    BY <2>1 DEF HashInv
  <2>2. ASSUME NEW e \in Events, Mail' \subseteq Mail \cup {MessageFor(e)}
        PROVE  \A m \in Mail' : m.hash = HashOf(m.event)
    <3>1. MessageFor(e).event = e /\ MessageFor(e).hash = HashOf(e)
      BY EventHashIs DEF MessageFor, HashInv
    <3> QED
      BY <2>2, <3>1 DEF HashInv
  <2> QED
    BY <2>1, <2>2, MailSent
<1>2. SourceInv'
  BY SourceNext DEF HashInv
<1>3. \A m \in Mail' : m.event = m.event /\ m.hash = <<m.event.tx, m.event.pos, m.event.kind>>
  BY <1>1 DEF HashOf
<1> QED
  BY <1>2, <1>3 DEF HashInv, HashOf

-----------------------------------------------------------------------------
(***************************************************************************)
(* The effects of a message run only after its own row was written, by the  *)
(* statement that found its hash free: a row it wrote before would have     *)
(* held that hash.                                                          *)
(***************************************************************************)
Uncounted == {"progress", "save", "status", "effects"}

HoldInv ==
  /\ \A e \in Events : holdings[e] <= 1 /\ (holdings[e] > 0 => \E r \in rows : r.event = e)
  /\ hpc \notin {"recv", "insert"} => Held \in rows
  /\ hpc \in Uncounted => holdings[Held.event] = 0

LEMMA HoldInit == Init => HoldInv
BY DEF Init, DbInit, HoldInv, Uncounted

\* What the steps of the task do to the holdings and to the message in hand.
LEMMA HoldFrame ==
  ASSUME HandlerTurn
  PROVE  \/ Receive /\ hpc' = "insert" /\ UNCHANGED <<rows, holdings>>
         \/ Insert /\ UNCHANGED holdings
         \/ /\ hpc \in Uncounted /\ UNCHANGED <<rows, holdings>>
            /\ hpc' = "recv" \/ (hpc' \in Uncounted \cup {"reload"} /\ batch' = batch)
         \/ RecordHolding
         \/ /\ hpc \in {"reload", "send"} /\ UNCHANGED <<rows, holdings>>
            /\ hpc' = "recv" \/ (hpc' = "send" /\ batch' = batch)
<1>1. CASE Receive
  BY <1>1 DEF Receive, dbVars
<1>2. CASE Insert
  BY <1>2 DEF Insert
<1>3. CASE ReadTotals \/ SaveTotals \/ SyncStatus
  BY <1>3 DEF ReadTotals, SaveTotals, SyncStatus, GoTo, dbVars, Uncounted
<1>4. CASE AddFirstChain \/ NoEffects
  BY <1>4 DEF AddFirstChain, NoEffects, GoTo, dbVars, Uncounted
<1>5. CASE Reload \/ SendCommand
  BY <1>5 DEF Reload, SendCommand, GoTo, dbVars
<1> QED
  BY <1>1, <1>2, <1>3, <1>4, <1>5 DEF HandlerTurn, HandlerStep

LEMMA HoldKept ==
  ASSUME WorkerInv, HoldInv, UNCHANGED holdings, rows \subseteq rows'
  PROVE  \A e \in Events : holdings'[e] <= 1 /\ (holdings'[e] > 0 => \E r \in rows' : r.event = e)
BY DEF HoldInv

LEMMA HoldHandler ==
  ASSUME WorkerInv, WorkerInv', HashInv, HoldInv, HandlerTurn
  PROVE  HoldInv'
<1>1. CASE Receive /\ hpc' = "insert" /\ UNCHANGED <<rows, holdings>>
  BY <1>1 DEF HoldInv, Uncounted
<1>2. CASE Insert /\ UNCHANGED holdings
  <2>1. /\ hpc' = "recv" \/ (hpc' = "progress" /\ batch' = batch /\ Held.hash \notin Hashes
                               /\ rows' = rows \cup {Held})
        /\ rows \subseteq rows'
    BY <1>2 DEF Insert, GoTo
  <2>2. CASE hpc' = "recv"
    BY <1>2, <2>1, <2>2, HoldKept DEF HoldInv, Uncounted
  <2>3. CASE hpc' = "progress" /\ batch' = batch /\ Held.hash \notin Hashes /\ rows' = rows \cup {Held}
    <3>1. Held' = Held /\ Held \in Message /\ Held \in Mail
      <4>1. Held \in Message /\ batch = <<Held>>
        BY <1>2, HeldIs DEF WorkerInv, HandlerInv, Insert
      <4>2. batch[1] = Held /\ Len(batch) = 1
        BY <4>1
      <4> QED
        BY <2>3, <4>1, <4>2 DEF Held, Mail, InHand
    <3>2. Held.event \in Events
      BY <3>1, MessageIs
    <3>3. \A r \in rows : r.event # Held.event
      <4> SUFFICES ASSUME NEW r \in rows, r.event = Held.event PROVE FALSE
        OBVIOUS
      <4>1. r.hash = HashOf(r.event) /\ Held.hash = HashOf(Held.event)
        BY <3>1 DEF HashInv, Mail
      <4> QED
        BY <2>3, <4>1 DEF Hashes
    <3>4. holdings[Held.event] = 0
      <4>1. holdings[Held.event] \in Nat
        BY <3>2 DEF WorkerInv, HandlerInv, HandlerTypeOK
      <4>2. ~(holdings[Held.event] > 0)
        BY <3>2, <3>3 DEF HoldInv
      <4> QED
        BY <4>1, <4>2
    <3> QED
      BY <1>2, <2>1, <2>3, <3>1, <3>4, HoldKept DEF HoldInv, Uncounted
  <2> QED
    BY <2>1, <2>2, <2>3
<1>3. CASE /\ hpc \in Uncounted /\ UNCHANGED <<rows, holdings>>
           /\ hpc' = "recv" \/ (hpc' \in Uncounted \cup {"reload"} /\ batch' = batch)
  <2>1. batch' = batch => Held' = Held
    BY DEF Held
  <2> QED
    BY <1>3, <2>1 DEF HoldInv, Uncounted
<1>4. CASE RecordHolding
  <2>1. hpc = "effects" /\ hpc' = "recv" /\ rows' = rows
    BY <1>4 DEF RecordHolding, GoTo
  <2>2. Held \in rows /\ Held.event \in Events /\ holdings[Held.event] = 0
    <3>1. Held \in rows /\ holdings[Held.event] = 0
      BY <2>1 DEF HoldInv, Uncounted
    <3>2. Held \in Message
      BY <2>1, HeldIs DEF WorkerInv, HandlerInv
    <3> QED
      BY <3>1, <3>2, MessageIs
  <2>3. \/ holdings' = holdings
        \/ holdings' = [holdings EXCEPT ![Held.event] = holdings[Held.event] + 1]
    BY <1>4 DEF RecordHolding
  <2>4. \A e \in Events : holdings'[e] = holdings[e] \/ (e = Held.event /\ holdings'[e] = 1)
    <3>1. holdings \in [Events -> Nat]
      BY DEF WorkerInv, HandlerInv, HandlerTypeOK
    <3> DEFINE h == Held.event
    <3>2. h \in Events /\ holdings[h] = 0
      BY <2>2
    <3>3. holdings' = holdings \/ holdings' = [holdings EXCEPT ![h] = holdings[h] + 1]
      BY <2>3
    <3> HIDE DEF h
    <3>4. \A e \in Events : holdings'[e] = holdings[e] \/ (e = h /\ holdings'[e] = 1)
      BY <3>1, <3>2, <3>3
    <3> QED
      BY <3>4 DEF h
  <2> QED
    BY <2>1, <2>2, <2>4 DEF HoldInv, Uncounted
<1>5. CASE /\ hpc \in {"reload", "send"} /\ UNCHANGED <<rows, holdings>>
           /\ hpc' = "recv" \/ (hpc' = "send" /\ batch' = batch)
  <2>1. batch' = batch => Held' = Held
    BY DEF Held
  <2> QED
    BY <1>5, <2>1 DEF HoldInv, Uncounted
<1> QED
  BY <1>1, <1>2, <1>3, <1>4, <1>5, HoldFrame

LEMMA HoldNext ==
  ASSUME WorkerInv, WorkerInv', HashInv, HoldInv, [Next]_vars
  PROVE  HoldInv'
<1>1. CASE Crash
  BY <1>1 DEF Crash, dbVars, HoldInv, Uncounted
<1>2. CASE LoopTurn \/ Outside \/ UNCHANGED vars
  <2>1. UNCHANGED <<rows, holdings, hpc, batch>>
    BY <1>2 DEF LoopTurn, Outside, NetworkStep, OthersStep, Publish, Register, EvmSale, EvmStatus, vars,
                handlerVars, dbVars, taskVars
  <2>2. Held' = Held
    BY <2>1 DEF Held
  <2> QED
    BY <2>1, <2>2 DEF HoldInv
<1> QED
  BY <1>1, <1>2, HoldHandler DEF Next

(***************************************************************************)
(* However often the worker dies between storing a sale and recording its   *)
(* holding, and whatever is read again, no sale is held twice; as long as   *)
(* the two ways of numbering events agree.                                  *)
(***************************************************************************)
THEOREM NothingHeldTwice == ASSUME OneNumbering PROVE Spec => []HeldOnce
<1>1. Init => WorkerInv /\ HashInv /\ HoldInv
  BY WorkerInit, HashInit, HoldInit
<1>2. WorkerInv /\ HashInv /\ HoldInv /\ [Next]_vars => (WorkerInv /\ HashInv /\ HoldInv)'
  BY WorkerInvNext, HashNext, HoldNext
<1>3. HoldInv => HeldOnce
  BY DEF HoldInv, HeldOnce
<1> QED
  BY <1>1, <1>2, <1>3, PTL DEF Spec

-----------------------------------------------------------------------------
(***************************************************************************)
(* Where events come from: a sweep finds them at an observed contract, past *)
(* START_LEDGER; what is sent of them is stored, queued or in hand.         *)
(***************************************************************************)
Rooted ==
  /\ StartLedger <= cursor
  /\ \A e \in merged : e.contract \in contracts /\ StartLedger <= e.ledger
  /\ \A m \in Mail :
       /\ m.event.contract \in Recorded /\ StartLedger <= m.event.ledger
       /\ m.event.kind # "unindexed"

LEMMA SweptAre ==
  ASSUME LoopInv, LoopStep
  PROVE  /\ \A e \in merged' \ merged : /\ e.contract \in contracts /\ cursor <= e.ledger
                                        /\ pc = "fetch"
         /\ contracts \subseteq contracts'
<1>1. ASSUME NEW B \in SUBSET todo, NEW h \in low[source] .. tip, FetchBatch(B, h)
      PROVE  /\ \A e \in merged' \ merged : e.contract \in contracts /\ cursor <= e.ledger
             /\ pc = "fetch"
  <2>1. todo \subseteq contracts
    BY DEF LoopInv, LoopTypes, LoopTypeOK
  <2>2. merged' \subseteq merged \cup Visible(cursor, h, B)
    BY <1>1 DEF FetchBatch, SweepReturns, Truncated
  <2> QED
    BY <1>1, <2>1, <2>2 DEF Visible, FetchBatch
<1>2. CASE FetchHubble
  BY <1>2 DEF FetchHubble, SweepReturns, Visible
<1>3. ASSUME NEW e \in merged, ForwardEvent(e) \/ DropEvent(e)
      PROVE  merged' \subseteq merged
  BY <1>3 DEF ForwardEvent, DropEvent, Handle
<1>4. CASE DrainCommand \/ StartSweep \/ FetchRefused \/ FetchFails \/ FinishSweep
  BY <1>4 DEF DrainCommand, StartSweep, FetchRefused, FetchFails, FinishSweep
<1>5. contracts \subseteq contracts'
  BY DEF LoopStep, DrainCommand, StartSweep, FetchBatch, FetchHubble, FetchRefused, FetchFails,
         ForwardEvent, DropEvent, Handle, FinishSweep
<1> QED
  BY <1>1, <1>2, <1>3, <1>4, <1>5 DEF LoopStep

LEMMA RootedInit == Init => Rooted
<1> SUFFICES ASSUME Init PROVE Rooted
  OBVIOUS
<1>1. rows = {} /\ evQ = <<>> /\ batch = <<>> /\ merged = {} /\ cursor = StartLedger
  BY DEF Init, DbInit, LoopInit
<1>2. Mail = {}
  BY <1>1 DEF Mail, Queued, InHand
<1> QED
  BY <1>1, <1>2 DEF Rooted

LEMMA RootedNext ==
  ASSUME WorkerInv, WorkerInv', ObservedInv, Rooted, [Next]_vars
  PROVE  Rooted'
<1>1. cursor \in Nat /\ cursor' \in Nat /\ merged \subseteq Events /\ merged' \subseteq Events
  BY DEF WorkerInv, LoopInv, LoopTypes, LoopTypeOK
<1>2. /\ StartLedger <= cursor'
      /\ \A e \in merged' : e.contract \in contracts' /\ StartLedger <= e.ledger
  <2>1. CASE LoopTurn
    <3>1. cursor <= cursor' /\ contracts \subseteq contracts'
          /\ \A e \in merged' \ merged : e.contract \in contracts /\ cursor <= e.ledger
      BY <2>1, CursorRises, SweptAre DEF LoopTurn, WorkerInv
    <3>2. \A e \in merged' : e.ledger \in Nat
      BY <1>1, EventLedger
    <3> QED
      BY <1>1, <3>1, <3>2 DEF Rooted
  <2>2. CASE Crash
    BY <2>2 DEF Crash, LoopRestart
  <2>3. CASE HandlerTurn \/ Outside \/ UNCHANGED vars
    BY <2>3 DEF HandlerTurn, Outside, NetworkStep, vars, loopVars, Rooted
  <2> QED
    BY <2>1, <2>2, <2>3 DEF Next
<1>3. Recorded \subseteq Recorded'
  BY RecordedGrows
<1>4. \A m \in Mail' :
        /\ m.event.contract \in Recorded /\ StartLedger <= m.event.ledger
        /\ m.event.kind # "unindexed"
  <2>1. CASE Mail' \subseteq Mail
    BY <2>1 DEF Rooted
  <2>2. ASSUME NEW e \in merged, ForwardEvent(e), Mail' \subseteq Mail \cup {MessageFor(e)}
        PROVE  \A m \in Mail' :
                 /\ m.event.contract \in Recorded /\ StartLedger <= m.event.ledger
                 /\ m.event.kind # "unindexed"
    <3>1. MessageFor(e).event = e
      BY DEF MessageFor
    <3>2. e.kind # "unindexed"
      BY <2>2 DEF ForwardEvent, MayIndex, OperationKinds
    <3>3. e.contract \in Recorded /\ StartLedger <= e.ledger
      BY DEF Rooted, ObservedInv
    <3> QED
      BY <2>2, <3>1, <3>2, <3>3 DEF Rooted
  <2> QED
    BY <2>1, <2>2, MailSent
<1> QED
  BY <1>2, <1>3, <1>4 DEF Rooted

\* Only a creation leads to a refresh.
StepInv == hpc \in {"reload", "send"} => Held.event.kind = "op_created"

LEMMA StepNext ==
  ASSUME StepInv, [Next]_vars
  PROVE  StepInv'
<1>1. CASE HandlerTurn
  <2>1. CASE Receive \/ Insert \/ ReadTotals \/ SaveTotals \/ SyncStatus \/ SendCommand
    BY <2>1 DEF Receive, Insert, ReadTotals, SaveTotals, SyncStatus, SendCommand, GoTo, StepInv
  <2>2. CASE AddFirstChain \/ RecordHolding \/ NoEffects \/ Reload
    BY <2>2 DEF AddFirstChain, RecordHolding, NoEffects, Reload, GoTo, StepInv, Held
  <2> QED
    BY <1>1, <2>1, <2>2 DEF HandlerTurn, HandlerStep
<1>2. CASE Crash
  BY <1>2 DEF Crash, StepInv
<1>3. CASE LoopTurn \/ Outside \/ UNCHANGED vars
  BY <1>3 DEF LoopTurn, Outside, NetworkStep, OthersStep, handlerVars, taskVars, vars, StepInv, Held
<1> QED
  BY <1>1, <1>2, <1>3 DEF Next

(***************************************************************************)
(* The last block a boot reports is the highest stored ledger when every    *)
(* read works: each row is read back under the contract that emitted it.    *)
(***************************************************************************)
RowsRooted ==
  \A r \in rows : /\ r.event.contract \in Recorded /\ StartLedger <= r.event.ledger
                  /\ r.event.kind # "unindexed"

LEMMA ObservableIsRecorded == Observable(Loaded) = Recorded
BY DEF Observable, Loaded, Recorded

\* The contract a row is read back under.
LEMMA ReadBack ==
  ASSUME Emitters, RowsOK, RowsRooted, NEW r \in rows
  PROVE  \E c \in Recorded : r \in RowsOf(c)
<1>1. /\ r.event \in Events /\ r.event.op \in Ops /\ r.event.kind \in Kinds
      /\ r.event.contract \in Recorded /\ r.event.kind # "unindexed"
  BY MessageIs DEF RowsOK, RowsRooted
<1> DEFINE e == r.event
<1>2. CASE e.kind \in RewardsKinds
  <2>1. e.contract \in Rewards /\ e.contract # Factory
    BY <1>1, <1>2 DEF Emitters
  <2>2. KindsOf(e.contract) = RewardsKinds
    BY <2>1 DEF KindsOf
  <2>3. KindsOf(e.contract) # {"op_lend_transfered"}
    BY <2>2 DEF RewardsKinds
  <2> QED
    BY <1>1, <1>2, <2>2, <2>3 DEF RowsOf
<1>3. CASE e.kind = "op_lend_transfered"
  <2>1. e.contract = Token[e.op] /\ e.contract \notin Rewards \cup {Factory}
    BY <1>1, <1>3 DEF Emitters
  <2>2. KindsOf(e.contract) = {"op_lend_transfered"}
    BY <2>1 DEF KindsOf
  <2> QED
    BY <1>1, <1>3, <2>1, <2>2 DEF RowsOf
<1>4. CASE e.kind \in {"op_created"} \cup (OperationKinds \ RewardsKinds)
  <2>1. KindsOf(Factory) = {"op_created"} \cup (OperationKinds \ RewardsKinds)
    BY DEF KindsOf, Emitters
  <2>2. KindsOf(Factory) # {"op_lend_transfered"}
    BY <2>1
  <2> QED
    BY <1>4, <2>1, <2>2 DEF RowsOf, Recorded
<1> QED
  BY <1>1, <1>2, <1>3, <1>4 DEF Kinds

LEMMA LatestIsStored ==
  ASSUME Emitters, RowsOK, RowsRooted, NEW latest,
         latest \in {0, StartLedger} \cup {r.event.ledger : r \in rows},
         \A c \in Recorded : LatestBlock(c, Recorded) <= latest
  PROVE  latest = Stored
<1>1. latest \in Nat /\ \A r \in rows : r.event.ledger \in Nat
  BY MessageIs, ChannelsAssumption DEF RowsOK
<1>2. ASSUME NEW r \in rows PROVE r.event.ledger <= latest
  <2>1. PICK c \in Recorded : r \in RowsOf(c)
    BY ReadBack
  <2>2. r.event.ledger <= LatestStored(c, Recorded) /\ LatestStored(c, Recorded) \in Nat
    BY <2>1, LatestStoredIs
  <2>3. LatestStored(c, Recorded) <= LatestBlock(c, Recorded) /\ LatestBlock(c, Recorded) \in Nat
    BY <2>2, LatestBlockIs, ChannelsAssumption DEF LatestBlock
  <2> QED
    BY <1>1, <2>1, <2>2, <2>3
<1>3. StartLedger <= latest
  <2>1. Factory \in Recorded
    BY DEF Recorded
  <2>2. LatestStored(Factory, Recorded) \in {0} \cup {r.event.ledger : r \in rows}
    BY LatestStoredIs
  <2>3. StartLedger <= LatestBlock(Factory, Recorded)
    BY <2>2, ChannelsAssumption DEF LatestBlock, RowsRooted
  <2>4. LatestBlock(Factory, Recorded) \in Nat /\ LatestBlock(Factory, Recorded) <= latest
    BY <2>1, LatestBlockIs
  <2> QED
    BY <1>1, <2>3, <2>4, ChannelsAssumption
<1>4. Stored <= latest /\ Stored \in Nat
  BY <1>1, <1>2, <1>3, StoredIs
<1>5. latest <= Stored
  BY StoredIs, ChannelsAssumption
<1> QED
  BY <1>1, <1>4, <1>5

-----------------------------------------------------------------------------
(***************************************************************************)
(* The handler as the indexer sees it: what it has not inserted yet, and    *)
(* whether it is on its way to a refresh.                                   *)
(***************************************************************************)
Pending == (IF hpc = "insert" THEN batch ELSE <<>>) \o evQ
Peer ==
  IF hpc \notin {"recv", "insert"} /\ Head(batch).event.kind = "op_created" THEN "refresh" ELSE "idle"

LEMMA IndexerVars ==
  ASSUME UNCHANGED <<netVars, loopVars, histVars, cmdQ>>, Pending' = Pending, Peer' = Peer,
         Stored' = Stored
  PROVE  UNCHANGED I!vars
BY DEF I!vars, I!netVars, I!loopVars, I!chanVars, I!peerVars, I!histVars, netVars, loopVars, histVars,
       Pending, Peer

LEMMA PendingIs ==
  ASSUME WorkerInv
  PROVE  /\ Pending \in Seq(Message) /\ evQ \in Seq(Message)
         /\ hpc # "insert" => Pending = evQ
         /\ hpc = "insert" => Pending = <<Held>> \o evQ /\ Held \in Message
         /\ Len(evQ) <= Len(Pending) /\ Len(Pending) <= Len(evQ) + 1
<1>1. evQ \in Seq(Message)
  BY DEF WorkerInv, HandlerInv, ChannelsTypeOK
<1>2. CASE hpc = "insert"
  <2>1. Held \in Message /\ batch = <<Held>>
    BY <1>2, HeldIs DEF WorkerInv, HandlerInv
  <2>2. Pending = <<Held>> \o evQ
    BY <1>2, <2>1 DEF Pending
  <2> QED
    BY <1>1, <1>2, <2>1, <2>2
<1>3. CASE hpc # "insert"
  <2>1. Pending = evQ
    BY <1>1, <1>3 DEF Pending
  <2> QED
    BY <1>1, <1>3, <2>1
<1> QED
  BY <1>2, <1>3

\* One more message at the end of what is pending.
LEMMA PendingAppend ==
  ASSUME WorkerInv, NEW m \in Message, evQ' = Append(evQ, m), UNCHANGED <<hpc, batch>>
  PROVE  Pending' = Append(Pending, m)
<1>1. evQ \in Seq(Message)
  BY DEF WorkerInv, HandlerInv, ChannelsTypeOK
<1>2. CASE hpc = "insert"
  <2>1. batch \in Seq(Message)
    BY DEF WorkerInv, HandlerInv, HandlerTypeOK
  <2>2. batch \o Append(evQ, m) = Append(batch \o evQ, m)
    BY <1>1, <2>1
  <2> QED
    BY <1>2, <2>2 DEF Pending
<1>3. CASE hpc # "insert"
  BY <1>1, <1>3 DEF Pending
<1> QED
  BY <1>2, <1>3

LEMMA SameCardinality == ASSUME NEW S PROVE I!Cardinality(S) = Cardinality(S)
BY DEF I!Cardinality, Cardinality

LEMMA SameOrder == ASSUME NEW S PROVE I!Earliest(S) = Earliest(S)
<1>1. \A e : I!HubbleIndex(e) = HubbleIndex(e)
  BY SameCardinality DEF HubbleIndex, I!HubbleIndex
<1>2. \A e, f : I!RowBefore(e, f) <=> RowBefore(e, f)
  BY <1>1 DEF RowBefore, I!RowBefore
<1>3. \A e, f : I!Before(e, f) <=> Before(e, f)
  BY DEF Before, I!Before
<1>4. I!OverRpc <=> OverRpc
  BY DEF OverRpc, I!OverRpc
<1> QED
  BY <1>2, <1>3, <1>4 DEF Earliest, I!Earliest

LEMMA LoopTurnIs ==
  ASSUME WorkerInv, LoopTurn
  PROVE  I!LoopStep /\ UNCHANGED I!peerVars
<1>1. UNCHANGED <<rows, hpc, batch>>
  BY DEF LoopTurn, dbVars, taskVars
<1>2. Stored' = Stored /\ Peer' = Peer /\ (evQ' = evQ => Pending' = Pending)
  BY <1>1 DEF Stored, Peer, Pending
<1>3. UNCHANGED I!peerVars
  BY <1>2 DEF I!peerVars, Peer
<1>4. CASE DrainCommand
  <2>1. I!DrainCommand
    BY <1>2, <1>4 DEF DrainCommand, I!DrainCommand, I!netVars, netVars, Pending, DrainCursor,
       I!DrainCursor, Larger, I!Larger
  <2> QED
    BY <1>3, <2>1 DEF I!LoopStep
<1>5. CASE StartSweep
  <2>1. I!StartSweep
    BY <1>2, <1>5 DEF StartSweep, I!StartSweep, I!netVars, netVars, chanVars, I!chanVars,
     histVars, I!histVars, Pending, ActiveSource, I!ActiveSource
  <2> QED
    BY <1>3, <2>1 DEF I!LoopStep
<1>6. ASSUME NEW B \in SUBSET todo, NEW h \in low[source] .. tip, FetchBatch(B, h)
      PROVE  I!LoopStep
  <2>1. I!FetchBatch(B, h)
    BY <1>2, <1>6, SameCardinality DEF FetchBatch, I!FetchBatch, I!netVars, netVars, chanVars, I!chanVars,
     histVars, I!histVars, Pending, OverRpc, I!OverRpc, Visible, I!Visible, BatchNext, I!BatchNext,
     Maxima, I!Maxima, LowestNext, I!LowestNext, Smaller, I!Smaller, Larger, I!Larger,
     SweepReturns, I!SweepReturns, Truncated, I!Truncated, TruncatedNext, I!TruncatedNext,
     BackfillCeiling, I!BackfillCeiling
  <2> QED
    BY <2>1 DEF I!LoopStep
<1>7. CASE FetchHubble
  <2>1. I!FetchHubble
    BY <1>2, <1>7 DEF FetchHubble, I!FetchHubble, I!netVars, netVars, chanVars, I!chanVars,
     histVars, I!histVars, Pending, OverRpc, I!OverRpc, Visible, I!Visible, Smaller, I!Smaller,
     SweepReturns, I!SweepReturns
  <2> QED
    BY <1>3, <2>1 DEF I!LoopStep
<1>8. CASE FetchRefused
  <2>1. I!FetchRefused
    BY <1>2, <1>8 DEF FetchRefused, I!FetchRefused, I!netVars, netVars, chanVars, I!chanVars,
     Pending, OverRpc, I!OverRpc, ClassifyFetchError, I!ClassifyFetchError, Attempt, I!Attempt
  <2> QED
    BY <1>3, <2>1 DEF I!LoopStep
<1>9. CASE FetchFails
  <2>1. I!FetchFails
    BY <1>2, <1>9 DEF FetchFails, I!FetchFails, I!netVars, netVars, chanVars, I!chanVars,
     histVars, I!histVars, Pending, OverRpc, I!OverRpc, Visible, I!Visible
  <2> QED
    BY <1>3, <2>1 DEF I!LoopStep
<1>10. CASE FinishSweep
  <2>1. I!FinishSweep
    BY <1>2, <1>10 DEF FinishSweep, I!FinishSweep, I!netVars, netVars, chanVars, I!chanVars,
     histVars, I!histVars, Pending
  <2> QED
    BY <1>3, <2>1 DEF I!LoopStep
<1>11. ASSUME NEW e \in merged, DropEvent(e) PROVE I!LoopStep
  <2>1. I!DropEvent(e)
    BY <1>2, <1>11, SameOrder DEF DropEvent, I!DropEvent, Handle, I!Handle, I!netVars, netVars, Pending,
       MayDrop, I!MayDrop, OperationKinds, I!OperationKinds
  <2> QED
    BY <2>1 DEF I!LoopStep
<1>12. ASSUME NEW e \in merged, ForwardEvent(e) PROVE I!LoopStep
  <2>1. I!Handle(e) /\ I!MayIndex(e)
    BY <1>12, SameOrder DEF ForwardEvent, Handle, I!Handle, I!netVars, netVars, MayIndex, I!MayIndex,
       OperationKinds, I!OperationKinds
  <2>2. I!EventHash(e) = EventHash(e)
    BY SameCardinality DEF EventHash, I!EventHash, HubbleIndex, I!HubbleIndex, OverRpc, I!OverRpc
  <2>3. MessageFor(e) \in Message
    BY MessageOf DEF MessageFor, WorkerInv, LoopInv, LoopTypes, LoopTypeOK
  <2>4. evQ' = Append(evQ, MessageFor(e)) /\ Len(evQ) < EvCap
    BY <1>12 DEF ForwardEvent, Post, MessageFor
  <2>5. Pending' = Append(Pending, MessageFor(e))
    BY <1>1, <2>3, <2>4, PendingAppend
  <2>6. Len(Pending) < EvCap + 1
    <3>1. Len(Pending) <= Len(evQ) + 1 /\ Pending \in Seq(Message) /\ evQ \in Seq(Message)
      BY PendingIs
    <3>2. Len(Pending) \in Nat /\ Len(evQ) \in Nat /\ EvCap \in Nat
      BY <3>1
    <3> QED
      BY <2>4, <3>1, <3>2
  <2>7. I!Post(MessageFor(e))
    BY <2>5, <2>6 DEF I!Post, Pending
  <2>8. I!ForwardEvent(e)
    BY <2>1, <2>2, <2>7 DEF I!ForwardEvent, MessageFor
  <2> QED
    BY <2>8 DEF I!LoopStep
<1> QED
  BY <1>3, <1>4, <1>5, <1>6, <1>7, <1>8, <1>9, <1>10, <1>11, <1>12 DEF LoopTurn, LoopStep

\* A step of the task that the indexer does not see.
LEMMA Unseen ==
  ASSUME HandlerTurn, UNCHANGED <<cmdQ, rows>>, Pending' = Pending, Peer' = Peer
  PROVE  UNCHANGED I!vars
<1>1. Stored' = Stored
  BY DEF Stored
<1> QED
  BY <1>1, IndexerVars DEF HandlerTurn

LEMMA ReceiveIs ==
  ASSUME WorkerInv, HandlerTurn, Receive
  PROVE  UNCHANGED I!vars
<1>1. /\ hpc = "recv" /\ hpc' = "insert" /\ evQ # <<>>
      /\ batch' = <<Head(evQ)>> /\ evQ' = Tail(evQ) /\ UNCHANGED <<cmdQ, rows>>
  BY DEF Receive, dbVars
<1>2. evQ \in Seq(Message)
  BY DEF WorkerInv, HandlerInv, ChannelsTypeOK
<1>3. <<Head(evQ)>> \o Tail(evQ) = evQ
  BY <1>1, <1>2
<1>4. Pending' = evQ
  BY <1>1, <1>3 DEF Pending
<1>5. Pending = evQ
  BY <1>1, PendingIs
<1>6. Peer' = Peer
  BY <1>1 DEF Peer
<1> QED
  BY <1>1, <1>4, <1>5, <1>6, Unseen

LEMMA InsertIs ==
  ASSUME WorkerInv, HandlerTurn, Insert
  PROVE  I!Receive
<1>1. hpc = "insert" /\ evQ' = evQ /\ cmdQ' = cmdQ /\ hpc' \in {"recv", "progress"}
  BY DEF Insert, GoTo, chanVars
<1>2. /\ Pending = <<Held>> \o evQ /\ Held \in Message /\ evQ \in Seq(Message)
      /\ Pending' = evQ /\ RowsOK
  <2>1. Pending' = <<>> \o evQ
    BY <1>1 DEF Pending
  <2>2. evQ \in Seq(Message)
    BY PendingIs
  <2> QED
    BY <1>1, <2>1, <2>2, PendingIs, WorkerInvIs
<1>3. Pending # <<>> /\ Head(Pending) = Held /\ Tail(Pending) = evQ
  BY <1>2
<1>4. Peer = "idle" /\ Peer' \in {"idle", "refresh"}
  BY <1>1 DEF Peer
<1>5. CASE rows' = rows \cup {Held}
  <2>1. Stored' = Larger(Stored, Held.event.ledger)
    BY <1>2, <1>5, StoredAfter
  <2>2. Peer' = "refresh" => Held.event.kind = "op_created"
    <3>1. hpc' = "progress" => batch' = batch
      BY DEF Insert, GoTo
    <3> QED
      BY <1>1, <3>1 DEF Peer, Held
  <2> QED
    BY <1>1, <1>2, <1>3, <1>4, <2>1, <2>2
    DEF HandlerTurn, I!Receive, I!Larger, Larger, I!netVars, netVars, I!loopVars, loopVars,
        I!histVars, histVars, Pending, Peer
<1>6. CASE rows' = rows /\ hpc' = "recv"
  <2>1. Stored' = Stored /\ Peer' = "idle"
    BY <1>6 DEF Stored, Peer
  <2> QED
    BY <1>1, <1>2, <1>3, <1>4, <2>1
    DEF HandlerTurn, I!Receive, I!peerVars, I!netVars, netVars, I!loopVars, loopVars,
        I!histVars, histVars, Pending, Peer
<1>7. rows' = rows \cup {Held} \/ (rows' = rows /\ hpc' = "recv")
  BY DEF Insert, GoTo
<1> QED
  BY <1>5, <1>6, <1>7

\* The steps between an insert and the next message.
LEMMA StepsAre ==
  ASSUME WorkerInv, HandlerTurn,
         ReadTotals \/ SaveTotals \/ SyncStatus \/ AddFirstChain \/ RecordHolding \/ NoEffects \/ Reload
  PROVE  I!Forgo \/ UNCHANGED I!vars
<1>1. /\ hpc \notin {"recv", "insert"} /\ hpc' # "insert" /\ UNCHANGED <<rows, evQ, cmdQ>>
  BY DEF ReadTotals, SaveTotals, SyncStatus, AddFirstChain, RecordHolding, NoEffects, Reload, GoTo,
         chanVars, dbVars
<1>2. Pending' = Pending /\ Stored' = Stored
  BY <1>1 DEF Pending, Stored
<1>3. CASE hpc' # "recv" /\ batch' = batch
  <2>1. Peer' = Peer
    BY <1>1, <1>3 DEF Peer
  <2> QED
    BY <1>1, <1>2, <2>1, Unseen
<1>4. CASE hpc' = "recv"
  <2>1. Peer' = "idle"
    BY <1>4 DEF Peer
  <2>2. CASE Peer = "idle"
    BY <1>1, <1>2, <2>1, <2>2, Unseen
  <2>3. CASE Peer = "refresh"
    <3>1. I!Forgo
      BY <1>1, <1>2, <2>1, <2>3
      DEF HandlerTurn, I!Forgo, I!netVars, netVars, I!loopVars, loopVars, I!chanVars,
          I!histVars, histVars, Pending, Peer
    <3> QED
      BY <3>1
  <2> QED
    BY <2>2, <2>3 DEF Peer
<1>5. hpc' = "recv" \/ (hpc' # "recv" /\ batch' = batch)
  BY DEF ReadTotals, SaveTotals, SyncStatus, AddFirstChain, RecordHolding, NoEffects, Reload, GoTo
<1> QED
  BY <1>3, <1>4, <1>5

LEMMA SendIs ==
  ASSUME WorkerInv, ObservedInv, StepInv, HandlerTurn, SendCommand
  PROVE  \E observed \in SUBSET Contracts, latest \in 0 .. Stored, ops \in SUBSET Ops :
           I!Refresh(observed, latest, ops)
<1> DEFINE c == Head(command)
<1>1. hpc = "send" /\ hpc' = "recv" /\ UNCHANGED <<rows, evQ>> /\ Len(cmdQ) < CmdCap
  BY DEF SendCommand, GoTo, Send, dbVars
<1>2. c \in Command /\ c \in RecordedCommands /\ cmdQ' = Append(cmdQ, c)
  BY CommandHeld DEF ObservedInv
<1>3. c = [observed |-> c.observed, latest |-> c.latest, ops |-> c.ops]
      /\ c.observed \in SUBSET Contracts /\ c.latest \in Nat /\ c.ops \in SUBSET Ops
  BY <1>2 DEF Command
<1>4. Factory \in c.observed /\ c.latest <= Stored /\ Stored \in Nat
  BY <1>2, WorkerInvIs, StoredIs DEF RecordedCommands, CommandRecorded
<1>5. c.latest \in 0 .. Stored
  BY <1>3, <1>4
<1>6. Peer = "refresh" /\ Peer' = "idle"
  BY <1>1 DEF Peer, StepInv, Held
<1>7. Pending' = Pending /\ Stored' = Stored
  BY <1>1 DEF Pending, Stored
<1> HIDE DEF c
<1>8. I!Refresh(c.observed, c.latest, c.ops)
  BY <1>1, <1>2, <1>3, <1>4, <1>6, <1>7
  DEF HandlerTurn, I!Refresh, I!Send, I!netVars, netVars, I!loopVars, loopVars,
      I!histVars, histVars, Pending, Peer
<1> QED
  BY <1>3, <1>5, <1>8

LEMMA HandlerTurnIs ==
  ASSUME WorkerInv, ObservedInv, StepInv, HandlerTurn
  PROVE  [I!Next]_(I!vars)
<1>1. CASE Receive
  BY <1>1, ReceiveIs
<1>2. CASE Insert
  BY <1>2, InsertIs DEF I!Next, I!PeerStep
<1>3. CASE ReadTotals \/ SaveTotals \/ SyncStatus \/ AddFirstChain \/ RecordHolding \/ NoEffects
             \/ Reload
  BY <1>3, StepsAre DEF I!Next, I!PeerStep
<1>4. CASE SendCommand
  BY <1>4, SendIs DEF I!Next, I!PeerStep
<1> QED
  BY <1>1, <1>2, <1>3, <1>4 DEF HandlerTurn, HandlerStep

LEMMA OutsideIs ==
  ASSUME WorkerInv, Outside
  PROVE  [I!Next]_(I!vars)
<1>1. UNCHANGED <<rows, hpc, batch, evQ, cmdQ, loopVars, histVars>>
  BY DEF Outside, NetworkStep, OthersStep, Publish, Register, EvmSale, EvmStatus, chanVars, handlerVars,
         dbVars, taskVars
<1>2. Stored' = Stored /\ Peer' = Peer /\ Pending' = Pending
  BY <1>1 DEF Stored, Peer, Pending
<1>3. CASE NetworkStep
  <2>1. I!NetworkStep
    BY <1>2, <1>3 DEF NetworkStep, I!NetworkStep, CloseLedger, I!CloseLedger, Prune, I!Prune,
       Ingest, I!Ingest, loopVars, I!loopVars, chanVars, I!chanVars, histVars, I!histVars, Pending
  <2>2. UNCHANGED I!peerVars
    BY <1>2 DEF I!peerVars, Peer
  <2> QED
    BY <2>1, <2>2 DEF I!Next
<1>4. CASE UNCHANGED netVars
  BY <1>1, <1>2, <1>4, IndexerVars
<1> QED
  BY <1>3, <1>4 DEF Outside

\* A start whose reads all work is a boot of the indexer.
LEMMA BootLatest ==
  ASSUME Emitters, RowsOK, RowsRooted, Loaded \in OpData, NEW l \in Loads(NoOps), ~l.faulty
  PROVE  /\ l.command \in Command /\ Factory \in l.command.observed
         /\ l.command.latest = Stored
<1>1. /\ l.command \in Command /\ l.op_data = Loaded
      /\ l.command.observed = Observable(Loaded)
      /\ l.command.latest \in {0, StartLedger} \cup {r.event.ledger : r \in rows}
      /\ \A c \in Observable(Loaded) : LatestBlock(c, Observable(Loaded)) <= l.command.latest
  BY LoadsAre, NoOpsType
<1>2. l.command.latest = Stored
  BY <1>1, ObservableIsRecorded, LatestIsStored
<1> QED
  BY <1>1, <1>2 DEF Observable

LEMMA MailRooted == Rooted => RowsRooted
BY DEF Rooted, RowsRooted, Mail

LEMMA InitIs == Emitters /\ Init => I!Init
<1> SUFFICES ASSUME Emitters, Init PROVE I!Init
  OBVIOUS
<1>1. RowsOK /\ RowsRooted /\ Loaded \in OpData
  BY WorkerInit, WorkerInvIs, RootedInit, MailRooted
<1>2. PICK l \in Loads(NoOps) : ~l.faulty /\ cmdQ = <<l.command>>
  BY DEF Init
<1> DEFINE c == l.command
<1>3. c \in Command /\ Factory \in c.observed /\ c.latest = Stored /\ Stored \in Nat
  BY <1>1, <1>2, BootLatest, StoredIs
<1>4. c = [observed |-> c.observed, latest |-> Stored, ops |-> c.ops]
      /\ c.observed \in SUBSET Contracts /\ c.ops \in SUBSET Ops
  BY <1>3 DEF Command
<1>5. hpc = "recv" /\ evQ = <<>> /\ cmdQ = <<c>>
  BY <1>2 DEF Init
<1>6. Pending = <<>> /\ Peer = "idle"
  BY <1>5 DEF Pending, Peer
<1> HIDE DEF c
<1>7. I!LoopInit /\ I!NetworkInit
  BY DEF Init, LoopInit, I!LoopInit, NetworkInit, I!NetworkInit, BuildReplay, I!BuildReplay
<1> QED
  BY <1>3, <1>4, <1>5, <1>6, <1>7 DEF I!Init, I!Boot, Pending, Peer

LEMMA CrashIs ==
  ASSUME Emitters, WorkerInv, Rooted, Crash, dbFaults' = dbFaults
  PROVE  I!Boot'
<1>1. RowsOK /\ RowsRooted /\ Loaded \in OpData
  BY WorkerInvIs, MailRooted
<1>2. PICK l \in Loads(NoOps) : (IF l.faulty THEN DbFault ELSE UNCHANGED dbFaults) /\ cmdQ' = <<l.command>>
  BY DEF Crash
<1>3. ~l.faulty
  <2>1. l.faulty \in BOOLEAN /\ dbFaults \in Nat
    BY <1>1, LoadsAre, NoOpsType DEF WorkerInv, HandlerInv, HandlerTypeOK
  <2> QED
    BY <1>2, <2>1 DEF DbFault
<1> DEFINE c == l.command
<1>4. c \in Command /\ Factory \in c.observed /\ c.latest = Stored /\ Stored \in Nat
  BY <1>1, <1>3, BootLatest, StoredIs
<1>5. hpc' = "recv" /\ evQ' = <<>> /\ cmdQ' = <<c>> /\ rows' = rows
  BY <1>2 DEF Crash, dbVars
<1>6. Pending' = <<>> /\ Peer' = "idle" /\ Stored' = Stored
  BY <1>5 DEF Pending, Peer, Stored
<1>7. c = [observed |-> c.observed, latest |-> Stored', ops |-> c.ops]
      /\ c.observed \in SUBSET Contracts /\ c.ops \in SUBSET Ops
  BY <1>4, <1>6 DEF Command
<1> HIDE DEF c
<1>8. I!LoopInit'
  BY DEF Crash, LoopRestart, I!LoopInit, BuildReplay, I!BuildReplay
<1> QED
  BY <1>4, <1>5, <1>6, <1>7, <1>8 DEF I!Boot, Pending, Peer

(***************************************************************************)
(* The worker implements the indexer, one life at a time: every step is one *)
(* of its steps or none, the reduced store task of Indexer.tla does all     *)
(* that the handler does, and a restart whose reads all work is a boot.     *)
(***************************************************************************)
THEOREM LivesImplementIndexer == ASSUME Emitters PROVE Spec => LivesAreIndexers
<1> DEFINE Inv == WorkerInv /\ ObservedInv /\ Rooted /\ StepInv
           Life == IF crashes' = crashes THEN [I!Next]_(I!vars)
                                         ELSE dbFaults' = dbFaults => I!Boot'
<1>1. Init => Inv
  BY WorkerInit, ObservedInit, RootedInit DEF Init, StepInv
<1>2. Inv /\ [Next]_vars => Inv'
  BY WorkerInvNext, ObservedNext, RootedNext, StepNext
<1>3. Inv /\ Next => Life
  <2> SUFFICES ASSUME Inv, Next PROVE Life
    OBVIOUS
  <2>1. CASE LoopTurn
    <3>1. crashes' = crashes
      BY <2>1 DEF LoopTurn
    <3> QED
      BY <2>1, <3>1, LoopTurnIs DEF I!Next
  <2>2. CASE HandlerTurn
    <3>1. crashes' = crashes
      BY <2>2 DEF HandlerTurn, lifeVars
    <3> QED
      BY <2>2, <3>1, HandlerTurnIs
  <2>3. CASE Outside
    <3>1. crashes' = crashes
      BY <2>3 DEF Outside, lifeVars
    <3> QED
      BY <2>3, <3>1, OutsideIs
  <2>4. CASE Crash
    <3>1. crashes' # crashes
      BY <2>4 DEF Crash, WorkerInv, LifeTypeOK
    <3> QED
      BY <2>4, <3>1, CrashIs
  <2> QED
    BY <2>1, <2>2, <2>3, <2>4 DEF Next
<1>4. Init => I!Init
  BY InitIs
<1>5. Inv /\ [Next]_vars => [Life]_vars
  BY <1>3
<1> HIDE DEF Inv
<1> QED
  BY <1>1, <1>2, <1>4, <1>5, PTL DEF Spec, LivesAreIndexers

-----------------------------------------------------------------------------
(***************************************************************************)
(* Nothing is lost but in a crash: what a message carried is still there,   *)
(* or a row stands for it, after every step whose statements work.          *)
(***************************************************************************)
LEMMA InHandIs ==
  ASSUME WorkerInv
  PROVE  /\ hpc = "recv" => batch = <<>> /\ InHand = {}
         /\ hpc # "recv" => Held \in Message /\ batch = <<Held>> /\ InHand = {Held}
<1>1. batch \in Seq(Message) /\ Len(batch) = IF hpc = "recv" THEN 0 ELSE 1
  BY DEF WorkerInv, HandlerInv, HandlerTypeOK
<1>2. CASE hpc = "recv"
  <2>1. batch = <<>>
    BY <1>1, <1>2
  <2> QED
    BY <1>2, <2>1 DEF InHand
<1>3. CASE hpc # "recv"
  <2>1. Held \in Message /\ batch = <<Held>>
    BY <1>3, HeldIs DEF WorkerInv, HandlerInv
  <2>2. Len(batch) = 1 /\ batch[1] = Held
    BY <2>1
  <2>3. InHand = {Held}
    BY <2>2 DEF InHand
  <2> QED
    BY <1>3, <2>1, <2>3
<1> QED
  BY <1>2, <1>3

LEMMA TailCovers ==
  ASSUME NEW S, NEW q \in Seq(S), q # <<>>
  PROVE  {q[i] : i \in 1 .. Len(q)} \subseteq {Head(q)} \cup {Tail(q)[i] : i \in 1 .. Len(Tail(q))}
<1> SUFFICES ASSUME NEW i \in 1 .. Len(q), i # 1
             PROVE  \E j \in 1 .. Len(Tail(q)) : Tail(q)[j] = q[i]
  BY TailOfSeq
<1>1. /\ Len(Tail(q)) = Len(q) - 1 /\ Len(q) \in Nat
      /\ \A j \in 1 .. Len(Tail(q)) : Tail(q)[j] = q[j + 1]
  BY TailOfSeq
<1>2. i - 1 \in 1 .. Len(Tail(q)) /\ (i - 1) + 1 = i
  BY <1>1
<1> QED
  BY <1>1, <1>2

LEMMA AppendCovers ==
  ASSUME NEW S, NEW q \in Seq(S), NEW x \in S
  PROVE  {q[i] : i \in 1 .. Len(q)} \cup {x} \subseteq
           {Append(q, x)[i] : i \in 1 .. Len(Append(q, x))}
<1>1. /\ Len(Append(q, x)) = Len(q) + 1 /\ Len(q) \in Nat /\ Append(q, x)[Len(q) + 1] = x
      /\ \A i \in 1 .. Len(q) : Append(q, x)[i] = q[i]
  BY AppendOfSeq
<1>2. Len(q) + 1 \in 1 .. Len(Append(q, x)) /\ \A i \in 1 .. Len(q) : i \in 1 .. Len(Append(q, x))
  BY <1>1
<1> QED
  BY <1>1, <1>2

LEMMA ForwardedIsMail ==
  ASSUME WorkerInv, NEW e \in merged, ForwardEvent(e), UNCHANGED <<rows, batch>>
  PROVE  Mail \subseteq Mail' /\ MessageFor(e) \in Mail'
<1> DEFINE m == MessageFor(e)
<1>1. m \in Message /\ evQ \in Seq(Message)
  BY MessageOf DEF MessageFor, WorkerInv, LoopInv, LoopTypes, LoopTypeOK, ChannelsTypeOK
<1>2. evQ' = Append(evQ, m)
  BY DEF ForwardEvent, Post, MessageFor
<1> HIDE DEF m
<1>3. Queued \subseteq Queued' /\ m \in Queued'
  BY SMTT(30), <1>1, <1>2, AppendCovers DEF Queued
<1>4. InHand' = InHand
  BY DEF InHand
<1> QED
  BY <1>3, <1>4 DEF Mail, m

LEMMA MailKept ==
  ASSUME HashesDistinct, WorkerInv, HashInv, HoldInv, [Next]_vars, ~Crash, dbFaults' = dbFaults,
         NEW m \in Mail
  PROVE  \E n \in Mail' : n.event = m.event
<1>1. evQ \in Seq(Message) /\ dbFaults \in Nat
  BY DEF WorkerInv, HandlerInv, HandlerTypeOK, ChannelsTypeOK
<1>2. ASSUME NEW e \in merged, ForwardEvent(e), UNCHANGED <<rows, batch>> PROVE m \in Mail'
  BY <1>2, ForwardedIsMail
<1>3. CASE /\ Receive /\ evQ # <<>> /\ evQ' = Tail(evQ) /\ batch' = <<Head(evQ)>> /\ rows' = rows
  <2>1. InHand = {} /\ InHand' = {Head(evQ)}
    BY <1>3, InHandIs DEF Receive, InHand
  <2>2. Queued \subseteq {Head(evQ)} \cup Queued'
    <3>1. {evQ[i] : i \in 1 .. Len(evQ)} \subseteq
            {Head(evQ)} \cup {Tail(evQ)[i] : i \in 1 .. Len(Tail(evQ))}
      BY <1>1, <1>3, TailCovers
    <3>2. Queued' = {Tail(evQ)[i] : i \in 1 .. Len(Tail(evQ))}
      BY <1>3 DEF Queued
    <3> QED
      BY <3>1, <3>2 DEF Queued
  <2> QED
    BY <1>3, <2>1, <2>2 DEF Mail
<1>4. CASE Insert /\ evQ' = evQ /\ rows' \in {rows, rows \cup {Held}}
  <2>1. hpc = "insert" /\ InHand = {Held} /\ Queued' = Queued /\ rows \subseteq rows'
    BY <1>4, InHandIs DEF Insert, Queued
  <2>2. CASE m # Held
    BY <2>1, <2>2 DEF Mail
  <2>3. CASE m = Held /\ rows' = rows \cup {Held}
    BY <2>3 DEF Mail
  <2>4. CASE m = Held /\ Held.hash \in Hashes
    <3>1. PICK r \in rows : r.hash = Held.hash
      BY <2>4 DEF Hashes
    <3>2. r \in Mail /\ r.hash = HashOf(r.event) /\ Held.hash = HashOf(Held.event)
      BY <2>4 DEF HashInv, Mail
    <3>3. r.event \in Events /\ Held.event \in Events
      BY <2>1, InHandIs, WorkerInvIs, MessageIs DEF RowsOK
    <3>4. r.event = Held.event
      BY <3>1, <3>2, <3>3 DEF HashesDistinct
    <3> QED
      BY <2>1, <2>4, <3>1, <3>4 DEF Mail
  <2>5. rows' = rows \cup {Held} \/ Held.hash \in Hashes
    BY SMTT(30), <1>1, <1>4 DEF Insert, DbFault
  <2> QED
    BY <2>2, <2>3, <2>4, <2>5
<1>5. CASE hpc \notin {"recv", "insert"} /\ UNCHANGED <<rows, evQ>>
  <2>1. InHand = {Held} /\ Held \in rows /\ Queued' = Queued
    BY <1>5, InHandIs DEF HoldInv, Queued
  <2> QED
    BY <1>5, <2>1 DEF Mail
<1>6. CASE UNCHANGED <<rows, evQ, batch>>
  BY <1>6 DEF Mail, Queued, InHand
<1> QED
  BY <1>2, <1>3, <1>4, <1>5, <1>6, MailFrame

LEMMA PresentIsMail == WorkerInv => Present = {m.event : m \in Mail}
<1> SUFFICES ASSUME WorkerInv PROVE Present = {m.event : m \in Mail}
  OBVIOUS
<1>1. DOMAIN evQ = 1 .. Len(evQ) /\ DOMAIN batch = 1 .. Len(batch)
  <2>1. evQ \in Seq(Message) /\ batch \in Seq(Message)
    BY DEF WorkerInv, HandlerInv, HandlerTypeOK, ChannelsTypeOK
  <2> QED
    BY <2>1
<1> QED
  BY <1>1 DEF Present, Mail, Queued, InHand

-----------------------------------------------------------------------------
(***************************************************************************)
(* Without a failing statement the worker stores in the order of the chain: *)
(* the message in hand, those queued and the events of the sweep follow     *)
(* each other, from the highest stored ledger up to the frontier.           *)
(***************************************************************************)
Line == batch \o evQ

\* Messages q and then the events M climb from ledger s; the messages stay below f.
Climbs(q, s, f, M) ==
  /\ \A i \in 1 .. Len(q) : s <= q[i].event.ledger /\ q[i].event.ledger < f
  /\ \A i, j \in 1 .. Len(q) : i <= j => q[i].event.ledger <= q[j].event.ledger
  /\ \A e \in M : s <= e.ledger /\ \A i \in 1 .. Len(q) : q[i].event.ledger <= e.ledger

Sorted ==
  /\ contracts # {} => Stored < Frontier
  /\ Climbs(Line, Stored, Frontier, merged)

LEMMA ClimbsTail ==
  ASSUME NEW q \in Seq(Message), q # <<>>, NEW s, NEW f, NEW M, Climbs(q, s, f, M)
  PROVE  Climbs(Tail(q), s, f, M)
<1>1. /\ Len(Tail(q)) = Len(q) - 1 /\ Len(q) \in Nat
      /\ \A i \in 1 .. Len(Tail(q)) : Tail(q)[i] = q[i + 1] /\ i + 1 \in 1 .. Len(q)
  BY TailOfSeq
<1>2. \A i, j \in 1 .. Len(Tail(q)) : i <= j => i + 1 <= j + 1
  BY <1>1
<1> QED
  BY <1>1, <1>2 DEF Climbs

\* The first of them is stored.
LEMMA ClimbsFrom ==
  ASSUME NEW q \in Seq(Message), q # <<>>, NEW s, NEW f, NEW M, Climbs(q, s, f, M)
  PROVE  /\ Climbs(q, q[1].event.ledger, f, M) /\ Climbs(Tail(q), q[1].event.ledger, f, M)
         /\ s <= q[1].event.ledger /\ q[1].event.ledger < f
<1>1. 1 \in 1 .. Len(q) /\ \A i \in 1 .. Len(q) : 1 <= i
  BY TailOfSeq
<1>2. Climbs(q, q[1].event.ledger, f, M)
  BY <1>1 DEF Climbs
<1> QED
  BY <1>1, <1>2, ClimbsTail DEF Climbs

\* The earliest event of the sweep is sent.
LEMMA ClimbsAppend ==
  ASSUME NEW q \in Seq(Message), NEW s \in Nat, NEW f \in Nat, NEW M \in SUBSET Events,
         Climbs(q, s, f, M), NEW m \in Message, m.event \in M, m.event.ledger < f,
         \A e \in M : m.event.ledger <= e.ledger
  PROVE  Climbs(Append(q, m), s, f, M \ {m.event})
<1>1. /\ Len(Append(q, m)) = Len(q) + 1 /\ Len(q) \in Nat /\ Append(q, m)[Len(q) + 1] = m
      /\ \A i \in 1 .. Len(q) : Append(q, m)[i] = q[i]
  BY AppendOfSeq
<1>2. \A i \in 1 .. Len(Append(q, m)) : i \in 1 .. Len(q) \/ (i = Len(q) + 1 /\ Append(q, m)[i] = m)
  <2>1. \A i \in 1 .. (Len(q) + 1) : i \in 1 .. Len(q) \/ i = Len(q) + 1
    BY ONLY <1>1
  <2> QED
    BY ONLY <1>1, <2>1
<1>3. \A i \in 1 .. Len(q) : q[i].event.ledger <= m.event.ledger
  BY DEF Climbs
<1>4. s <= m.event.ledger /\ m.event.ledger \in Nat
  BY MessageIs DEF Climbs
<1>5. \A i \in 1 .. Len(Append(q, m)) :
        /\ s <= Append(q, m)[i].event.ledger /\ Append(q, m)[i].event.ledger < f
        /\ Append(q, m)[i].event.ledger <= m.event.ledger
  BY <1>1, <1>2, <1>3, <1>4 DEF Climbs
<1>6. \A i, j \in 1 .. Len(Append(q, m)) :
        i <= j => Append(q, m)[i].event.ledger <= Append(q, m)[j].event.ledger
  <2> SUFFICES ASSUME NEW i \in 1 .. Len(Append(q, m)), NEW j \in 1 .. Len(Append(q, m)), i <= j
               PROVE  Append(q, m)[i].event.ledger <= Append(q, m)[j].event.ledger
    OBVIOUS
  <2>1. CASE j \in 1 .. Len(q)
    <3>1. i \in 1 .. Len(q)
      BY <1>1, <2>1
    <3> QED
      BY <1>1, <2>1, <3>1 DEF Climbs
  <2>2. CASE Append(q, m)[j] = m
    BY <1>5, <2>2
  <2> QED
    BY <1>2, <2>1, <2>2
<1>7. \A e \in M : \A i \in 1 .. Len(Append(q, m)) : Append(q, m)[i].event.ledger <= e.ledger
  <2> SUFFICES ASSUME NEW e \in M, NEW i \in 1 .. Len(Append(q, m))
               PROVE  Append(q, m)[i].event.ledger <= e.ledger
    OBVIOUS
  <2>1. CASE i \in 1 .. Len(q)
    BY <1>1, <2>1 DEF Climbs
  <2>2. CASE Append(q, m)[i] = m
    BY <2>2
  <2> QED
    BY <1>2, <2>1, <2>2
<1> QED
  BY <1>5, <1>6, <1>7 DEF Climbs

\* The frontier rises, and the sweep finds events at or past it.
LEMMA ClimbsOn ==
  ASSUME NEW q \in Seq(Message), NEW s \in Nat, NEW f \in Nat, NEW g \in Nat, NEW M, NEW N \in SUBSET Events,
         Climbs(q, s, f, M), f <= g, \A e \in N \ M : s <= e.ledger /\ f <= e.ledger
  PROVE  Climbs(q, s, g, N)
<1>1. \A i \in 1 .. Len(q) : q[i].event.ledger \in Nat /\ q[i] \in Message
  <2>1. \A i \in 1 .. Len(q) : q[i] \in Message
    OBVIOUS
  <2> QED
    BY <2>1, MessageIs
<1>2. \A e \in N : e.ledger \in Nat
  BY EventLedger
<1> QED
  BY <1>1, <1>2 DEF Climbs

-----------------------------------------------------------------------------
(***************************************************************************)
(* The history of observations, whatever fails.                             *)
(***************************************************************************)
Ever == {c \in Contracts : everSince[c] < Never}

EverInv ==
  /\ \A c \in contracts : everSince[c] <= since[c]
  /\ \A c \in Contracts : everSince[c] <= Never
  /\ skipped \subseteq given
  /\ Ever \subseteq Recorded

LEMMA EverInit == Init => EverInv
BY DEF Init, LoopInit, EverInv, Ever, Never

\* A life adds only what it observes.
LEMMA ObserveIs ==
  ASSUME WorkerInv, WorkerInv', LoopTurn
  PROVE  /\ \A c \in contracts' : everSince'[c] = Smaller(everSince[c], since'[c])
         /\ \A c \in Contracts \ contracts' : everSince'[c] = everSince[c]
         /\ \A c \in Contracts : /\ everSince'[c] \in Nat /\ everSince[c] \in Nat /\ since'[c] \in Nat
                                 /\ everSince'[c] <= everSince[c] /\ since[c] \in Nat
         /\ contracts' \subseteq Contracts /\ contracts \subseteq Contracts
         /\ given' = given \cup skipped'
<1>1. /\ everSince' \in [Contracts -> Nat] /\ everSince \in [Contracts -> Nat]
      /\ since' \in [Contracts -> Nat] /\ since \in [Contracts -> Nat]
      /\ contracts' \subseteq Contracts /\ contracts \subseteq Contracts
  BY DEF WorkerInv, LifeTypeOK, LoopInv, LoopTypes, LoopTypeOK
<1>2. \A c \in Contracts :
        everSince'[c] = IF c \in contracts' THEN Smaller(everSince[c], since'[c]) ELSE everSince[c]
  BY DEF LoopTurn, Observe
<1> QED
  BY <1>1, <1>2 DEF Smaller, LoopTurn

LEMMA EverNext ==
  ASSUME WorkerInv, WorkerInv', ObservedInv', EverInv, [Next]_vars
  PROVE  EverInv'
<1>1. Recorded \subseteq Recorded' /\ contracts' \subseteq Recorded'
  BY RecordedGrows DEF ObservedInv
<1>2. CASE LoopTurn
  <2>1. \A c \in contracts' : everSince'[c] <= since'[c]
    BY <1>2, ObserveIs DEF Smaller
  <2>2. \A c \in Contracts : everSince'[c] <= Never
    BY <1>2, ObserveIs DEF EverInv, Never
  <2>3. Ever' \subseteq Ever \cup contracts'
    BY <1>2, ObserveIs DEF Ever, Never
  <2>4. skipped' \subseteq given'
    BY <1>2, ObserveIs
  <2> QED
    BY <1>1, <2>1, <2>2, <2>3, <2>4 DEF EverInv, Never
<1>3. CASE Crash
  <2>1. contracts' = {} /\ skipped' = {} /\ UNCHANGED <<everSince, given>>
    BY <1>3 DEF Crash, LoopRestart
  <2> QED
    BY <1>1, <2>1 DEF EverInv, Ever, Never
<1>4. CASE HandlerTurn \/ Outside \/ UNCHANGED vars
  <2>1. UNCHANGED <<contracts, since, skipped, everSince, given>>
    BY <1>4 DEF HandlerTurn, Outside, NetworkStep, vars, loopVars, histVars, lifeVars
  <2> QED
    BY <1>1, <2>1 DEF EverInv, Ever, Never
<1> QED
  BY <1>2, <1>3, <1>4 DEF Next

-----------------------------------------------------------------------------
\* The operations that exist from the start are known to every life.
Base == Ops \ (Drafts \cup Unregistered)
Informed == {c \in Command : Base \subseteq c.ops}

Knows ==
  /\ Base \subseteq op_data.known
  /\ contracts # {} => Base \subseteq fopid_to_opid
  /\ \A i \in 1 .. Len(cmdQ) : cmdQ[i] \in Informed
  /\ \A i \in 1 .. Len(command) : command[i] \in Informed

\* Without a fault every load is complete.
LEMMA SoundLoad ==
  ASSUME WorkerInv, NEW old \in OpData, NEW l \in Loads(old), Base \subseteq Listed,
         IF l.faulty THEN DbFault ELSE UNCHANGED dbFaults, dbFaults' = dbFaults
  PROVE  /\ ~l.faulty /\ l.op_data = Loaded /\ l.command \in Informed
         /\ Base \subseteq l.op_data.known
<1>1. dbFaults \in Nat /\ RowsOK /\ Loaded \in OpData
  BY WorkerInvIs DEF WorkerInv, HandlerInv, HandlerTypeOK
<1>2. ~l.faulty
  BY <1>1 DEF DbFault
<1>3. l.op_data = Loaded /\ l.command \in Command /\ l.command.ops = l.op_data.known
  BY <1>1, <1>2, LoadsAre
<1>4. Base \subseteq Loaded.known
  BY DEF Loaded
<1> QED
  BY <1>2, <1>3, <1>4 DEF Informed

LEMMA KnowsNext ==
  ASSUME WorkerInv, Base \subseteq Listed, Knows, [Next]_vars, dbFaults' = dbFaults
  PROVE  Knows'
<1>1. cmdQ \in Seq(Command) /\ command \in Seq(Command) /\ op_data \in OpData
  BY DEF WorkerInv, HandlerInv, HandlerTypeOK, ChannelsTypeOK
<1>2. CASE DrainCommand /\ UNCHANGED <<command, op_data>>
  <2>1. cmdQ # <<>> /\ cmdQ' = Tail(cmdQ) /\ fopid_to_opid' = Head(cmdQ).ops
    BY <1>2 DEF DrainCommand
  <2>2. Head(cmdQ) \in Informed /\ \A i \in 1 .. Len(cmdQ') : cmdQ'[i] \in Informed
    BY <1>1, <2>1, QueueTail DEF Knows
  <2> QED
    BY <1>2, <2>1, <2>2 DEF Knows, Informed
<1>3. CASE Reload /\ UNCHANGED <<contracts, fopid_to_opid, cmdQ>>
  <2>1. PICK l \in Loads(op_data) :
          /\ op_data' = l.op_data /\ command' = <<l.command>>
          /\ IF l.faulty THEN DbFault ELSE UNCHANGED dbFaults
    BY <1>3 DEF Reload
  <2>2. l.command \in Informed /\ Base \subseteq l.op_data.known
    BY <1>1, <2>1, SoundLoad
  <2> QED
    BY <1>3, <2>1, <2>2 DEF Knows
<1>4. CASE SendCommand /\ UNCHANGED <<contracts, fopid_to_opid, op_data>>
  <2>1. /\ Head(command) \in Command /\ Head(command) \in Informed
        /\ cmdQ' = Append(cmdQ, Head(command)) /\ command' = <<>>
    BY <1>4, CommandHeld DEF Knows
  <2>2. \A i \in 1 .. Len(cmdQ') : cmdQ'[i] \in Informed
    BY <1>1, <2>1, QueueAppend DEF Knows
  <2> QED
    BY <1>4, <2>1, <2>2 DEF Knows
<1>5. CASE Crash
  <2>1. PICK l \in Loads(NoOps) :
          /\ op_data' = l.op_data /\ cmdQ' = <<l.command>>
          /\ IF l.faulty THEN DbFault ELSE UNCHANGED dbFaults
    BY <1>5 DEF Crash
  <2>2. l.command \in Informed /\ Base \subseteq l.op_data.known
    BY <2>1, NoOpsType, SoundLoad
  <2>3. contracts' = {} /\ command' = <<>>
    BY <1>5 DEF Crash, LoopRestart
  <2> QED
    BY <2>1, <2>2, <2>3 DEF Knows
<1>6. CASE UNCHANGED <<contracts, fopid_to_opid, cmdQ, command, op_data>>
  BY <1>6 DEF Knows
<1> QED
  BY <1>2, <1>3, <1>4, <1>5, <1>6, CommandFrame

-----------------------------------------------------------------------------
(***************************************************************************)
(* A life without a failing statement.  It starts with a single command, at *)
(* the highest stored ledger and with every contract ever observed.         *)
(***************************************************************************)
BootFirst ==
  contracts = {} =>
    /\ hpc = "recv" /\ Line = <<>> /\ evQ = <<>> /\ cursor = StartLedger
    /\ merged = {} /\ handled = {}
    /\ \E c \in Command : /\ cmdQ = <<c>> /\ c.latest = Stored /\ Ever \subseteq c.observed
                          /\ Factory \in c.observed

LifeOrder == LoopGap /\ BootFirst /\ Sorted /\ Knows /\ (contracts # {} => Ever \subseteq contracts)

LEMMA LineIs ==
  ASSUME WorkerInv
  PROVE  /\ Line \in Seq(Message) /\ evQ \in Seq(Message)
         /\ hpc = "recv" => Line = evQ
         /\ hpc # "recv" => /\ Line = <<Held>> \o evQ /\ Line # <<>> /\ Line[1] = Held
                            /\ Tail(Line) = evQ
<1>1. evQ \in Seq(Message)
  BY DEF WorkerInv, HandlerInv, ChannelsTypeOK
<1>2. CASE hpc = "recv"
  <2>1. batch = <<>>
    BY <1>2, InHandIs
  <2>2. Line = evQ
    BY <1>1, <2>1 DEF Line
  <2> QED
    BY <1>1, <1>2, <2>2
<1>3. CASE hpc # "recv"
  <2>1. Held \in Message /\ Line = <<Held>> \o evQ
    BY <1>3, InHandIs DEF Line
  <2>2. Line \in Seq(Message) /\ Line # <<>> /\ Line[1] = Held /\ Tail(Line) = evQ
    BY <1>1, <2>1
  <2> QED
    BY <1>1, <1>3, <2>1, <2>2
<1> QED
  BY <1>2, <1>3

\* Before the boot command nothing else can happen, and afterwards something is
\* observed.
LEMMA BootCommand ==
  ASSUME WorkerInv, LifeOrder, LoopTurn
  PROVE  contracts' # {} /\ contracts \subseteq contracts' /\ (contracts = {} => DrainCommand)
<1>1. contracts \subseteq contracts'
  BY SweptAre DEF WorkerInv, LoopTurn
<1>2. CASE contracts = {}
  <2>1. pc = "drain"
    BY <1>2 DEF LifeOrder, LoopGap, BootPending
  <2>2. DrainCommand
    BY <1>2, <2>1 DEF LoopTurn, LoopStep, StartSweep, FetchBatch, FetchHubble, FetchRefused, FetchFails,
                      ForwardEvent, DropEvent, Handle, FinishSweep
  <2>3. PICK c \in Command : cmdQ = <<c>> /\ Factory \in c.observed
    BY <1>2 DEF LifeOrder, BootFirst
  <2>4. Factory \in contracts'
    BY <2>2, <2>3 DEF DrainCommand
  <2> QED
    BY <1>1, <2>2, <2>4
<1> QED
  BY <1>1, <1>2

LEMMA SortedLoop ==
  ASSUME WorkerInv, WorkerInv', LifeOrder, LoopTurn
  PROVE  Sorted'
<1>1. /\ Stored \in Nat /\ Stored' = Stored /\ Line \in Seq(Message)
      /\ UNCHANGED <<rows, batch, hpc>> /\ merged \subseteq Events /\ merged' \subseteq Events
  <2>1. UNCHANGED <<rows, batch, hpc>>
    BY DEF LoopTurn, dbVars, taskVars
  <2> QED
    BY <2>1, WorkerInvIs, StoredIs, LineIs DEF Stored, WorkerInv, LoopInv, LoopTypes, LoopTypeOK
<1>2. Frontier \in Nat /\ Frontier' \in Nat /\ Frontier <= Frontier'
  <2>1. Frontier <= Frontier'
    BY FrontierRises DEF WorkerInv, LoopTurn
  <2>2. Frontier \in Nat
    BY DEF Frontier, WorkerInv, LoopInv, LoopTypes, LoopTypeOK, NextAhead
  <2>3. Frontier' \in Nat
    BY DEF Frontier, WorkerInv, LoopInv, LoopTypes, LoopTypeOK, NextAhead
  <2> QED
    BY <2>1, <2>2, <2>3
<1>3. contracts' # {} => Stored' < Frontier'
  <2>1. CASE contracts # {}
    BY <1>1, <1>2, <2>1 DEF LifeOrder, Sorted
  <2>2. CASE contracts = {}
    <3>1. DrainCommand
      BY <2>2, BootCommand
    <3>2. PICK c \in Command : cmdQ = <<c>> /\ c.latest = Stored
      BY <2>2 DEF LifeOrder, BootFirst
    <3>3. cursor' = DrainCursor(Stored) /\ pc' = "drain"
      BY <3>1, <3>2 DEF DrainCommand
    <3>4. Stored < cursor'
      BY <1>1, <3>3, DrainCursorIsAhead DEF WorkerInv, LoopInv
    <3> QED
      BY <1>1, <3>3, <3>4 DEF Frontier
  <2> QED
    BY <2>1, <2>2
<1>4. CASE evQ' = evQ
  <2>1. Line' = Line
    BY <1>1, <1>4 DEF Line
  <2>2. \A e \in merged' \ merged : Stored <= e.ledger /\ Frontier <= e.ledger
    <3> SUFFICES ASSUME NEW e \in merged' \ merged PROVE Stored <= e.ledger /\ Frontier <= e.ledger
      OBVIOUS
    <3>1. cursor <= e.ledger /\ pc = "fetch" /\ e.ledger \in Nat
      BY <1>1, SweptAre, EventLedger DEF WorkerInv, LoopTurn
    <3>2. contracts # {}
      BY <3>1 DEF LifeOrder, LoopGap, BootPending
    <3>3. Frontier = cursor /\ Stored < cursor
      BY <3>1, <3>2 DEF Frontier, LifeOrder, Sorted
    <3> QED
      BY <1>1, <1>2, <3>1, <3>3
  <2>3. Climbs(Line, Stored, Frontier', merged')
    BY <1>1, <1>2, <2>2, ClimbsOn DEF LifeOrder, Sorted
  <2> QED
    BY <1>1, <1>3, <2>1, <2>3 DEF Sorted
<1>5. ASSUME NEW e \in merged, ForwardEvent(e) PROVE Sorted'
  <2> DEFINE m == MessageFor(e)
  <2>1. m \in Message /\ m.event = e /\ evQ' = Append(evQ, m) /\ evQ \in Seq(Message)
    BY <1>1, <1>5, MessageOf, LineIs DEF MessageFor, ForwardEvent, Post
  <2> HIDE DEF m
  <2>2. Line' = Append(Line, m)
    <3>1. batch \in Seq(Message)
      BY DEF WorkerInv, HandlerInv, HandlerTypeOK
    <3>2. batch \o Append(evQ, m) = Append(batch \o evQ, m)
      BY <2>1, <3>1
    <3> QED
      BY <1>1, <2>1, <3>2 DEF Line
  <2>3. /\ pc = "forward" /\ pc' = pc /\ next' = next /\ merged' = merged \ {e}
        /\ e \in Earliest(merged)
    BY <1>5 DEF ForwardEvent, Handle
  <2>4. \A f \in merged : e.ledger <= f.ledger
    <3>1. \A f \in merged : f.ledger \in Nat
      BY <1>1, EventLedger
    <3> QED
      BY <2>3, <3>1 DEF Earliest, Before, RowBefore
  <2>5. Frontier' = Frontier /\ e.ledger < Frontier
    BY <2>3 DEF Frontier, LifeOrder, LoopGap, Covered
  <2>6. Climbs(Append(Line, m), Stored, Frontier, merged \ {m.event})
    BY <1>1, <1>2, <2>1, <2>4, <2>5, ClimbsAppend DEF LifeOrder, Sorted
  <2> QED
    BY <1>1, <1>3, <2>1, <2>2, <2>3, <2>5, <2>6 DEF Sorted
<1>6. evQ' = evQ \/ \E e \in merged : ForwardEvent(e)
  BY DEF LoopTurn, LoopStep, DrainCommand, StartSweep, FetchBatch, FetchHubble, FetchRefused,
         FetchFails, DropEvent, FinishSweep, chanVars
<1> QED
  BY <1>4, <1>5, <1>6

LEMMA OrderLoop ==
  ASSUME SingleBatch, WorkerInv, WorkerInv', LifeOrder, EverInv, Base \subseteq Listed, LoopTurn,
         dbFaults' = dbFaults
  PROVE  LifeOrder'
<1>1. LoopGap'
  BY LoopGapNext DEF WorkerInv, LifeOrder, LoopTurn
<1>2. Sorted'
  BY SortedLoop
<1>3. Knows'
  BY KnowsNext DEF LifeOrder, Next
<1>4. contracts' # {} /\ contracts \subseteq contracts' /\ (contracts = {} => DrainCommand)
  BY BootCommand
<1>5. Ever \subseteq contracts'
  <2>1. CASE contracts # {}
    BY <1>4, <2>1 DEF LifeOrder
  <2>2. CASE contracts = {}
    <3>1. PICK c \in Command : cmdQ = <<c>> /\ Ever \subseteq c.observed
      BY <2>2 DEF LifeOrder, BootFirst
    <3>2. contracts' = contracts \cup c.observed
      BY <1>4, <2>2, <3>1 DEF DrainCommand
    <3> QED
      BY <3>1, <3>2
  <2> QED
    BY <2>1, <2>2
<1>6. Ever' \subseteq Ever \cup contracts'
  BY ObserveIs DEF Ever, Never
<1>7. BootFirst'
  BY <1>4 DEF BootFirst
<1> QED
  BY <1>1, <1>2, <1>3, <1>5, <1>6, <1>7 DEF LifeOrder

LEMMA SortedHandler ==
  ASSUME WorkerInv, WorkerInv', LifeOrder, HandlerTurn, contracts # {}, dbFaults' = dbFaults
  PROVE  Sorted'
<1>1. Frontier' = Frontier /\ merged' = merged /\ contracts' = contracts
  BY DEF HandlerTurn, loopVars, Frontier
<1>2. Climbs(Line, Stored, Frontier, merged) /\ Stored < Frontier /\ Stored \in Nat
  BY WorkerInvIs, StoredIs DEF LifeOrder, Sorted
<1>3. CASE Receive
  <2>1. /\ hpc = "recv" /\ evQ # <<>> /\ batch' = <<Head(evQ)>> /\ evQ' = Tail(evQ) /\ rows' = rows
    BY <1>3 DEF Receive, dbVars
  <2>2. Line = evQ /\ evQ \in Seq(Message)
    BY <2>1, LineIs
  <2>3. <<Head(evQ)>> \o Tail(evQ) = evQ
    BY <2>1, <2>2
  <2>4. Line' = Line /\ Stored' = Stored
    BY <2>1, <2>2, <2>3 DEF Line, Stored
  <2> QED
    BY <1>1, <1>2, <2>4 DEF Sorted
<1>4. CASE hpc # "recv" /\ evQ' = evQ /\ batch' \in {batch, <<>>}
  <2>1. /\ Line \in Seq(Message) /\ Line # <<>> /\ Line[1] = Held /\ Tail(Line) = evQ
        /\ Held \in Message /\ evQ \in Seq(Message)
    BY <1>4, LineIs, InHandIs
  <2>2. Line' \in {Line, Tail(Line)}
    BY SMTT(30), <1>4, <2>1 DEF Line
  <2>3. CASE rows' = rows
    <3>1. Stored' = Stored
      BY <2>3 DEF Stored
    <3>2. Climbs(Tail(Line), Stored, Frontier, merged)
      BY <1>2, <2>1, ClimbsTail
    <3> QED
      BY <1>1, <1>2, <2>2, <3>1, <3>2 DEF Sorted
  <2>4. CASE rows' = rows \cup {Held}
    <3>1. Stored' = Larger(Stored, Held.event.ledger)
      BY <2>1, <2>4, WorkerInvIs, StoredAfter
    <3>2. /\ Climbs(Line, Held.event.ledger, Frontier, merged)
          /\ Climbs(Tail(Line), Held.event.ledger, Frontier, merged)
          /\ Stored <= Held.event.ledger /\ Held.event.ledger < Frontier
      BY <1>2, <2>1, ClimbsFrom
    <3>3. Stored' = Held.event.ledger
      BY <1>2, <2>1, <3>1, <3>2, MessageIs DEF Larger
    <3> QED
      BY <1>1, <1>2, <2>2, <3>2, <3>3 DEF Sorted
  <2>5. rows' \in {rows, rows \cup {Held}}
    BY <1>4, MailFrame DEF Next, HandlerTurn, Crash, LoopTurn, Receive
  <2> QED
    BY <2>3, <2>4, <2>5
<1>5. Receive \/ (hpc # "recv" /\ evQ' = evQ /\ batch' \in {batch, <<>>})
  BY DEF HandlerTurn, HandlerStep, Insert, ReadTotals, SaveTotals, SyncStatus, AddFirstChain,
         RecordHolding, NoEffects, Reload, SendCommand, GoTo, chanVars
<1> QED
  BY <1>3, <1>4, <1>5

\* Without a boot command drained the task has nothing to do.
LEMMA BootIdle ==
  ASSUME LifeOrder, HandlerTurn
  PROVE  contracts # {}
<1> SUFFICES ASSUME contracts = {} PROVE FALSE
  OBVIOUS
<1>1. hpc = "recv" /\ evQ = <<>>
  BY DEF LifeOrder, BootFirst
<1> QED
  BY <1>1 DEF HandlerTurn, HandlerStep, Receive, Insert, ReadTotals, SaveTotals, SyncStatus, AddFirstChain,
              RecordHolding, NoEffects, Reload, SendCommand

LEMMA OrderHandler ==
  ASSUME WorkerInv, WorkerInv', ObservedInv, LifeOrder, Base \subseteq Listed, HandlerTurn,
         dbFaults' = dbFaults
  PROVE  LifeOrder'
<1>1. contracts # {} /\ contracts' = contracts /\ UNCHANGED <<loopVars, histVars, everSince>>
  BY BootIdle DEF HandlerTurn, loopVars, lifeVars
<1>2. LoopGap'
  <2>1. evQ' = evQ \/ (evQ # <<>> /\ evQ' = Tail(evQ))
    BY DEF HandlerTurn, HandlerStep, Receive, Insert, ReadTotals, SaveTotals, SyncStatus, AddFirstChain,
           RecordHolding, NoEffects, Reload, SendCommand, chanVars
  <2>2. \/ cmdQ' = cmdQ
        \/ \E c \in Command : /\ cmdQ' = Append(cmdQ, c) /\ Factory \in c.observed
                              /\ contracts # {} /\ c.latest < Frontier
    <3>1. CASE SendCommand
      <4> DEFINE c == Head(command)
      <4>1. c \in Command /\ c \in RecordedCommands /\ cmdQ' = Append(cmdQ, c)
        BY <3>1, CommandHeld DEF ObservedInv
      <4>2. Factory \in c.observed /\ c.latest <= Stored /\ c.latest \in Nat
        BY <4>1 DEF RecordedCommands, CommandRecorded, Command
      <4>3. Stored < Frontier /\ Stored \in Nat /\ Frontier \in Int
        BY <1>1, WorkerInvIs, StoredIs DEF LifeOrder, Sorted, Frontier, WorkerInv, LoopInv, LoopTypes,
                                          LoopTypeOK
      <4> HIDE DEF c
      <4>4. c.latest < Frontier
        BY <4>2, <4>3
      <4> QED
        BY <1>1, <4>1, <4>2, <4>4
    <3>2. CASE ~SendCommand
      BY <3>2 DEF HandlerTurn, HandlerStep, Receive, Insert, ReadTotals, SaveTotals, SyncStatus, AddFirstChain,
              RecordHolding, NoEffects, Reload, chanVars
    <3> QED
      BY <3>1, <3>2
  <2> QED
    BY <1>1, <2>1, <2>2, LoopGapOthers DEF WorkerInv, LifeOrder
<1>3. Sorted'
  BY <1>1, SortedHandler
<1>4. Knows'
  BY KnowsNext DEF LifeOrder, Next
<1>5. Ever' = Ever
  BY <1>1 DEF Ever, Never
<1> QED
  BY <1>1, <1>2, <1>3, <1>4, <1>5 DEF LifeOrder, BootFirst

\* A start, the first or a later one.
LEMMA OrderStart ==
  ASSUME WorkerInv, Emitters, Rooted, EverInv, Base \subseteq Listed, NEW l \in Loads(NoOps),
         ~l.faulty, LoopInit, evQ = <<>>, batch = <<>>, hpc = "recv", command = <<>>,
         op_data = l.op_data, cmdQ = <<l.command>>
  PROVE  LifeOrder
<1>1. RowsOK /\ RowsRooted /\ Loaded \in OpData
  BY WorkerInvIs, MailRooted
<1> DEFINE c == l.command
<1>2. c \in Command /\ Factory \in c.observed /\ c.latest = Stored
  BY <1>1, BootLatest
<1>3. c.observed = Recorded /\ c.ops = Listed /\ l.op_data.known = Listed
  BY <1>1, LoadsAre, NoOpsType, ObservableIsRecorded DEF Loaded
<1>4. Ever \subseteq c.observed /\ c \in Informed /\ Base \subseteq op_data.known
  BY <1>2, <1>3 DEF EverInv, Informed
<1> HIDE DEF c
<1>5. cmdQ = <<c>>
  BY DEF c
<1>6. contracts = {} /\ merged = {} /\ handled = {} /\ cursor = StartLedger
  BY DEF LoopInit
<1>7. Line = <<>>
  BY DEF Line
<1>8. LoopGap
  <2>1. Len(cmdQ) <= 1 /\ \A i \in 1 .. Len(cmdQ) : Factory \in cmdQ[i].observed
    BY <1>2, <1>5
  <2> QED
    BY <2>1, LoopGapInit
<1>9. BootFirst
  BY <1>2, <1>4, <1>5, <1>6, <1>7 DEF BootFirst
<1>10. Sorted
  BY <1>6, <1>7 DEF Sorted, Climbs
<1>11. Knows
  BY <1>4, <1>5, <1>6 DEF Knows
<1> QED
  BY <1>6, <1>8, <1>9, <1>10, <1>11 DEF LifeOrder

LEMMA OrderCrash ==
  ASSUME WorkerInv, Emitters, Rooted, EverInv, Base \subseteq Listed, Crash, dbFaults' = dbFaults
  PROVE  LifeOrder'
<1>1. RowsOK /\ RowsRooted /\ Loaded \in OpData
  BY WorkerInvIs, MailRooted
<1>2. PICK l \in Loads(NoOps) :
        /\ IF l.faulty THEN DbFault ELSE UNCHANGED dbFaults
        /\ op_data' = l.op_data /\ cmdQ' = <<l.command>>
  BY DEF Crash
<1>3. ~l.faulty /\ l.command \in Informed /\ Base \subseteq l.op_data.known /\ l.op_data = Loaded
  BY <1>2, NoOpsType, SoundLoad
<1> DEFINE c == l.command
<1>4. c \in Command /\ Factory \in c.observed /\ c.latest = Stored
  BY <1>1, <1>3, BootLatest
<1>5. c.observed = Recorded
  BY <1>1, <1>3, LoadsAre, NoOpsType, ObservableIsRecorded
<1>6. /\ c \in Informed /\ cmdQ' = <<c>> /\ Base \subseteq op_data'.known
      /\ Ever' = Ever /\ Ever \subseteq c.observed /\ Stored' = Stored
  BY <1>2, <1>3, <1>5 DEF EverInv, Ever, Never, Stored, Crash, dbVars
<1> HIDE DEF c
<1>7. /\ contracts' = {} /\ merged' = {} /\ handled' = {} /\ cursor' = StartLedger /\ pc' = "drain"
      /\ next' = -1 /\ todo' = {} /\ skipped' = {} /\ evQ' = <<>> /\ batch' = <<>> /\ hpc' = "recv"
      /\ command' = <<>>
  BY DEF Crash, LoopRestart
<1>8. Line' = <<>>
  BY <1>7 DEF Line
<1>9. LoopGap'
  <2>1. Len(cmdQ') = 1 /\ cmdQ'[1] = c
    BY <1>6
  <2>2. BootPending' /\ CommandsBehind' /\ QueueBehind' /\ SweepWhole'
    BY <1>4, <1>7, <2>1 DEF BootPending, CommandsBehind, QueueBehind, SweepWhole
  <2>3. Covered'
    BY <1>7 DEF Covered, Due
  <2> QED
    BY <2>2, <2>3 DEF LoopGap
<1>10. BootFirst'
  BY <1>4, <1>6, <1>7, <1>8 DEF BootFirst
<1>11. Sorted'
  BY <1>7, <1>8 DEF Sorted, Climbs
<1>12. Knows'
  BY <1>6, <1>7 DEF Knows
<1> QED
  BY <1>7, <1>9, <1>10, <1>11, <1>12 DEF LifeOrder

LEMMA OrderOutside ==
  ASSUME WorkerInv, WorkerInv', LifeOrder, Outside \/ UNCHANGED vars
  PROVE  LifeOrder'
<1>1. /\ UNCHANGED <<rows, taskVars, chanVars, loopVars, histVars, lifeVars>>
  BY DEF Outside, NetworkStep, OthersStep, Publish, Register, EvmSale, EvmStatus, handlerVars, dbVars, vars
<1>2. UNCHANGED <<rows, hpc, batch, op_data, command, evQ, cmdQ, everSince, contracts, cursor, merged, handled,
                  fopid_to_opid, pc, next>>
  BY <1>1 DEF taskVars, chanVars, loopVars, histVars, lifeVars
<1>3. LoopGap'
  BY <1>1, <1>2, LoopGapOthers DEF WorkerInv, LifeOrder
<1>4. Line' = Line /\ Stored' = Stored /\ Frontier' = Frontier /\ Ever' = Ever
  BY <1>2 DEF Line, Stored, Frontier, Ever, Never
<1>5. Sorted' /\ Knows' /\ BootFirst'
  BY <1>2, <1>4 DEF LifeOrder, Sorted, Knows, BootFirst
<1> QED
  BY <1>2, <1>3, <1>4, <1>5 DEF LifeOrder

-----------------------------------------------------------------------------
(***************************************************************************)
(* What a life owes it carries: an event it handled is in a row or on its   *)
(* way, and one it will never look at was carried by an earlier life, or    *)
(* lies in the ledger that life was torn from.                              *)
(***************************************************************************)
Carried == {m.event : m \in Mail}
Counts(e) == e \in Events \ Garbled /\ e.kind # "unindexed" /\ e.op \in Base

HandledCarried == \A e \in handled : Counts(e) => e \in Carried

\* Where the life looks from: a boot resumes past the highest stored ledger.
Horizon(c) == IF contracts = {} THEN Stored + 1 ELSE since[c]

Past ==
  \A e \in Events :
    Counts(e) /\ everSince[e.contract] <= e.ledger /\ e.ledger < Horizon(e.contract)
      /\ e.ledger \notin given => e \in Carried \/ e.ledger \in torn

LEMMA CarriedKept ==
  ASSUME HashesDistinct, WorkerInv, HashInv, HoldInv, [Next]_vars, ~Crash, dbFaults' = dbFaults
  PROVE  Carried \subseteq Carried'
<1> SUFFICES ASSUME NEW m \in Mail PROVE \E n \in Mail' : n.event = m.event
  BY DEF Carried
<1> QED
  BY MailKept

\* What a crash leaves of it: all that lies below the highest stored ledger.
LEMMA CarriedStored ==
  ASSUME WorkerInv, LifeOrder, NEW e \in Carried, e.ledger <= Stored
  PROVE  (\E r \in rows : r.event = e) \/ e.ledger = Stored
<1>1. PICK m \in Mail : m.event = e
  BY DEF Carried
<1>2. CASE m \in rows
  BY <1>1, <1>2
<1>3. ASSUME m \in Queued \cup InHand PROVE e.ledger = Stored
  <2>1. Line \in Seq(Message) /\ Climbs(Line, Stored, Frontier, merged) /\ Stored \in Nat
    BY LineIs, WorkerInvIs, StoredIs DEF LifeOrder, Sorted
  <2>2. \E i \in 1 .. Len(Line) : Line[i] = m
    <3>1. evQ \in Seq(Message) /\ batch \in Seq(Message)
      BY DEF WorkerInv, HandlerInv, HandlerTypeOK, ChannelsTypeOK
    <3>2. /\ Len(Line) = Len(batch) + Len(evQ) /\ Len(batch) \in Nat /\ Len(evQ) \in Nat
          /\ \A i \in 1 .. Len(batch) : Line[i] = batch[i]
          /\ \A i \in 1 .. Len(evQ) : Line[Len(batch) + i] = evQ[i]
      BY <3>1 DEF Line
    <3>3. ASSUME NEW i \in 1 .. Len(batch), batch[i] = m PROVE i \in 1 .. Len(Line) /\ Line[i] = m
      BY <3>2, <3>3
    <3>4. ASSUME NEW i \in 1 .. Len(evQ), evQ[i] = m
          PROVE  Len(batch) + i \in 1 .. Len(Line) /\ Line[Len(batch) + i] = m
      BY <3>2, <3>4
    <3> QED
      BY <1>3, <3>3, <3>4 DEF Queued, InHand
  <2>3. PICK i \in 1 .. Len(Line) : Line[i] = m
    BY <2>2
  <2>4. m \in Message
    BY <2>1, <2>3
  <2>5. Stored <= e.ledger /\ e.ledger \in Nat
    BY <1>1, <2>1, <2>3, <2>4, MessageIs DEF Climbs
  <2> QED
    BY <2>1, <2>5
<1> QED
  BY <1>1, <1>2, <1>3 DEF Mail

LEMMA CountedIsForwarded ==
  ASSUME WorkerInv, LifeOrder, NEW e \in merged, Counts(e), ForwardEvent(e) \/ DropEvent(e)
  PROVE  ForwardEvent(e)
<1>1. pc = "forward"
  BY DEF ForwardEvent, DropEvent, Handle
<1>2. contracts # {}
  BY <1>1 DEF LifeOrder, LoopGap, BootPending
<1>3. e.op \in fopid_to_opid
  BY <1>2 DEF LifeOrder, Knows, Counts
<1> QED
  BY <1>3 DEF DropEvent, MayDrop, Counts

LEMMA HandledNext ==
  ASSUME HashesDistinct, WorkerInv, HashInv, HoldInv, LifeOrder, HandledCarried, [Next]_vars,
         dbFaults' = dbFaults
  PROVE  HandledCarried'
<1>1. CASE Crash
  BY <1>1 DEF Crash, LoopRestart, HandledCarried
<1>2. CASE ~Crash
  <2>1. Carried \subseteq Carried'
    BY <1>2, CarriedKept
  <2>2. CASE handled' = handled
    BY <2>1, <2>2 DEF HandledCarried, Counts, Base
  <2>3. ASSUME NEW e \in merged, ForwardEvent(e) \/ DropEvent(e), LoopTurn
        PROVE  HandledCarried'
    <3>1. handled' = handled \cup {e}
      BY <2>3 DEF ForwardEvent, DropEvent, Handle
    <3>2. Counts(e) => e \in Carried'
      <4> HAVE Counts(e)
      <4>1. ForwardEvent(e) /\ UNCHANGED <<rows, batch>>
        BY <2>3, CountedIsForwarded DEF LoopTurn, dbVars, taskVars
      <4>2. MessageFor(e) \in Mail'
        BY <4>1, ForwardedIsMail
      <4>3. MessageFor(e).event = e
        BY DEF MessageFor
      <4> QED
        BY <4>2, <4>3 DEF Carried
    <3> QED
      BY <2>1, <3>1, <3>2 DEF HandledCarried, Counts, Base
  <2>4. handled' = handled \/ (LoopTurn /\ \E e \in merged : ForwardEvent(e) \/ DropEvent(e))
    <3>1. CASE LoopTurn
      BY <3>1 DEF LoopTurn, LoopStep, DrainCommand, StartSweep, FetchBatch, FetchHubble, FetchRefused,
                  FetchFails, FinishSweep, histVars
    <3>2. CASE HandlerTurn \/ Outside \/ UNCHANGED vars
      BY <3>2 DEF HandlerTurn, Outside, NetworkStep, vars, histVars
    <3> QED
      BY <1>2, <3>1, <3>2 DEF Next
  <2> QED
    BY <2>2, <2>3, <2>4
<1> QED
  BY <1>1, <1>2
\* Nothing more has to be accounted for, and nothing carried is lost.
LEMMA PastKept ==
  ASSUME Past, Carried \subseteq Carried', given \subseteq given', torn \subseteq torn',
         \A e \in Events :
           Counts(e) /\ everSince'[e.contract] <= e.ledger /\ e.ledger < Horizon(e.contract)'
             /\ e.ledger \notin given'
               => everSince[e.contract] <= e.ledger /\ e.ledger < Horizon(e.contract)
  PROVE  Past'
<1> SUFFICES ASSUME NEW e \in Events, Counts(e), everSince'[e.contract] <= e.ledger,
                    e.ledger < Horizon(e.contract)', e.ledger \notin given'
             PROVE  e \in Carried' \/ e.ledger \in torn'
  BY DEF Past, Counts, Base
<1> QED
  BY DEF Past

LEMMA PastDrain ==
  ASSUME Bounded, WorkerInv, WorkerInv', EverInv, LifeOrder, LoopTurn, DrainCommand,
         NEW e \in Events, everSince'[e.contract] <= e.ledger, e.ledger < Horizon(e.contract)'
  PROVE  everSince[e.contract] <= e.ledger /\ e.ledger < Horizon(e.contract)
<1>1. e.contract \in Contracts /\ e.ledger \in Nat /\ e.ledger <= MaxLedger /\ MaxLedger \in Nat
  BY EventLedger DEF Bounded
<1> DEFINE d == e.contract
           c == Head(cmdQ)
<1>2. contracts' # {} /\ contracts \subseteq contracts'
  BY BootCommand
<1>3. e.ledger < since'[d]
  BY <1>2 DEF Horizon
<1>4. /\ everSince'[d] \in Nat /\ everSince[d] \in Nat /\ since'[d] \in Nat
      /\ everSince'[d] <= everSince[d] /\ since[d] \in Nat
      /\ d \in contracts' => everSince'[d] = Smaller(everSince[d], since'[d])
      /\ d \notin contracts' => everSince'[d] = everSince[d]
  BY <1>1, ObserveIs
<1>5. d \notin contracts' => since'[d] = since[d]
  BY <1>1 DEF DrainCommand
<1>6. d \in contracts' => everSince[d] <= e.ledger
  BY <1>1, <1>3, <1>4 DEF Smaller
<1>7. everSince[d] <= e.ledger
  BY <1>4, <1>6
<1>8. d \in Ever
  BY <1>1, <1>4, <1>7 DEF Ever, Never
<1>9. CASE contracts # {}
  <2>1. d \in contracts
    BY <1>8, <1>9 DEF LifeOrder
  <2>2. since'[d] = since[d]
    BY <1>1, <2>1 DEF DrainCommand
  <2> QED
    BY <1>3, <1>7, <1>9, <2>2 DEF Horizon
<1>10. CASE contracts = {}
  <2>1. PICK b \in Command : cmdQ = <<b>> /\ b.latest = Stored /\ Ever \subseteq b.observed
    BY <1>10 DEF LifeOrder, BootFirst
  <2>2. cursor = StartLedger /\ Stored \in Nat /\ StartLedger <= Stored /\ StartLedger \in Nat
    BY <1>10, WorkerInvIs, StoredIs DEF LifeOrder, BootFirst
  <2>3. cursor' = DrainCursor(b.latest) /\ since'[d] = cursor'
    BY <1>1, <1>8, <1>10, <2>1 DEF DrainCommand
  <2>4. cursor' = Stored + 1
    BY <2>1, <2>2, <2>3 DEF DrainCursor, Larger
  <2> QED
    BY <1>3, <1>7, <1>10, <2>3, <2>4 DEF Horizon
<1> QED
  BY <1>9, <1>10

LEMMA PastLoop ==
  ASSUME Bounded, HashesDistinct, WorkerInv, WorkerInv', HashInv, HoldInv, EverInv, LifeOrder, Past,
         LoopTurn, dbFaults' = dbFaults
  PROVE  Past'
<1>1. torn' = torn /\ given \subseteq given'
  BY DEF LoopTurn
<1>2. CASE Crash
  <2>1. contracts' = {} /\ contracts' # {}
    BY <1>2, BootCommand DEF Crash, LoopRestart
  <2> QED
    BY <2>1
<1>3. ~Crash => Carried \subseteq Carried'
  BY CarriedKept DEF Next
<1>4. CASE DrainCommand
  BY <1>1, <1>2, <1>3, <1>4, PastDrain, PastKept
<1>5. CASE ~DrainCommand
  <2>1. contracts' = contracts /\ since' = since /\ contracts # {}
    BY <1>5, BootCommand DEF LoopTurn, LoopStep, StartSweep, FetchBatch, FetchHubble, FetchRefused,
          FetchFails, ForwardEvent, DropEvent, Handle, FinishSweep, histVars
  <2>2. \A e \in Events : everSince'[e.contract] = everSince[e.contract]
    BY <2>1, ObserveIs, EventLedger DEF EverInv, Smaller
  <2>3. \A e \in Events :
           Counts(e) /\ everSince'[e.contract] <= e.ledger /\ e.ledger < Horizon(e.contract)'
             /\ e.ledger \notin given'
               => everSince[e.contract] <= e.ledger /\ e.ledger < Horizon(e.contract)
    BY <2>1, <2>2 DEF Horizon
  <2> QED
    BY <1>1, <1>2, <1>3, <2>3, PastKept
<1> QED
  BY <1>4, <1>5

LEMMA PastOthers ==
  ASSUME HashesDistinct, WorkerInv, HashInv, HoldInv, LifeOrder, Past,
         HandlerTurn \/ Outside \/ UNCHANGED vars, ~Crash, dbFaults' = dbFaults
  PROVE  Past'
<1>1. Carried \subseteq Carried'
  BY CarriedKept DEF Next
<1>2. UNCHANGED <<contracts, since, everSince, given, torn>>
  BY DEF HandlerTurn, Outside, NetworkStep, vars, loopVars, histVars, lifeVars
<1>3. contracts = {} => Stored' = Stored
  <2> HAVE contracts = {}
  <2>1. ~HandlerTurn
    BY BootIdle
  <2>2. rows' = rows
    BY <2>1 DEF Outside, NetworkStep, OthersStep, Publish, Register, EvmSale, EvmStatus, handlerVars, dbVars, vars
  <2> QED
    BY <2>2 DEF Stored
<1>4. \A e \in Events :
         Counts(e) /\ everSince'[e.contract] <= e.ledger /\ e.ledger < Horizon(e.contract)'
           /\ e.ledger \notin given'
             => everSince[e.contract] <= e.ledger /\ e.ledger < Horizon(e.contract)
  BY <1>2, <1>3 DEF Horizon
<1> QED
  BY <1>1, <1>2, <1>4, PastKept

\* An event the life owes, below the highest stored ledger: it is stored already,
\* or in that ledger.
LEMMA StoredBelow ==
  ASSUME Bounded, WorkerInv, EverInv, LifeOrder, HandledCarried, Past,
         NEW e \in Events, Counts(e), everSince[e.contract] <= e.ledger, e.ledger <= Stored,
         e.ledger \notin given
  PROVE  (\E r \in rows : r.event = e) \/ e.ledger = Stored \/ e.ledger \in torn
<1> SUFFICES ASSUME e.ledger # Stored, e.ledger \notin torn PROVE \E r \in rows : r.event = e
  OBVIOUS
<1>1. /\ e.contract \in Contracts /\ e.ledger \in Nat /\ e.ledger <= MaxLedger /\ MaxLedger \in Nat
      /\ Stored \in Nat /\ StartLedger <= Stored
  BY EventLedger, WorkerInvIs, StoredIs DEF Bounded
<1>2. /\ everSince[e.contract] \in Nat /\ since[e.contract] \in Nat /\ next \in Nat \cup {-1}
      /\ cursor \in Nat /\ merged \subseteq Events
  BY <1>1 DEF WorkerInv, LifeTypeOK, LoopInv, LoopTypes, LoopTypeOK
<1>3. e.contract \in Ever
  BY <1>1, <1>2 DEF Ever, Never
<1>4. e \in Carried => \E r \in rows : r.event = e
  BY CarriedStored
<1>5. CASE e.ledger < Horizon(e.contract)
  BY <1>4, <1>5 DEF Past
<1>6. CASE ~(e.ledger < Horizon(e.contract))
  <2>1. contracts # {} /\ since[e.contract] <= e.ledger /\ e.contract \in contracts
    <3>1. contracts # {}
      BY <1>1, <1>6 DEF Horizon
    <3> QED
      BY <1>1, <1>2, <1>3, <1>6, <3>1 DEF Horizon, LifeOrder
  <2>2. Stored < Frontier /\ \A f \in merged : Stored <= f.ledger
    BY <2>1 DEF LifeOrder, Sorted, Climbs
  <2>3. Frontier \in Int
    BY <1>2 DEF Frontier
  <2>4. e \in Due(Frontier)
    BY <1>1, <1>2, <2>1, <2>2, <2>3 DEF Due, EverInv, Counts
  <2>5. e \in handled \cup merged
    BY <2>4 DEF LifeOrder, LoopGap, Covered, Frontier
  <2>6. e \notin merged
    BY <1>1, <2>2
  <2> QED
    BY <1>4, <2>5, <2>6 DEF HandledCarried
<1> QED
  BY <1>5, <1>6

LEMMA PastCrash ==
  ASSUME Bounded, WorkerInv, EverInv, LifeOrder, HandledCarried, Past, Crash
  PROVE  Past'
<1>1. /\ contracts' = {} /\ torn' = torn \cup {Stored} /\ rows' = rows
      /\ evQ' = <<>> /\ batch' = <<>> /\ UNCHANGED <<everSince, given>>
  BY DEF Crash, LoopRestart, dbVars
<1>2. Stored' = Stored /\ Mail' = rows
  BY <1>1 DEF Stored, Mail, Queued, InHand
<1> SUFFICES ASSUME NEW e \in Events, Counts(e), everSince[e.contract] <= e.ledger,
                    e.ledger < Stored + 1, e.ledger \notin given
             PROVE  e \in Carried' \/ e.ledger \in torn'
  BY <1>1, <1>2 DEF Past, Counts, Base, Horizon
<1>3. e.ledger <= Stored
  BY EventLedger, WorkerInvIs, StoredIs
<1> QED
  BY <1>1, <1>2, <1>3, StoredBelow DEF Carried

LEMMA PastNext ==
  ASSUME Bounded, HashesDistinct, WorkerInv, WorkerInv', HashInv, HoldInv, EverInv, LifeOrder,
         HandledCarried, Past, [Next]_vars, dbFaults' = dbFaults
  PROVE  Past'
<1>1. CASE Crash
  BY <1>1, PastCrash
<1>2. CASE LoopTurn
  BY <1>2, PastLoop
<1>3. CASE ~Crash /\ (HandlerTurn \/ Outside \/ UNCHANGED vars)
  BY <1>3, PastOthers
<1> QED
  BY <1>1, <1>2, <1>3 DEF Next
-----------------------------------------------------------------------------
\* Statements that fail are only used up.
LEMMA FaultsFall ==
  ASSUME WorkerInv, [Next]_vars
  PROVE  dbFaults' <= dbFaults /\ dbFaults \in Nat /\ dbFaults' \in Nat
<1>1. dbFaults \in Nat
  BY DEF WorkerInv, HandlerInv, HandlerTypeOK
<1>2. CASE LoopTurn
  BY <1>1, <1>2, LoopTurnFrame
<1>3. CASE Crash
  BY <1>1, <1>3, RestartIs
<1>4. CASE HandlerTurn
  <2>1. dbFaults' = dbFaults \/ DbFault
    <3>1. CASE Receive \/ Insert
      BY <3>1 DEF Receive, Insert
    <3>2. CASE ReadTotals \/ SaveTotals \/ SyncStatus
      BY <3>2 DEF ReadTotals, SaveTotals, SyncStatus, MayFail
    <3>3. CASE AddFirstChain \/ RecordHolding \/ NoEffects
      BY <3>3 DEF AddFirstChain, RecordHolding, NoEffects, MayFail
    <3>4. CASE Reload \/ SendCommand
      BY <3>4 DEF Reload, SendCommand
    <3> QED
      BY <1>4, <3>1, <3>2, <3>3, <3>4 DEF HandlerTurn, HandlerStep
  <2> QED
    BY <1>1, <2>1 DEF DbFault
<1>5. CASE Outside \/ UNCHANGED vars
  BY <1>1, <1>5 DEF Outside, NetworkStep, OthersStep, Publish, Register, EvmSale, EvmStatus, handlerVars, vars
<1> QED
  BY <1>2, <1>3, <1>4, <1>5 DEF Next

Sound == LifeOrder /\ HandledCarried /\ Past

LossInv ==
  /\ WorkerInv /\ ObservedInv /\ HashInv /\ HoldInv /\ Rooted /\ EverInv
  /\ Base \subseteq Listed /\ dbFaults <= MaxDbFaults
  /\ dbFaults = MaxDbFaults => Sound

LEMMA LossInit == ASSUME Emitters, Bounded, Init PROVE LossInv
<1>1. WorkerInv /\ ObservedInv /\ HashInv /\ HoldInv /\ Rooted /\ EverInv
  BY WorkerInit, ObservedInit, HashInit, HoldInit, RootedInit, EverInit
<1>2. Base \subseteq Listed /\ dbFaults <= MaxDbFaults
  BY DEF Init, DbInit, Base, Listed
<1>3. LifeOrder
  <2>1. PICK l \in Loads(NoOps) : ~l.faulty /\ op_data = l.op_data /\ cmdQ = <<l.command>>
    BY DEF Init
  <2>2. LoopInit /\ evQ = <<>> /\ batch = <<>> /\ hpc = "recv" /\ command = <<>>
    BY DEF Init
  <2> QED
    BY <1>1, <1>2, <2>1, <2>2, OrderStart
<1>4. HandledCarried
  BY DEF Init, LoopInit, HandledCarried
<1>5. Past
  <2>1. \A e \in Events : everSince[e.contract] = Never /\ e.ledger <= MaxLedger /\ e.ledger \in Nat
    BY EventLedger DEF Init, Bounded
  <2> QED
    BY <2>1 DEF Past, Never
<1> QED
  BY <1>1, <1>2, <1>3, <1>4, <1>5 DEF LossInv, Sound

LEMMA LossNext ==
  ASSUME SingleBatch, OneNumbering, HashesDistinct, Emitters, Bounded, LossInv, [Next]_vars
  PROVE  LossInv'
<1>1. WorkerInv' /\ ObservedInv'
  BY WorkerInvNext, ObservedNext DEF LossInv
<1>2. HashInv' /\ HoldInv'
  BY <1>1, HashNext, HoldNext DEF LossInv
<1>3. Rooted' /\ EverInv'
  BY <1>1, RootedNext, EverNext DEF LossInv
<1>4. (Base \subseteq Listed)'
  BY DatabaseGrows DEF LossInv, Base, Listed
<1>5. (dbFaults <= MaxDbFaults)'
  BY FaultsFall DEF LossInv
<1>6. ASSUME dbFaults' = MaxDbFaults PROVE Sound'
  <2>1. dbFaults' = dbFaults
    BY <1>6, FaultsFall DEF LossInv
  <2>2. Sound
    BY <1>6, <2>1 DEF LossInv
  <2>3. LifeOrder'
    <3>1. CASE LoopTurn
      BY <1>1, <2>1, <2>2, <3>1, OrderLoop DEF LossInv, Sound
    <3>2. CASE HandlerTurn
      BY <1>1, <2>1, <2>2, <3>2, OrderHandler DEF LossInv, Sound
    <3>3. CASE Crash
      BY <2>1, <3>3, OrderCrash DEF LossInv
    <3>4. CASE Outside \/ UNCHANGED vars
      BY <1>1, <2>2, <3>4, OrderOutside DEF LossInv, Sound
    <3> QED
      BY <3>1, <3>2, <3>3, <3>4 DEF Next
  <2>4. HandledCarried'
    BY <2>1, <2>2, HandledNext DEF LossInv, Sound
  <2>5. Past'
    BY <1>1, <2>1, <2>2, PastNext DEF LossInv, Sound
  <2> QED
    BY <2>3, <2>4, <2>5 DEF Sound
<1> QED
  BY <1>1, <1>2, <1>3, <1>4, <1>5, <1>6 DEF LossInv

\* What is owed and absent lies in a ledger that a crash interrupted.
LEMMA LossIs ==
  ASSUME Bounded, LossInv
  PROVE  OnlyTornLedgersLose
<1> SUFFICES ASSUME dbFaults = MaxDbFaults, NEW e \in Owed \ Present, e.ledger \notin torn PROVE FALSE
  BY DEF OnlyTornLedgersLose
<1>1. Sound /\ WorkerInv /\ EverInv
  BY DEF LossInv
<1>2. /\ e \in Events /\ Counts(e) /\ everSince[e.contract] <= e.ledger /\ e.ledger < cursor
      /\ e.ledger \notin given
  BY DEF Owed, Counts, Base, Event
<1>3. e \notin Carried
  BY <1>1, PresentIsMail DEF Carried
<1>4. ~(e.ledger < Horizon(e.contract))
  BY <1>1, <1>2, <1>3 DEF Sound, Past
<1>5. /\ e.contract \in Contracts /\ e.ledger \in Nat /\ e.ledger <= MaxLedger /\ MaxLedger \in Nat
      /\ Stored \in Nat /\ StartLedger <= Stored /\ StartLedger \in Nat
      /\ everSince[e.contract] \in Nat /\ since[e.contract] \in Nat
  <2>1. e.contract \in Contracts /\ e.ledger \in Nat /\ e.ledger <= MaxLedger /\ MaxLedger \in Nat
    BY <1>2, EventLedger DEF Bounded
  <2>2. Stored \in Nat /\ StartLedger <= Stored /\ StartLedger \in Nat
    BY <1>1, WorkerInvIs, StoredIs
  <2>3. everSince[e.contract] \in Nat /\ since[e.contract] \in Nat
    BY <1>1, <2>1 DEF WorkerInv, LifeTypeOK, LoopInv, LoopTypes, LoopTypeOK
  <2> QED
    BY <2>1, <2>2, <2>3
<1>6. contracts # {}
  <2> SUFFICES ASSUME contracts = {} PROVE FALSE
    OBVIOUS
  <2>1. cursor = StartLedger
    BY <1>1 DEF Sound, LifeOrder, BootFirst
  <2> QED
    BY <1>2, <1>4, <1>5, <2>1 DEF Horizon
<1>7. e.contract \in contracts /\ since[e.contract] <= e.ledger
  <2>1. e.contract \in Ever
    BY <1>2, <1>5 DEF Ever, Never
  <2> QED
    BY <1>1, <1>4, <1>5, <1>6, <2>1 DEF Horizon, Sound, LifeOrder
<1>8. e \in Due(cursor)
  BY <1>1, <1>2, <1>7 DEF Due, EverInv, Counts
<1>9. e \in handled
  BY <1>1, <1>8 DEF Sound, LifeOrder, LoopGap, Covered
<1> QED
  BY <1>1, <1>2, <1>3, <1>9 DEF Sound, HandledCarried

(***************************************************************************)
(* An event the cursor has passed at a contract that some life observed is  *)
(* stored or on its way, unless it lies in the last ledger a crashed life   *)
(* had stored: whatever the number of crashes and their moment, as long as  *)
(* no statement fails, a sweep is one batch and a hash names one event      *)
(* (handler.rs:382-438, event_loop.rs:186-191).                             *)
(***************************************************************************)
THEOREM OnlyTornLedgersAreLost ==
  ASSUME SingleBatch, OneNumbering, HashesDistinct, Emitters, Bounded
  PROVE  Spec => []OnlyTornLedgersLose
<1>1. Init => LossInv
  BY LossInit
<1>2. LossInv /\ [Next]_vars => LossInv'
  BY LossNext
<1>3. LossInv => OnlyTornLedgersLose
  BY LossIs
<1> QED
  BY <1>1, <1>2, <1>3, PTL DEF Spec

=============================================================================
