--------------------------- MODULE IndexerProofs -----------------------------
(***************************************************************************)
(* Theorems about the indexer, for every chain, every set of contracts and    *)
(* operations and every channel capacity.  What the loop's own steps          *)
(* preserve is proved in LoopProofs; here the other task is added.            *)
(***************************************************************************)
EXTENDS Indexer, LoopProofs

USE NetworkAssumption, ChannelsAssumption, EventLoopAssumption, IndexerAssumption

-----------------------------------------------------------------------------
TypeInv == TypeOK /\ NextAhead

LEMMA TypeInvIs == TypeInv <=> LoopInv /\ peer \in {"idle", "refresh"} /\ stored \in Nat
BY DEF TypeInv, TypeOK, LoopInv, LoopTypes

LEMMA TypeInvPrime ==
  ASSUME LoopInv', peer' \in {"idle", "refresh"}, stored' \in Nat
  PROVE  TypeInv'
BY DEF TypeInv, TypeOK, LoopInv, LoopTypes

LEMMA TypeInit == Init => TypeInv
<1>. SUFFICES ASSUME Init PROVE TypeInv  OBVIOUS
<1>1. replay \in {"none", "bounded", "archival"}
  BY DEF Init, Boot, LoopInit, BuildReplay
<1>2. NetworkTypeOK
  BY DEF Init, Boot, LoopInit, NetworkInit, NetworkTypeOK, Endpoints
<1>3. stored \in Nat  BY DEF Init, Boot, LoopInit
<1>4. cmdQ \in Seq(Command)
  BY <1>3 DEF Init, Boot, LoopInit, Command
<1>5. evQ \in Seq(Message)  BY DEF Init, Boot, LoopInit
<1>. QED  BY <1>1, <1>2, <1>3, <1>4, <1>5 DEF Init, Boot, LoopInit, TypeInv, TypeOK, LoopTypeOK, ChannelsTypeOK, NextAhead, Endpoints

\* The other task leaves the loop alone.
LEMMA PeerType == TypeInv /\ PeerStep => TypeInv'
<1>. SUFFICES ASSUME TypeInv, PeerStep PROVE TypeInv'  OBVIOUS
<1>1. UNCHANGED <<netVars, loopVars, histVars>>
  BY DEF PeerStep, Receive, Forgo, Refresh
<1>2. ChannelsTypeOK' /\ peer' \in {"idle", "refresh"} /\ stored' \in Nat
  <2>1. CASE Receive
    <3>1. Head(evQ) \in Message /\ Tail(evQ) \in Seq(Message)
      BY <2>1 DEF TypeInv, TypeOK, ChannelsTypeOK, Receive
    <3>2. Head(evQ).event.ledger \in Nat  BY <3>1, MessageEvent
    <3>. QED
      BY <2>1, <3>1, <3>2 DEF TypeInv, TypeOK, ChannelsTypeOK, Receive, peerVars, Larger
  <2>2. CASE Forgo
    BY <2>2 DEF TypeInv, TypeOK, ChannelsTypeOK, Forgo, chanVars
  <2>3. ASSUME NEW observed \in SUBSET Contracts, NEW latest \in 0 .. stored,
               NEW ops \in SUBSET Ops, Refresh(observed, latest, ops)
        PROVE  ChannelsTypeOK' /\ peer' \in {"idle", "refresh"} /\ stored' \in Nat
    <3>1. [observed |-> observed, latest |-> latest, ops |-> ops] \in Command
      BY DEF TypeInv, TypeOK, Command
    <3>2. cmdQ' \in Seq(Command)
      BY <2>3, <3>1 DEF TypeInv, TypeOK, ChannelsTypeOK, Refresh, Send
    <3>. QED  BY <2>3, <3>2 DEF TypeInv, TypeOK, ChannelsTypeOK, Refresh, Send
  <2>. QED  BY <2>1, <2>2, <2>3 DEF PeerStep
<1>3. LoopInv'  BY <1>1, <1>2, TypeInvIs, LoopInvOthers
<1>. QED  BY <1>2, <1>3, TypeInvPrime

LEMMA TypeNext == TypeInv /\ [Next]_vars => TypeInv'
<1>. SUFFICES ASSUME TypeInv, [Next]_vars PROVE TypeInv'  OBVIOUS
<1>1. CASE LoopStep /\ UNCHANGED peerVars
  BY <1>1, TypeInvIs, TypeInvPrime, LoopInvNext DEF peerVars
<1>2. CASE PeerStep  BY <1>2, PeerType
<1>3. CASE NetworkStep /\ UNCHANGED peerVars
  BY <1>3, TypeInvIs, TypeInvPrime, LoopInvNetwork DEF peerVars
<1>4. CASE UNCHANGED vars
  <2>1. UNCHANGED <<netVars, loopVars, histVars>> /\ ChannelsTypeOK'
    BY <1>4 DEF vars, chanVars, TypeInv, TypeOK, ChannelsTypeOK
  <2>. QED  BY <1>4, <2>1, TypeInvIs, TypeInvPrime, LoopInvOthers DEF vars, peerVars
<1>. QED  BY <1>1, <1>2, <1>3, <1>4 DEF Next

(***************************************************************************)
(* Every variable keeps its type, and a sweep in progress never plans to    *)
(* resume below its start.                                                  *)
(***************************************************************************)
THEOREM TypeCorrect == Spec => []TypeOK
<1>1. Init => TypeInv  BY TypeInit
<1>2. TypeInv /\ [Next]_vars => TypeInv'  BY TypeNext
<1>3. TypeInv => TypeOK  BY DEF TypeInv
<1>. QED  BY <1>1, <1>2, <1>3, PTL DEF Spec

-----------------------------------------------------------------------------
(***************************************************************************)
(* The cursor never moves back: not when a command arrives, not when a      *)
(* sweep ends, not when a gap is skipped.                                   *)
(***************************************************************************)
THEOREM CursorNeverFalls == Spec => CursorMonotonic
<1>1. ASSUME TypeInv, [Next]_vars PROVE cursor <= cursor'
  <2>1. CASE LoopStep  BY <1>1, <2>1, TypeInvIs, CursorRises
  <2>2. CASE UNCHANGED cursor
    BY <1>1, <2>2 DEF TypeInv, TypeOK, LoopTypeOK
  <2>. QED
    BY <1>1, <2>1, <2>2 DEF Next, PeerStep, NetworkStep, Receive, Forgo, Refresh, loopVars, vars
<1>2. TypeInv /\ [Next]_vars => [cursor <= cursor']_vars  BY <1>1
<1>3. Init => TypeInv  BY TypeInit
<1>4. TypeInv /\ [Next]_vars => TypeInv'  BY TypeNext
<1>. QED  BY <1>2, <1>3, <1>4, PTL DEF Spec, CursorMonotonic

-----------------------------------------------------------------------------
(***************************************************************************)
(* Why a refusal is never repeated.  A refusal by live is followed by a     *)
(* floor above the cursor, which sends the loop to its replay source until  *)
(* the cursor has moved; a refusal that nothing can replay moves the cursor *)
(* at once.  The source of a sweep is the one the state still selects.      *)
(***************************************************************************)
RefusalAnswered ==
  /\ pc = "fetch" => source = ActiveSource
  /\ refused[2] <= cursor
  /\ refused[2] = cursor =>
       refused[1] = "live" /\ replay # "none" /\ cursor < retention_floor

LEMMA RefusalAnsweredNext ==
  TypeInv /\ TypeInv' /\ RefusalAnswered /\ [Next]_vars => RefusalAnswered'
<1>. SUFFICES ASSUME TypeInv, TypeInv', RefusalAnswered, [Next]_vars
              PROVE  RefusalAnswered'
  OBVIOUS
<1>. /\ cursor \in Nat /\ cursor' \in Nat /\ retention_floor \in Nat
     /\ refused \in Endpoints \X (Nat \cup {-1}) /\ low[source] \in Nat
  BY DEF TypeInv, TypeOK, LoopTypeOK, ChannelsTypeOK, NetworkTypeOK
<1>1. CASE DrainCommand
  <2>1. Head(cmdQ) \in Command  BY <1>1 DEF TypeInv, TypeOK, LoopTypeOK, ChannelsTypeOK, DrainCommand
  <2>2. Head(cmdQ).latest \in Nat  BY <2>1 DEF Command
  <2>3. cursor <= cursor'  BY <1>1, <2>2, DrainCursorIsAhead, TypeInvIs DEF DrainCommand, LoopInv
  <2>. QED  BY <1>1, <2>3 DEF DrainCommand, RefusalAnswered
<1>2. CASE StartSweep
  BY <1>2 DEF StartSweep, RefusalAnswered, ActiveSource, histVars
<1>3. ASSUME NEW B \in SUBSET todo, NEW h \in low[source] .. tip, FetchBatch(B, h)
      PROVE  RefusalAnswered'
  <2>1. pc = "fetch"  BY <1>3 DEF FetchBatch
  <2>. QED  BY <1>3, <2>1 DEF FetchBatch, RefusalAnswered, ActiveSource, histVars
<1>4. CASE FetchHubble
  BY <1>4 DEF FetchHubble, SweepReturns, RefusalAnswered, ActiveSource, histVars
<1>5. CASE FetchRefused
  <2>1. /\ pc' = "drain" /\ refused' = <<source, cursor>> /\ replay' = replay
        /\ cursor < low[source] /\ OverRpc
    BY <1>5 DEF FetchRefused
  <2>2. source \in Endpoints  BY DEF TypeInv, TypeOK, LoopTypeOK, ChannelsTypeOK
  <2>3. CASE source = "live" /\ replay # "none"
    <3>1. ClassifyFetchError(Attempt, low[source]) = "ReplayGap"
      BY <2>1, <2>3 DEF ClassifyFetchError, Attempt
    <3>2. cursor' = cursor /\ retention_floor' = low[source]
      BY <1>5, <3>1 DEF FetchRefused
    <3>. QED  BY <2>1, <2>3, <3>2 DEF RefusalAnswered
  <2>4. CASE ~(source = "live" /\ replay # "none")
    <3>1. Attempt \in {"LiveOnly", "BackfillBounded"}
      BY <2>1, <2>2, <2>4 DEF OverRpc, Attempt, Endpoints
    <3>2. ClassifyFetchError(Attempt, low[source]) = "SkipGap"
      BY <2>1, <3>1 DEF ClassifyFetchError
    <3>3. cursor' = low[source]  BY <1>5, <3>2 DEF FetchRefused
    <3>. QED  BY <2>1, <3>3 DEF RefusalAnswered
  <2>. QED  BY <2>3, <2>4
<1>6. CASE FetchFails
  BY <1>6 DEF FetchFails, RefusalAnswered, histVars
<1>7. ASSUME NEW e \in merged, ForwardEvent(e) \/ DropEvent(e) PROVE RefusalAnswered'
  BY <1>7 DEF ForwardEvent, Post, DropEvent, Handle, RefusalAnswered, ActiveSource
<1>8. CASE FinishSweep
  <2>1. cursor <= cursor'  BY <1>8 DEF TypeInv, NextAhead, FinishSweep
  <2>. QED  BY <1>8, <2>1 DEF FinishSweep, RefusalAnswered, histVars
<1>9. CASE UNCHANGED <<loopVars, histVars>>
  BY <1>9 DEF RefusalAnswered, ActiveSource, loopVars, histVars
<1>. QED
  BY <1>1, <1>2, <1>3, <1>4, <1>5, <1>6, <1>7, <1>8, <1>9
  DEF Next, LoopStep, PeerStep, NetworkStep, Receive, Forgo, Refresh, Send, vars

(***************************************************************************)
(* A request refused as below retention is not sent again: the loop cannot  *)
(* spin on it.                                                              *)
(***************************************************************************)
THEOREM NeverSpins == Spec => []NoRefusedRetry
<1>1. Init => TypeInv /\ RefusalAnswered
  <2>. SUFFICES ASSUME Init PROVE TypeInv /\ RefusalAnswered  OBVIOUS
  <2>1. pc = "drain" /\ refused[2] = -1 /\ cursor \in Nat  BY DEF Init, Boot, LoopInit
  <2>. QED  BY <2>1, TypeInit DEF RefusalAnswered
<1>2. TypeInv /\ RefusalAnswered /\ [Next]_vars => (TypeInv /\ RefusalAnswered)'
  BY TypeNext, RefusalAnsweredNext
<1>3. TypeInv /\ RefusalAnswered => NoRefusedRetry
  <2>. SUFFICES ASSUME TypeInv, RefusalAnswered, pc = "fetch", <<source, cursor>> = refused
                PROVE  FALSE
    BY DEF NoRefusedRetry
  <2>1. refused[1] = source /\ refused[2] = cursor  OBVIOUS
  <2>2. source = "live" /\ ActiveSource = "live" /\ replay # "none" /\ cursor < retention_floor
    BY <2>1 DEF RefusalAnswered
  <2>3. cursor \in Nat /\ retention_floor # 0  BY <2>2 DEF TypeInv, TypeOK, LoopTypeOK, ChannelsTypeOK
  <2>. QED  BY <2>2, <2>3 DEF ActiveSource
<1>. QED  BY <1>1, <1>2, <1>3, PTL DEF Spec

-----------------------------------------------------------------------------
(***************************************************************************)
(* The loop's bookkeeping (LoopGap) holds as long as nothing overtakes its   *)
(* frontier: what the other task has stored, and with it every block a       *)
(* command can report, lies behind it.                                       *)
(***************************************************************************)
BootQueued == contracts = {} => peer = "idle" /\ cmdQ # <<>> /\ Head(cmdQ).latest = stored

CommandsStored == \A i \in 1 .. Len(cmdQ) : cmdQ[i].latest <= stored

StoredBehind == contracts # {} => stored < Frontier

GapInv == LoopGap /\ BootQueued /\ CommandsStored /\ StoredBehind

LEMMA GapInit == Init => GapInv
<1>. SUFFICES ASSUME Init PROVE GapInv  OBVIOUS
<1>1. PICK observed \in SUBSET Contracts, ops \in SUBSET Ops :
        /\ Factory \in observed
        /\ cmdQ = <<[observed |-> observed, latest |-> stored, ops |-> ops]>>
  BY DEF Init, Boot
<1>2. stored \in Nat /\ contracts = {} /\ peer = "idle"  BY DEF Init, Boot, LoopInit
<1>3. LoopGap  BY <1>1, LoopGapInit DEF Init, Boot
<1>. QED  BY <1>1, <1>2, <1>3 DEF GapInv, BootQueued, CommandsStored, StoredBehind

LEMMA LoopGapStep ==
  ASSUME SingleBatch, TypeInv, GapInv, LoopStep, UNCHANGED peerVars
  PROVE  GapInv'
<1>1. LoopInv /\ LoopInv' /\ stored \in Nat /\ peer' = peer /\ stored' = stored
  BY TypeInvIs, LoopInvNext DEF peerVars
<1>2. LoopGap'  BY <1>1, LoopGapNext DEF GapInv
<1>3. CASE UNCHANGED contracts /\ UNCHANGED cmdQ
  <2>1. Frontier \in Int /\ Frontier' \in Int
    BY <1>1 DEF LoopInv, LoopTypes, LoopTypeOK, Frontier
  <2>2. StoredBehind'  BY <1>1, <1>3, <2>1, FrontierRises DEF GapInv, StoredBehind
  <2>. QED  BY <1>1, <1>2, <1>3, <2>2 DEF GapInv, BootQueued, CommandsStored
<1>4. CASE DrainCommand
  <2>1. cmdQ # <<>> /\ cmdQ \in Seq(Command) /\ cmdQ' = Tail(cmdQ)
    BY <1>1, <1>4 DEF LoopInv, LoopTypes, ChannelsTypeOK, DrainCommand
  <2>2. /\ Head(cmdQ) \in Command /\ Head(cmdQ) = cmdQ[1] /\ 1 \in 1 .. Len(cmdQ)
        /\ Len(cmdQ') = Len(cmdQ) - 1 /\ Len(cmdQ) \in Nat
        /\ \A i \in 1 .. Len(cmdQ') : cmdQ'[i] = cmdQ[i + 1]
    BY <2>1
  <2>3. Head(cmdQ).latest \in Nat /\ Factory \in Head(cmdQ).observed
    BY <2>2 DEF GapInv, LoopGap, CommandsBehind, Command
  <2>4. CommandsStored'  BY <1>1, <2>2 DEF GapInv, CommandsStored
  <2>5. contracts' # {} /\ pc = "drain" /\ pc' = "drain" /\ cursor' = DrainCursor(Head(cmdQ).latest)
    BY <1>4, <2>3 DEF DrainCommand
  <2>6. stored < cursor'
    <3>1. CASE contracts = {}
      BY <1>1, <2>3, <2>5, <3>1, DrainCursorIsAhead DEF LoopInv, GapInv, BootQueued
    <3>2. CASE contracts # {}
      <4>1. stored < cursor  BY <2>5, <3>2 DEF GapInv, StoredBehind, Frontier
      <4>2. cursor \in Nat /\ cursor' \in Nat /\ cursor <= cursor'
        BY <1>1, CursorRises DEF LoopInv, LoopTypes, LoopTypeOK
      <4>. QED  BY <1>1, <4>1, <4>2
    <3>. QED  BY <3>1, <3>2
  <2>. QED
    BY <1>1, <1>2, <2>4, <2>5, <2>6 DEF GapInv, BootQueued, StoredBehind, Frontier
<1>. QED  BY <1>1, <1>3, <1>4, FrontierRises

LEMMA ReceiveGap ==
  ASSUME TypeInv, GapInv, Receive
  PROVE  GapInv'
<1>1. /\ evQ # <<>> /\ evQ' = Tail(evQ) /\ evQ \in Seq(Message) /\ stored \in Nat
      /\ UNCHANGED <<loopVars, histVars, cmdQ>> /\ cmdQ \in Seq(Command) /\ LoopInv
  BY TypeInvIs DEF LoopInv, LoopTypes, ChannelsTypeOK, Receive
<1>2. contracts # {}  BY <1>1 DEF GapInv, LoopGap, BootPending
<1>3. 1 \in 1 .. Len(evQ) /\ Head(evQ) = evQ[1] /\ Head(evQ) \in Message
  BY <1>1
<1>4. Head(evQ).event.ledger \in Nat /\ Head(evQ).event.ledger < Frontier
  BY <1>2, <1>3, MessageEvent DEF GapInv, LoopGap, QueueBehind
<1>5. stored' \in {stored, Head(evQ).event.ledger} /\ stored <= stored' /\ stored' \in Nat
  BY <1>1, <1>4 DEF Receive, peerVars, Larger
<1>6. LoopGap'  BY <1>1, LoopGapOthers DEF GapInv
<1>7. UNCHANGED <<contracts, Frontier>>  BY <1>1 DEF loopVars, Frontier
<1>8. CommandsStored'
  <2>1. \A i \in 1 .. Len(cmdQ) : cmdQ[i] \in Command  BY <1>1
  <2>2. \A i \in 1 .. Len(cmdQ) : cmdQ[i].latest \in Nat  BY <2>1 DEF Command
  <2>. QED  BY <1>1, <1>5, <2>2 DEF GapInv, CommandsStored
<1>. QED
  BY <1>2, <1>4, <1>5, <1>6, <1>7, <1>8 DEF GapInv, BootQueued, StoredBehind

LEMMA RefreshGap ==
  ASSUME TypeInv, GapInv, NEW observed \in SUBSET Contracts, NEW latest \in 0 .. stored,
         NEW ops \in SUBSET Ops, Refresh(observed, latest, ops)
  PROVE  GapInv'
<1>. DEFINE c == [observed |-> observed, latest |-> latest, ops |-> ops]
<1>1. /\ peer = "refresh" /\ Factory \in observed /\ cmdQ' = Append(cmdQ, c)
      /\ UNCHANGED <<loopVars, histVars, evQ, stored>>
  BY DEF Refresh, Send
<1>2. LoopInv /\ cmdQ \in Seq(Command) /\ c \in Command /\ stored \in Nat
  BY TypeInvIs DEF LoopInv, LoopTypes, ChannelsTypeOK, Command
<1>3. contracts # {} /\ UNCHANGED <<contracts, Frontier>>
  BY <1>1 DEF GapInv, BootQueued, loopVars, Frontier
<1>4. latest < Frontier
  <2>1. Frontier \in Int  BY <1>2 DEF LoopInv, LoopTypes, LoopTypeOK, Frontier
  <2>. QED  BY <1>2, <1>3, <2>1 DEF GapInv, StoredBehind
<1>5. c.observed = observed /\ c.latest = latest  OBVIOUS
<1>. HIDE DEF c
<1>6. LoopGap'  BY <1>1, <1>2, <1>3, <1>4, <1>5, LoopGapOthers DEF GapInv
<1>7. CommandsStored'
  BY <1>1, <1>2, <1>5, AppendProperties DEF GapInv, CommandsStored
<1>. QED  BY <1>1, <1>3, <1>6, <1>7 DEF GapInv, BootQueued, StoredBehind

LEMMA GapNext ==
  ASSUME SingleBatch, TypeInv, GapInv, [Next]_vars
  PROVE  GapInv'
<1>1. CASE LoopStep /\ UNCHANGED peerVars  BY <1>1, LoopGapStep
<1>2. CASE Receive  BY <1>2, ReceiveGap
<1>3. ASSUME NEW observed \in SUBSET Contracts, NEW latest \in 0 .. stored,
             NEW ops \in SUBSET Ops, Refresh(observed, latest, ops)
      PROVE  GapInv'
  BY <1>3, RefreshGap
<1>4. CASE UNCHANGED <<loopVars, chanVars, histVars, stored>> /\ peer' \in {peer, "idle"}
  <2>1. LoopGap'  BY <1>4, TypeInvIs, LoopGapOthers DEF chanVars, GapInv
  <2>. QED
    BY <1>4, <2>1 DEF loopVars, chanVars, GapInv, BootQueued, CommandsStored, StoredBehind, Frontier
<1>. QED
  BY <1>1, <1>2, <1>3, <1>4 DEF Next, PeerStep, NetworkStep, Forgo, peerVars, vars

(***************************************************************************)
(* When the observed contracts fit in one getEvents filter, no event of an  *)
(* observed contract is passed over silently: retention gaps, replays,      *)
(* Hubble's lag, lagging nodes, failed fetches and refreshes included.      *)
(***************************************************************************)
THEOREM NoGap == ASSUME SingleBatch PROVE Spec => []NoSilentGap
<1>1. Init => TypeInv /\ GapInv  BY TypeInit, GapInit
<1>2. TypeInv /\ GapInv /\ [Next]_vars => (TypeInv /\ GapInv)'
  BY TypeNext, GapNext
<1>3. GapInv => NoSilentGap  BY DEF GapInv, LoopGap, Covered, NoSilentGap
<1>. QED  BY <1>1, <1>2, <1>3, PTL DEF Spec

(***************************************************************************)
(* ... and no event is handled twice.                                       *)
(***************************************************************************)
THEOREM HandledAtMostOnce == ASSUME SingleBatch PROVE Spec => []NothingHandledTwice
<1>1. Init => TypeInv /\ GapInv  BY TypeInit, GapInit
<1>2. TypeInv /\ GapInv /\ [Next]_vars => (TypeInv /\ GapInv)'
  BY TypeNext, GapNext
<1>3. GapInv => NothingHandledTwice  BY DEF GapInv, LoopGap, Covered, NothingHandledTwice
<1>. QED  BY <1>1, <1>2, <1>3, PTL DEF Spec

-----------------------------------------------------------------------------
\* Only a refusal gives ledgers up: by a live node nothing can stand in for, or
\* by the bounded replay.
LEMMA SkippedOnlyByRefusal ==
  ASSUME TypeInv, [Next]_vars, skipped' # skipped
  PROVE  /\ FetchRefused
         /\ skipped' = skipped \cup (cursor .. low[source] - 1)
         /\ \/ source = "live" /\ replay = "none"
            \/ source = "replay" /\ replay = "bounded"
<1>1. FetchRefused
  BY DEF Next, LoopStep, PeerStep, NetworkStep, DrainCommand, StartSweep, FetchBatch,
         FetchHubble, FetchFails, ForwardEvent, Post, DropEvent, Handle, FinishSweep, Receive,
         Forgo, Refresh, Send, histVars, vars
<1>2. /\ ClassifyFetchError(Attempt, low[source]) = "SkipGap" /\ OverRpc
      /\ skipped' = skipped \cup (cursor .. low[source] - 1)
  BY <1>1 DEF FetchRefused
<1>3. source \in {"live", "replay"}  BY DEF TypeInv, TypeOK, LoopTypeOK, ChannelsTypeOK, Endpoints
<1>4. ~(source = "live" /\ replay # "none")
  BY <1>2 DEF ClassifyFetchError, Attempt
<1>. QED  BY <1>1, <1>2, <1>3, <1>4 DEF OverRpc

(***************************************************************************)
(* With Hubble as the replay source no ledger is ever given up.             *)
(***************************************************************************)
THEOREM ArchivalKeepsHistory == Spec => []ArchivalSkipsNothing
<1>1. Init => TypeInv /\ ArchivalSkipsNothing
  BY TypeInit DEF Init, Boot, LoopInit, ArchivalSkipsNothing
<1>2. TypeInv /\ ArchivalSkipsNothing /\ [Next]_vars => (TypeInv /\ ArchivalSkipsNothing)'
  <2>. SUFFICES ASSUME TypeInv, ArchivalSkipsNothing, [Next]_vars
                PROVE  ArchivalSkipsNothing'
    BY TypeNext
  <2>1. replay' = replay
    BY DEF Next, LoopStep, PeerStep, NetworkStep, DrainCommand, StartSweep, FetchBatch,
           FetchHubble, FetchRefused, FetchFails, ForwardEvent, Post, DropEvent, Handle,
           FinishSweep, Receive, Forgo, Refresh, Send, loopVars, vars
  <2>2. skipped' # skipped => replay # "archival"  BY SkippedOnlyByRefusal
  <2>. QED  BY <2>1, <2>2 DEF ArchivalSkipsNothing
<1>. QED  BY <1>1, <1>2, PTL DEF Spec

\* The replay endpoint retains at least what the live one does.
Deeper == low["replay"] <= low["live"]

LEMMA DeeperNext == ASSUME ReplayIsDeeper, TypeInv, Deeper, [Next]_vars PROVE Deeper'
<1>. low["live"] \in Nat /\ low["replay"] \in Nat /\ low \in [Endpoints -> Nat]
  BY DEF TypeInv, TypeOK, LoopTypeOK, ChannelsTypeOK, NetworkTypeOK, Endpoints
<1>1. CASE Prune("live")  BY <1>1 DEF Prune, Deeper, Endpoints
<1>2. CASE Prune("replay")  BY <1>2 DEF Prune, Deeper, Endpoints
<1>3. CASE UNCHANGED low  BY <1>3 DEF Deeper
<1>. QED
  BY <1>1, <1>2, <1>3
  DEF Next, LoopStep, PeerStep, NetworkStep, CloseLedger, Ingest, DrainCommand, StartSweep,
      FetchBatch, FetchHubble, FetchRefused, FetchFails, ForwardEvent, Post, DropEvent, Handle,
      FinishSweep, Receive, Forgo, Refresh, Send, netVars, chanVars, vars

(***************************************************************************)
(* When the replay endpoint retains at least what the live one does, what   *)
(* is given up is out of reach of every source.                             *)
(***************************************************************************)
THEOREM SkipsOnlyUnreachable == ASSUME ReplayIsDeeper PROVE Spec => SkippedUnreachable
<1>1. Init => TypeInv /\ Deeper
  <2>1. Init => low = FirstLow  BY DEF Init, NetworkInit
  <2>. QED  BY <2>1, TypeInit DEF Deeper, Endpoints
<1>2. TypeInv /\ Deeper /\ [Next]_vars => (TypeInv /\ Deeper)'
  BY TypeNext, DeeperNext
<1>3. ASSUME TypeInv, Deeper, [Next]_vars, NEW l \in skipped' \ skipped
      PROVE  l < low["live"] /\ (replay = "bounded" => l < low["replay"]) /\ replay # "archival"
  <2>. low["live"] \in Nat /\ low["replay"] \in Nat /\ cursor \in Nat
    BY <1>3 DEF TypeInv, TypeOK, LoopTypeOK, ChannelsTypeOK, NetworkTypeOK, Endpoints
  <2>1. /\ l \in cursor .. low[source] - 1
        /\ \/ source = "live" /\ replay = "none"
           \/ source = "replay" /\ replay = "bounded"
    BY <1>3, SkippedOnlyByRefusal
  <2>. QED  BY <1>3, <2>1 DEF Deeper
<1>4. TypeInv /\ Deeper /\ [Next]_vars =>
        [\A l \in skipped' \ skipped :
           /\ l < low["live"]
           /\ replay = "bounded" => l < low["replay"]
           /\ replay # "archival"]_vars
  BY <1>3
<1>. QED  BY <1>1, <1>2, <1>4, PTL DEF Spec, SkippedUnreachable

=============================================================================
