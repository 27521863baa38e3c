----------------------------- MODULE LoopProofs ------------------------------
(***************************************************************************)
(* What each step of the event loop preserves, whatever runs beside it: the *)
(* lemmas that the theorems about the indexer (IndexerProofs) and about the *)
(* whole worker (WorkerProofs) share.                                       *)
(***************************************************************************)
EXTENDS EventLoop, FiniteSetTheorems, SequenceTheorems, TLAPS

USE NetworkAssumption, ChannelsAssumption, EventLoopAssumption

-----------------------------------------------------------------------------
\* What the helpers return.

LEMMA LargerIs ==
  ASSUME NEW a \in Int, NEW b \in Int
  PROVE  /\ Larger(a, b) \in {a, b} /\ a <= Larger(a, b) /\ b <= Larger(a, b)
         /\ Larger(a, b) \in Int
         /\ a \in Nat \/ b \in Nat => Larger(a, b) \in Nat
BY DEF Larger

LEMMA SmallerIs ==
  ASSUME NEW a \in Int, NEW b \in Int
  PROVE  /\ Smaller(a, b) \in {a, b} /\ Smaller(a, b) <= a /\ Smaller(a, b) <= b
         /\ Smaller(a, b) \in Int
         /\ a \in Nat /\ b \in Nat => Smaller(a, b) \in Nat
BY DEF Smaller

LEMMA EventLedger == ASSUME NEW e \in Events
                     PROVE  e.ledger \in Nat /\ e.contract \in Contracts
BY DEF Event

LEMMA MessageEvent == ASSUME NEW m \in Message
                      PROVE  m.event \in Events /\ m.event.ledger \in Nat
BY EventLedger DEF Message

LEMMA MessageOf == ASSUME NEW e \in Events
                   PROVE  [event |-> e, hash |-> EventHash(e)] \in Message
<1>1. HubbleIndex(e) \in Nat
  <2>. DEFINE S == {f \in Events : f.tx = e.tx /\ f.contract = e.contract /\ f.pos < e.pos}
  <2>1. IsFiniteSet(S)  BY FS_Subset
  <2>2. Cardinality(S) \in Nat  BY <2>1, FS_CardinalityType
  <2>. QED  BY <2>2 DEF HubbleIndex
<1>. QED  BY <1>1 DEF Message, Hash, EventHash, Event

LoopTypes == NetworkTypeOK /\ LoopTypeOK /\ ChannelsTypeOK

\* A batch never resumes below the cursor.
LEMMA BatchNextIsAhead ==
  ASSUME LoopTypes, NEW h \in Nat, NEW B, NEW n \in BatchNext(Visible(cursor, h, B), h)
  PROVE  n \in Nat /\ cursor <= n
<1>. DEFINE found == Visible(cursor, h, B)
<1>0. cursor \in Nat  BY DEF LoopTypes, LoopTypeOK, ChannelsTypeOK
<1>1. CASE found = {}
  <2>1. n = Larger(h + 1, cursor)  BY <1>1 DEF BatchNext
  <2>. QED  BY <2>1, <1>0, LargerIs
<1>2. CASE found # {}
  <2>1. PICK m \in Maxima({e.ledger : e \in found}) : n = m + 1
    BY <1>2 DEF BatchNext
  <2>2. PICK e \in found : m = e.ledger  BY <2>1 DEF Maxima
  <2>3. e \in Events /\ cursor <= e.ledger  BY <2>2 DEF Visible
  <2>. QED  BY <2>1, <2>2, <2>3, <1>0, EventLedger
<1>. QED  BY <1>1, <1>2

\* The cursor a sweep returns is not below the one it started from.
NextAhead ==
  /\ pc = "fetch" => next = -1 \/ cursor <= next
  /\ pc = "forward" => cursor <= next

LEMMA LowestNextIsAhead ==
  ASSUME LoopTypes, NextAhead, pc = "fetch", NEW n \in Nat, cursor <= n
  PROVE  LowestNext(n) \in Nat /\ cursor <= LowestNext(n)
BY SmallerIs DEF LoopTypes, LoopTypeOK, ChannelsTypeOK, NextAhead, LowestNext, Smaller

-----------------------------------------------------------------------------
LoopInv == LoopTypes /\ NextAhead

LEMMA DrainCursorIsAhead ==
  ASSUME LoopTypes, NEW latest \in Nat
  PROVE  /\ DrainCursor(latest) \in Nat /\ cursor <= DrainCursor(latest)
         /\ StartLedger <= DrainCursor(latest) /\ latest < DrainCursor(latest)
         /\ DrainCursor(latest) \in {cursor, latest + 1, StartLedger}
BY DEF LoopTypes, LoopTypeOK, ChannelsTypeOK, DrainCursor, Larger

LEMMA NetworkStepType == LoopTypes /\ NetworkStep => NetworkTypeOK'
<1>. SUFFICES ASSUME LoopTypes, NetworkStep PROVE NetworkTypeOK'  OBVIOUS
<1>1. CASE CloseLedger  BY <1>1 DEF LoopTypes, LoopTypeOK, ChannelsTypeOK, NetworkTypeOK, CloseLedger
<1>2. ASSUME NEW s \in Endpoints, Prune(s) PROVE NetworkTypeOK'
  BY <1>2 DEF LoopTypes, LoopTypeOK, ChannelsTypeOK, NetworkTypeOK, Prune
<1>3. CASE Ingest  BY <1>3 DEF LoopTypes, LoopTypeOK, ChannelsTypeOK, NetworkTypeOK, Ingest
<1>. QED  BY <1>1, <1>2, <1>3 DEF NetworkStep, Endpoints

LEMMA DrainCommandType == LoopInv /\ DrainCommand => LoopInv'
<1>. SUFFICES ASSUME LoopInv, DrainCommand PROVE LoopInv'  OBVIOUS
<1>. DEFINE c == Head(cmdQ)
<1>1. c \in Command /\ Tail(cmdQ) \in Seq(Command)
  BY DEF LoopInv, LoopTypes, LoopTypeOK, ChannelsTypeOK, DrainCommand
<1>2. c.observed \subseteq Contracts /\ c.latest \in Nat /\ c.ops \subseteq Ops
  BY <1>1 DEF Command
<1>3. cursor' \in Nat  BY <1>2, DrainCursorIsAhead DEF LoopInv, DrainCommand
<1>4. since' \in [Contracts -> Nat]
  BY <1>3 DEF LoopInv, LoopTypes, LoopTypeOK, ChannelsTypeOK, DrainCommand
<1>. QED
  BY <1>1, <1>2, <1>3, <1>4
  DEF LoopInv, LoopTypes, LoopTypeOK, ChannelsTypeOK, NextAhead, DrainCommand, netVars, NetworkTypeOK

LEMMA SweepReturnsType ==
  ASSUME LoopInv, NEW S \in SUBSET Events, NEW n \in Nat, cursor <= n,
         SweepReturns(S, n),
         UNCHANGED <<netVars, replay, contracts, fopid_to_opid, cursor,
                     retention_floor, source, chanVars, histVars>>,
         faults' \in Nat
  PROVE  LoopInv'
BY DEF LoopInv, LoopTypes, LoopTypeOK, ChannelsTypeOK, NextAhead, SweepReturns, netVars, NetworkTypeOK, chanVars,
       histVars

LEMMA FetchBatchType ==
  ASSUME LoopInv, NEW B \in SUBSET todo, NEW h \in low[source] .. tip, FetchBatch(B, h)
  PROVE  LoopInv'
<1>. DEFINE found == Visible(cursor, h, B)
<1>1. h \in Nat /\ cursor \in Nat /\ faults' \in Nat
  <2>1. low[source] \in Nat /\ cursor \in Nat /\ tip \in Nat /\ faults \in Nat
    BY DEF LoopInv, LoopTypes, LoopTypeOK, NetworkTypeOK
  <2>2. /\ h < tip => faults > 0
        /\ faults' = IF h < tip THEN faults - 1 ELSE faults
    BY DEF FetchBatch
  <2>. QED  BY <2>1, <2>2
<1>2. PICK n \in BatchNext(found, h) :
        LET gathered == merged \cup found
            lowest == LowestNext(n) IN
        IF B # todo
          THEN /\ merged' = gathered /\ next' = lowest /\ todo' = todo \ B
               /\ pc' = pc
          ELSE IF source = "live"
            THEN SweepReturns(gathered, lowest)
            ELSE SweepReturns(Truncated(gathered), TruncatedNext(lowest))
  BY DEF FetchBatch
<1>. DEFINE gathered == merged \cup found
            lowest == LowestNext(n)
<1>3. gathered \subseteq Events  BY DEF LoopInv, LoopTypes, LoopTypeOK, ChannelsTypeOK, Visible
<1>4. lowest \in Nat /\ cursor <= lowest
  BY <1>1, BatchNextIsAhead, LowestNextIsAhead DEF LoopInv, FetchBatch
<1>5. /\ Truncated(gathered) \subseteq Events
      /\ TruncatedNext(lowest) \in Nat /\ cursor <= TruncatedNext(lowest)
  BY <1>1, <1>3, <1>4 DEF Truncated, TruncatedNext, BackfillCeiling, Smaller
<1>6. UNCHANGED <<netVars, replay, contracts, fopid_to_opid, cursor, retention_floor,
                  source, chanVars, histVars>>
  BY DEF FetchBatch
<1>7. CASE B # todo
  BY <1>1, <1>2, <1>3, <1>4, <1>6, <1>7
  DEF LoopInv, LoopTypes, LoopTypeOK, ChannelsTypeOK, NextAhead, FetchBatch, netVars, NetworkTypeOK, chanVars, histVars
<1>8. CASE B = todo
  BY <1>1, <1>2, <1>3, <1>4, <1>5, <1>6, <1>8, SweepReturnsType
<1>. QED  BY <1>7, <1>8

LEMMA FetchHubbleType == LoopInv /\ FetchHubble => LoopInv'
<1>. SUFFICES ASSUME LoopInv, FetchHubble PROVE LoopInv'  OBVIOUS
<1>. DEFINE last == Smaller(cursor + MaxSpan - 1, ingested)
<1>1. cursor \in Nat /\ ingested \in Nat /\ faults' \in Nat
  BY DEF LoopInv, LoopTypes, LoopTypeOK, ChannelsTypeOK, NetworkTypeOK, FetchHubble
<1>2. CASE ingested < cursor
  BY <1>1, <1>2, SweepReturnsType DEF FetchHubble
<1>3. CASE ~(ingested < cursor)
  <2>1. last + 1 \in Nat /\ cursor <= last + 1  BY <1>1, <1>3 DEF Smaller
  <2>2. Visible(cursor, last, contracts) \ Garbled \subseteq Events  BY DEF Visible
  <2>. QED  BY <1>1, <1>3, <2>1, <2>2, SweepReturnsType DEF FetchHubble
<1>. QED  BY <1>2, <1>3

LEMMA FetchRefusedType == LoopInv /\ FetchRefused => LoopInv'
<1>. SUFFICES ASSUME LoopInv, FetchRefused PROVE LoopInv'  OBVIOUS
<1>1. low[source] \in Nat /\ cursor \in Nat
  BY DEF LoopInv, LoopTypes, LoopTypeOK, ChannelsTypeOK, NetworkTypeOK
<1>2. cursor' \in Nat /\ skipped' \subseteq Nat /\ retention_floor' \in Nat
  <2>. DEFINE floor == low[source]
              recovery == ClassifyFetchError(Attempt, floor)
  <2>1. retention_floor' \in {retention_floor, floor}  BY DEF FetchRefused
  <2>2. \/ cursor' = floor /\ skipped' = skipped \cup (cursor .. floor - 1)
        \/ cursor' = cursor /\ skipped' = skipped
    BY DEF FetchRefused
  <2>3. floor \in Nat /\ cursor .. floor - 1 \subseteq Nat  BY <1>1
  <2>4. retention_floor \in Nat /\ skipped \subseteq Nat  BY DEF LoopInv, LoopTypes, LoopTypeOK, ChannelsTypeOK
  <2>. HIDE DEF floor, recovery
  <2>. QED  BY <1>1, <2>1, <2>2, <2>3, <2>4
<1>3. refused' \in Endpoints \X (Nat \cup {-1})
  BY <1>1 DEF LoopInv, LoopTypes, LoopTypeOK, ChannelsTypeOK, FetchRefused
<1>. QED
  BY <1>1, <1>2, <1>3
  DEF LoopInv, LoopTypes, LoopTypeOK, ChannelsTypeOK, NextAhead, FetchRefused, netVars, NetworkTypeOK, chanVars

LEMMA HandleType ==
  ASSUME LoopInv, NEW e \in merged, Handle(e), evQ' \in Seq(Message)
  PROVE  LoopInv'
BY DEF LoopInv, LoopTypes, LoopTypeOK, ChannelsTypeOK, NextAhead, Handle, netVars, NetworkTypeOK


LEMMA LoopInvNext == LoopInv /\ LoopStep => LoopInv'
<1>. SUFFICES ASSUME LoopInv, LoopStep PROVE LoopInv'  OBVIOUS
<1>1. CASE StartSweep
  BY <1>1 DEF LoopInv, LoopTypes, LoopTypeOK, ChannelsTypeOK, NextAhead, StartSweep, ActiveSource,
              Endpoints, netVars, NetworkTypeOK, chanVars, histVars
<1>2. CASE FetchFails
  BY SMTT(30), <1>2 DEF LoopInv, LoopTypes, LoopTypeOK, ChannelsTypeOK, NextAhead, FetchFails, netVars,
              NetworkTypeOK, chanVars, histVars
<1>3. ASSUME NEW e \in merged, ForwardEvent(e) \/ DropEvent(e)
      PROVE  LoopInv'
  <2>0. e \in Events /\ evQ \in Seq(Message)
    BY <1>3 DEF LoopInv, LoopTypes, LoopTypeOK, ChannelsTypeOK
  <2>1. evQ' \in Seq(Message)
    BY <1>3, <2>0, MessageOf, AppendProperties DEF ForwardEvent, Post, DropEvent
  <2>. QED  BY <1>3, <2>1, HandleType DEF ForwardEvent, Post, DropEvent
<1>4. CASE FinishSweep
  BY <1>4 DEF LoopInv, LoopTypes, LoopTypeOK, ChannelsTypeOK, NextAhead, FinishSweep, netVars,
              NetworkTypeOK, chanVars, histVars
<1>. QED
  BY <1>1, <1>2, <1>3, <1>4, DrainCommandType, FetchBatchType, FetchHubbleType, FetchRefusedType
  DEF LoopStep

LEMMA LoopInvNetwork == LoopInv /\ NetworkStep => LoopInv'
<1>. SUFFICES ASSUME LoopInv, NetworkStep PROVE LoopInv'  OBVIOUS
<1>1. NetworkTypeOK'  BY NetworkStepType DEF LoopInv
<1>2. UNCHANGED <<loopVars, chanVars, histVars>>  BY DEF NetworkStep
<1>. QED
  BY <1>1, <1>2
  DEF LoopInv, LoopTypes, LoopTypeOK, ChannelsTypeOK, NextAhead, loopVars, chanVars, histVars

\* Any other task leaves the loop and the network alone.
LEMMA LoopInvOthers ==
  ASSUME LoopInv, UNCHANGED <<netVars, loopVars, histVars>>, ChannelsTypeOK'
  PROVE  LoopInv'
BY DEF LoopInv, LoopTypes, LoopTypeOK, NetworkTypeOK, NextAhead, netVars, loopVars, histVars

\* The cursor rises with a command, at the end of a sweep and over a gap; it is
\* left alone otherwise.
LEMMA CursorRises == ASSUME LoopInv, LoopStep PROVE cursor <= cursor'
<1>. cursor \in Nat /\ low[source] \in Nat
  BY DEF LoopInv, LoopTypes, LoopTypeOK, NetworkTypeOK
<1>1. CASE DrainCommand
  <2>1. Head(cmdQ) \in Command
    BY <1>1 DEF LoopInv, LoopTypes, ChannelsTypeOK, DrainCommand
  <2>2. Head(cmdQ).latest \in Nat  BY <2>1 DEF Command
  <2>. QED  BY <1>1, <2>2, DrainCursorIsAhead DEF DrainCommand, LoopInv
<1>2. CASE FinishSweep  BY <1>2 DEF LoopInv, NextAhead, FinishSweep
<1>3. CASE FetchRefused
  <2>1. cursor' = low[source] \/ cursor' = cursor  BY <1>3 DEF FetchRefused
  <2>2. cursor < low[source]  BY <1>3 DEF FetchRefused
  <2>. QED  BY <2>1, <2>2
<1>4. CASE ~(DrainCommand \/ FinishSweep \/ FetchRefused)
  <2>1. UNCHANGED cursor
    BY <1>4 DEF LoopStep, StartSweep, FetchBatch, FetchHubble, FetchFails, ForwardEvent, DropEvent,
                Handle
  <2>. QED  BY <2>1
<1>. QED  BY <1>1, <1>2, <1>3, <1>4

-----------------------------------------------------------------------------
(***************************************************************************)
(* The bookkeeping that keeps the log without gaps when a sweep fits in one *)
(* batch.  `Frontier' is the ledger the loop is about to resume from: no    *)
(* event on its way to the other task, and no block a command reports, lies *)
(* at or past it, so a refresh cannot lift the cursor over anything not     *)
(* fetched yet.                                                             *)
(***************************************************************************)
Frontier == IF pc = "forward" THEN next ELSE cursor

\* Until the boot command is drained nothing else can be in flight.
BootPending == contracts = {} => pc = "drain" /\ evQ = <<>> /\ Len(cmdQ) <= 1

CommandsBehind ==
  \A i \in 1 .. Len(cmdQ) :
    Factory \in cmdQ[i].observed /\ (contracts # {} => cmdQ[i].latest < Frontier)

QueueBehind ==
  /\ StartLedger <= cursor
  /\ contracts # {} => \A i \in 1 .. Len(evQ) : evQ[i].event.ledger < Frontier

SweepWhole == pc = "fetch" => todo = contracts /\ merged = {} /\ next = -1

\* What a sweep holds covers the ledgers it is about to put behind the cursor.
Covered ==
  /\ Due(cursor) \subseteq handled
  /\ \A e \in handled : e.ledger < Frontier
  /\ pc = "forward" =>
       /\ Due(next) \subseteq handled \cup merged
       /\ \A e \in merged : cursor <= e.ledger /\ e.ledger < next /\ e \notin handled

LoopGap == BootPending /\ CommandsBehind /\ QueueBehind /\ SweepWhole /\ Covered

SingleBatch == IsFiniteSet(Contracts) /\ Cardinality(Contracts) <= BatchCap

\* A step of the loop never lowers its frontier.
LEMMA FrontierRises ==
  ASSUME LoopInv, LoopStep
  PROVE  /\ Frontier <= Frontier'
         /\ UNCHANGED contracts \/ DrainCommand
         /\ UNCHANGED cmdQ \/ DrainCommand
<1>1. cursor <= cursor' /\ cursor \in Nat /\ next \in Nat \cup {-1} /\ cursor' \in Nat
  BY CursorRises, LoopInvNext DEF LoopInv, LoopTypes, LoopTypeOK
<1>2. pc = "forward" => UNCHANGED <<pc, next>> \/ FinishSweep
  BY DEF LoopStep, DrainCommand, StartSweep, FetchBatch, FetchHubble, FetchRefused, FetchFails,
         ForwardEvent, DropEvent, Handle
<1>3. pc # "forward" /\ pc' = "forward" => cursor' <= next'
  BY LoopInvNext DEF LoopInv, NextAhead
<1>4. FinishSweep => cursor' = next /\ pc' = "drain"  BY DEF FinishSweep
<1>5. next' \in Nat \cup {-1}  BY LoopInvNext DEF LoopInv, LoopTypes, LoopTypeOK
<1>6. Frontier <= Frontier'  BY <1>1, <1>2, <1>3, <1>4, <1>5 DEF Frontier
<1>. QED
  BY <1>6 DEF LoopStep, StartSweep, FetchBatch, FetchHubble, FetchRefused, FetchFails,
              ForwardEvent, DropEvent, Handle, FinishSweep, chanVars

LEMMA LoopGapInit ==
  LoopInit /\ evQ = <<>> /\ Len(cmdQ) <= 1
    /\ (\A i \in 1 .. Len(cmdQ) : Factory \in cmdQ[i].observed) => LoopGap
BY DEF LoopInit, LoopGap, BootPending, CommandsBehind, QueueBehind, SweepWhole, Covered, Due, Frontier

\* With a single batch, a batch is the whole sweep.
LEMMA BatchIsSweep ==
  ASSUME SingleBatch, LoopInv, todo = contracts, NEW B \in SUBSET todo,
         Cardinality(B) = Smaller(BatchCap, Cardinality(todo))
  PROVE  B = todo
<1>1. IsFiniteSet(todo) /\ Cardinality(todo) <= Cardinality(Contracts)
  BY FS_Subset DEF SingleBatch, LoopInv, LoopTypes, LoopTypeOK
<1>2. Cardinality(todo) \in Nat /\ Cardinality(Contracts) \in Nat
  BY <1>1, FS_CardinalityType DEF SingleBatch
<1>3. Cardinality(B) = Cardinality(todo)  BY <1>1, <1>2 DEF Smaller, SingleBatch
<1>. QED  BY <1>1, <1>3, FS_Subset

\* A batch returned every event between the cursor and where it resumes.
LEMMA BatchIsComplete ==
  ASSUME LoopInv, NEW h \in Nat, NEW B, NEW n \in BatchNext(Visible(cursor, h, B), h),
         NEW e \in Events, cursor <= e.ledger, e.ledger < n, e.contract \in B
  PROVE  e \in Visible(cursor, h, B)
<1>. DEFINE found == Visible(cursor, h, B)
<1>. cursor \in Nat /\ e.ledger \in Nat  BY EventLedger DEF LoopInv, LoopTypes, LoopTypeOK, ChannelsTypeOK
<1>1. CASE found = {}
  <2>1. n = Larger(h + 1, cursor)  BY <1>1 DEF BatchNext
  <2>2. e.ledger <= h  BY <2>1 DEF Larger
  <2>. QED  BY <2>2 DEF Visible
<1>2. CASE found # {}
  <2>1. PICK m \in Maxima({f.ledger : f \in found}) : n = m + 1
    BY <1>2 DEF BatchNext
  <2>2. PICK f \in found : m = f.ledger  BY <2>1 DEF Maxima
  <2>3. f.ledger \in Nat /\ f.ledger <= h  BY <2>2, EventLedger DEF Visible
  <2>4. e.ledger <= h  BY <2>1, <2>2, <2>3
  <2>. QED  BY <2>4 DEF Visible
<1>. QED  BY <1>1, <1>2

\* ... and nothing at or past where it resumes.
LEMMA BatchIsBelow ==
  ASSUME NEW h \in Nat, NEW B, NEW n \in BatchNext(Visible(cursor, h, B), h),
         NEW e \in Visible(cursor, h, B)
  PROVE  e.ledger < n /\ cursor <= e.ledger
<1>1. PICK m \in Maxima({f.ledger : f \in Visible(cursor, h, B)}) : n = m + 1
  BY DEF BatchNext
<1>2. m \in Nat /\ e.ledger <= m /\ e.ledger \in Nat
  BY <1>1, EventLedger DEF Maxima, Visible
<1>. QED  BY <1>1, <1>2 DEF Visible

\* The end of a fetch: what it must return to keep the invariant.
LEMMA SweepReturnsGap ==
  ASSUME LoopInv, LoopGap, pc = "fetch", contracts # {},
         NEW S \in SUBSET Events, NEW n \in Nat, cursor <= n,
         \A e \in S : cursor <= e.ledger /\ e.ledger < n,
         \A e \in Events \ Garbled :
            cursor <= e.ledger /\ e.ledger < n /\ e.contract \in contracts => e \in S,
         SweepReturns(S, n),
         UNCHANGED <<contracts, cursor, chanVars, histVars>>
  PROVE  LoopGap'
<1>. /\ merged' = S /\ next' = n /\ pc' = "forward"
     /\ UNCHANGED <<contracts, cursor, evQ, cmdQ, since, handled, skipped>>
  BY DEF SweepReturns, chanVars, histVars
<1>. cursor \in Nat /\ handled \subseteq Events /\ evQ \in Seq(Message) /\ cmdQ \in Seq(Command)
  BY DEF LoopInv, LoopTypes, LoopTypeOK, ChannelsTypeOK
<1>0. Frontier = cursor /\ Frontier' = n  BY DEF Frontier
<1>1. BootPending' /\ SweepWhole'  BY DEF LoopGap, BootPending, SweepWhole
<1>2. CommandsBehind'
  <2>1. \A i \in 1 .. Len(cmdQ) : cmdQ[i] \in Command  BY ElementOfSeq
  <2>2. \A i \in 1 .. Len(cmdQ) : cmdQ[i].latest \in Nat  BY <2>1 DEF Command
  <2>. QED  BY <1>0, <2>2 DEF LoopGap, CommandsBehind
<1>3. QueueBehind'
  <2>1. \A i \in 1 .. Len(evQ) : evQ[i].event.ledger \in Nat  BY ElementOfSeq, MessageEvent
  <2>2. \A i \in 1 .. Len(evQ) : evQ[i].event.ledger < n
    <3> SUFFICES ASSUME NEW i \in 1 .. Len(evQ) PROVE evQ[i].event.ledger < n
      OBVIOUS
    <3>1. evQ[i].event.ledger < cursor
      BY <1>0 DEF LoopGap, QueueBehind
    <3> QED
      BY ONLY <2>1, <3>1, cursor \in Nat, n \in Nat, cursor <= n, i \in 1 .. Len(evQ)
  <2>. QED  BY <1>0, <2>2 DEF LoopGap, QueueBehind
<1>4. Covered'
  <2>1. Due(cursor)' = Due(cursor)  BY DEF Due
  <2>2. \A e \in handled : e.ledger < cursor /\ e.ledger \in Nat
    BY <1>0, EventLedger DEF LoopGap, Covered
  <2>3. ASSUME NEW e \in Due(n)' PROVE e \in handled \cup S
    <3>1. /\ e \in Events \ Garbled /\ e.contract \in contracts /\ e.ledger < n
          /\ e.ledger < cursor => e \in Due(cursor)
      BY <2>3 DEF Due
    <3>2. CASE e.ledger < cursor  BY <3>1, <3>2 DEF LoopGap, Covered
    <3>3. CASE ~(e.ledger < cursor)  BY <3>1, <3>3, EventLedger
    <3>. QED  BY <3>2, <3>3
  <2>4. \A e \in S : e \notin handled  BY SMTT(30), <2>2, EventLedger
  <2>5. \A e \in handled : e.ledger < n  BY <2>2
  <2>6. Due(next)' = Due(n)'  BY DEF Due
  <2>. QED  BY <1>0, <2>1, <2>3, <2>4, <2>5, <2>6 DEF Covered, LoopGap
<1>. QED  BY <1>1, <1>2, <1>3, <1>4 DEF LoopGap

LEMMA DrainCommandGap ==
  ASSUME LoopInv, LoopInv', LoopGap, DrainCommand
  PROVE  LoopGap'
<1>. DEFINE c == Head(cmdQ)
<1>1. cmdQ # <<>> /\ cmdQ \in Seq(Command) /\ cmdQ' = Tail(cmdQ)
  BY DEF LoopInv, LoopTypes, ChannelsTypeOK, DrainCommand
<1>2. /\ c \in Command /\ c = cmdQ[1] /\ 1 \in 1 .. Len(cmdQ)
      /\ Len(cmdQ') = Len(cmdQ) - 1 /\ Len(cmdQ) \in Nat
      /\ \A i \in 1 .. Len(cmdQ') : cmdQ'[i] = cmdQ[i + 1]
  BY <1>1
<1>3. c.latest \in Nat /\ Factory \in c.observed /\ (contracts # {} => c.latest < Frontier)
  BY <1>2 DEF LoopGap, CommandsBehind, Command
<1>4. /\ cursor \in Nat /\ cursor' \in Nat
      /\ evQ \in Seq(Message) /\ evQ' = evQ /\ handled \subseteq Events
      /\ since \in [Contracts -> Nat]
  BY DEF LoopInv, LoopTypes, LoopTypeOK, ChannelsTypeOK, DrainCommand
<1>5. /\ pc = "drain" /\ pc' = "drain" /\ handled' = handled /\ skipped' = skipped
      /\ contracts' = contracts \cup c.observed
      /\ since' = [d \in Contracts |->
                     IF d \in c.observed \ contracts THEN cursor' ELSE since[d]]
      /\ cursor' = DrainCursor(c.latest)
  BY DEF DrainCommand
<1>6. /\ cursor <= cursor' /\ c.latest < cursor' /\ StartLedger <= cursor'
      /\ cursor' \in {cursor, c.latest + 1, StartLedger}
  BY <1>3, <1>5, DrainCursorIsAhead DEF LoopInv
<1>7. contracts # {} => cursor' = cursor
  BY <1>3, <1>4, <1>5, <1>6 DEF LoopGap, QueueBehind, Frontier
<1>8. contracts = {} => evQ = <<>> /\ Len(cmdQ') = 0
  BY <1>2 DEF LoopGap, BootPending
<1>9. BootPending' /\ SweepWhole'  BY <1>3, <1>5 DEF BootPending, SweepWhole
<1>10. CommandsBehind'
  <2>1. CASE contracts = {}  BY <1>8, <2>1 DEF CommandsBehind
  <2>2. CASE contracts # {}
    BY <1>2, <1>5, <1>7, <2>2 DEF LoopGap, CommandsBehind, Frontier
  <2>. QED  BY <2>1, <2>2
<1>11. QueueBehind'
  <2>1. CASE contracts = {}  BY <1>4, <1>6, <1>8, <2>1 DEF QueueBehind
  <2>2. CASE contracts # {}
    BY <1>4, <1>5, <1>6, <1>7, <2>2 DEF LoopGap, QueueBehind, Frontier
  <2>. QED  BY <2>1, <2>2
<1>12. Covered'
  <2>1. ASSUME NEW e \in Due(cursor)' PROVE e \in handled
    <3>1. /\ e \in Events \ Garbled /\ e.contract \in contracts' /\ e.contract \in Contracts
          /\ since'[e.contract] <= e.ledger /\ e.ledger < cursor'
          /\ e.ledger \notin skipped /\ e.ledger \in Nat
      BY <1>5, <2>1, EventLedger DEF Due
    <3>2. e.contract \in contracts  BY <1>4, <1>5, <3>1
    <3>3. since'[e.contract] = since[e.contract]  BY <1>5, <3>1, <3>2
    <3>4. e \in Due(cursor)  BY <1>7, <3>1, <3>2, <3>3 DEF Due
    <3>. QED  BY <3>4 DEF LoopGap, Covered
  <2>2. \A e \in handled : e.ledger < cursor'
    BY <1>4, <1>5, <1>6, EventLedger DEF LoopGap, Covered, Frontier
  <2>. QED  BY <1>5, <2>1, <2>2 DEF Covered, Frontier
<1>. QED  BY <1>9, <1>10, <1>11, <1>12 DEF LoopGap

LEMMA FetchBatchGap ==
  ASSUME SingleBatch, LoopInv, LoopGap,
         NEW B \in SUBSET todo, NEW h \in low[source] .. tip, FetchBatch(B, h)
  PROVE  LoopGap'
<1>. DEFINE found == Visible(cursor, h, B)
<1>1. h \in Nat /\ cursor \in Nat /\ pc = "fetch"
  BY SMTT(30) DEF LoopInv, LoopTypes, LoopTypeOK, ChannelsTypeOK, NetworkTypeOK, FetchBatch
<1>2. todo = contracts /\ merged = {} /\ next = -1 /\ contracts # {}
  BY <1>1 DEF LoopGap, SweepWhole, BootPending
<1>3. B = todo  BY <1>2, BatchIsSweep DEF FetchBatch
<1>4. PICK n \in BatchNext(found, h) :
        IF source = "live"
          THEN SweepReturns(found, n)
          ELSE SweepReturns(Truncated(found), TruncatedNext(n))
  BY <1>2, <1>3 DEF FetchBatch, LowestNext
<1>5. n \in Nat /\ cursor <= n  BY <1>1, BatchNextIsAhead DEF LoopInv
<1>6. \A e \in found : e \in Events /\ e.ledger \in Nat /\ cursor <= e.ledger /\ e.ledger < n
  BY <1>1, BatchIsBelow, EventLedger DEF Visible
<1>7. \A e \in Events :
        cursor <= e.ledger /\ e.ledger < n /\ e.contract \in contracts => e \in found
  BY <1>1, <1>2, <1>3, BatchIsComplete
<1>8. UNCHANGED <<contracts, cursor, chanVars, histVars>>  BY DEF FetchBatch, chanVars, histVars
<1>. HIDE DEF found
<1>9. CASE source = "live"
  <2>1. SweepReturns(found, n)  BY <1>4, <1>9
  <2>. QED  BY <1>1, <1>2, <1>5, <1>6, <1>7, <1>8, <2>1, SweepReturnsGap
<1>10. CASE source # "live"
  <2>. DEFINE S == Truncated(found)
              m == TruncatedNext(n)
  <2>1. SweepReturns(S, m)  BY <1>4, <1>10
  <2>2. m \in Nat /\ cursor <= m /\ m <= n /\ m \in {n, cursor + MaxSpan + 1}
    BY <1>1, <1>5 DEF TruncatedNext, BackfillCeiling, Smaller
  <2>3. S \subseteq Events /\ \A e \in S : cursor <= e.ledger /\ e.ledger < m
    <3>1. \A e \in S : e \in found /\ e.ledger <= cursor + MaxSpan
      BY DEF Truncated, BackfillCeiling
    <3>. QED  BY <1>1, <1>6, <2>2, <3>1
  <2>4. \A e \in Events \ Garbled :
          cursor <= e.ledger /\ e.ledger < m /\ e.contract \in contracts => e \in S
    <3>1. ASSUME NEW e \in Events, cursor <= e.ledger, e.ledger < m, e.contract \in contracts
          PROVE  e \in S
      <4>1. e.ledger \in Nat  BY EventLedger
      <4>2. m <= cursor + MaxSpan + 1
        BY <1>1, <1>5 DEF TruncatedNext, BackfillCeiling, Smaller
      <4>3. e.ledger < n /\ e.ledger <= cursor + MaxSpan
        BY <1>1, <1>5, <2>2, <3>1, <4>1, <4>2
      <4>. QED  BY <1>7, <3>1, <4>3 DEF Truncated, BackfillCeiling
    <3>. QED  BY <3>1
  <2>. HIDE DEF S, m
  <2>. QED  BY <1>1, <1>2, <1>8, <2>1, <2>2, <2>3, <2>4, SweepReturnsGap
<1>. QED  BY <1>9, <1>10

LEMMA FetchHubbleGap ==
  ASSUME LoopInv, LoopGap, FetchHubble
  PROVE  LoopGap'
<1>. DEFINE last == Smaller(cursor + MaxSpan - 1, ingested)
            S == Visible(cursor, last, contracts) \ Garbled
<1>1. /\ ingested \in Nat /\ cursor \in Nat /\ pc = "fetch"
      /\ UNCHANGED <<contracts, cursor, chanVars, histVars>>
  BY DEF LoopInv, LoopTypes, LoopTypeOK, ChannelsTypeOK, NetworkTypeOK, FetchHubble
<1>2. contracts # {}  BY <1>1 DEF LoopGap, BootPending
<1>3. CASE ingested < cursor
  <2>1. SweepReturns({}, cursor)  BY <1>3 DEF FetchHubble
  <2>2. \A e \in Events : ~(cursor <= e.ledger /\ e.ledger < cursor)  BY <1>1, EventLedger
  <2>. QED  BY <1>1, <1>2, <2>1, <2>2, SweepReturnsGap
<1>4. CASE ~(ingested < cursor)
  <2>1. SweepReturns(S, last + 1)  BY <1>4 DEF FetchHubble
  <2>2. last \in Nat /\ cursor <= last + 1  BY <1>1, <1>4 DEF Smaller
  <2>. HIDE DEF last
  <2>3. S \subseteq Events /\ \A e \in S : cursor <= e.ledger /\ e.ledger < last + 1
    BY <1>1, <2>2, EventLedger DEF Visible
  <2>4. \A e \in Events \ Garbled :
          cursor <= e.ledger /\ e.ledger < last + 1 /\ e.contract \in contracts => e \in S
    BY <1>1, <2>2, EventLedger DEF Visible
  <2>. HIDE DEF S
  <2>. QED  BY <1>1, <1>2, <2>1, <2>2, <2>3, <2>4, SweepReturnsGap
<1>. QED  BY <1>3, <1>4

LEMMA FetchRefusedGap ==
  ASSUME LoopInv, LoopInv', LoopGap, FetchRefused
  PROVE  LoopGap'
<1>1. /\ cursor \in Nat /\ cursor' \in Nat /\ low[source] \in Nat
      /\ evQ \in Seq(Message) /\ cmdQ \in Seq(Command) /\ handled \subseteq Events
  BY DEF LoopInv, LoopTypes, LoopTypeOK, ChannelsTypeOK, NetworkTypeOK
<1>2. /\ pc = "fetch" /\ pc' = "drain"
      /\ UNCHANGED <<contracts, evQ, cmdQ, since, handled>>
  BY DEF FetchRefused, chanVars
<1>3. \/ cursor' = low[source] /\ cursor < low[source]
           /\ skipped' = skipped \cup (cursor .. low[source] - 1)
      \/ cursor' = cursor /\ skipped' = skipped
  BY DEF FetchRefused
<1>4. cursor <= cursor'  BY <1>1, <1>3
<1>5. BootPending' /\ SweepWhole'  BY <1>2 DEF LoopGap, BootPending, SweepWhole
<1>6. CommandsBehind'
  <2>1. \A i \in 1 .. Len(cmdQ) : cmdQ[i] \in Command  BY <1>1, ElementOfSeq
  <2>2. \A i \in 1 .. Len(cmdQ) : cmdQ[i].latest \in Nat  BY <2>1 DEF Command
  <2>. QED  BY <1>1, <1>2, <1>4, <2>2 DEF LoopGap, CommandsBehind, Frontier
<1>7. QueueBehind'
  <2>1. \A i \in 1 .. Len(evQ) : evQ[i].event.ledger \in Nat  BY <1>1, ElementOfSeq, MessageEvent
  <2>. QED  BY <1>1, <1>2, <1>4, <2>1, ChannelsAssumption DEF LoopGap, QueueBehind, Frontier
<1>8. Covered'
  <2>1. ASSUME NEW e \in Due(cursor)' PROVE e \in handled
    <3>1. /\ e \in Events \ Garbled /\ e.contract \in contracts /\ e.ledger \in Nat
          /\ since[e.contract] <= e.ledger /\ e.ledger < cursor'
          /\ e.ledger \notin skipped'
      BY <1>2, <2>1, EventLedger DEF Due
    <3>2. e.ledger < cursor /\ e.ledger \notin skipped  BY <1>1, <1>3, <3>1
    <3>. QED  BY <3>1, <3>2 DEF Due, LoopGap, Covered
  <2>2. \A e \in handled : e.ledger < cursor'
    BY <1>1, <1>2, <1>4, EventLedger DEF LoopGap, Covered, Frontier
  <2>. QED  BY <1>2, <2>1, <2>2 DEF Covered, Frontier
<1>. QED  BY <1>5, <1>6, <1>7, <1>8 DEF LoopGap

\* One more message, below n.
LEMMA AppendBelow ==
  ASSUME NEW q \in Seq(Message), NEW m \in Message, NEW n,
         \A i \in 1 .. Len(q) : q[i].event.ledger < n, m.event.ledger < n
  PROVE  \A i \in 1 .. Len(Append(q, m)) : Append(q, m)[i].event.ledger < n
<1>1. Len(Append(q, m)) = Len(q) + 1 /\ Len(q) \in Nat  OBVIOUS
<1>2. \A i \in 1 .. Len(q) : Append(q, m)[i] = q[i]  OBVIOUS
<1>3. Append(q, m)[Len(q) + 1] = m  OBVIOUS
<1>. QED  BY <1>1, <1>2, <1>3

LEMMA HandleGap ==
  ASSUME LoopInv, LoopGap, NEW e \in merged, ForwardEvent(e) \/ DropEvent(e)
  PROVE  LoopGap'
<1>1. /\ pc = "forward" /\ pc' = "forward" /\ merged' = merged \ {e}
      /\ handled' = handled \cup {e}
      /\ UNCHANGED <<contracts, cursor, next, todo, cmdQ, since, skipped>>
  BY DEF ForwardEvent, Post, DropEvent, Handle
<1>2. e \in Events /\ evQ \in Seq(Message) /\ next \in Nat /\ e.ledger < next
  BY <1>1 DEF LoopInv, LoopTypes, LoopTypeOK, ChannelsTypeOK, NextAhead, LoopGap, Covered
<1>3. contracts # {}  BY <1>1 DEF LoopGap, BootPending
<1>4. Frontier = next /\ Frontier' = next  BY <1>1 DEF Frontier
<1>5. BootPending' /\ CommandsBehind' /\ SweepWhole'
  BY <1>1, <1>3, <1>4 DEF LoopGap, BootPending, CommandsBehind, SweepWhole
<1>6. QueueBehind'
  <2>. DEFINE m == [event |-> e, hash |-> EventHash(e)]
  <2>1. m \in Message /\ m.event = e  BY <1>2, MessageOf
  <2>2. evQ' \in {evQ, Append(evQ, m)}  BY DEF ForwardEvent, Post, DropEvent
  <2>. HIDE DEF m
  <2>3. \A i \in 1 .. Len(evQ) : evQ[i].event.ledger < next
    BY <1>3, <1>4 DEF LoopGap, QueueBehind
  <2>4. \A i \in 1 .. Len(evQ') : evQ'[i].event.ledger < next
    BY <1>2, <2>1, <2>2, <2>3, AppendBelow
  <2>. QED  BY <1>1, <1>4, <2>4 DEF LoopGap, QueueBehind
<1>7. Covered'
  <2>1. Due(cursor)' = Due(cursor) /\ Due(next)' = Due(next)  BY <1>1 DEF Due
  <2>. QED  BY <1>1, <1>2, <1>4, <2>1 DEF LoopGap, Covered
<1>. QED  BY <1>5, <1>6, <1>7 DEF LoopGap

LEMMA FinishSweepGap ==
  ASSUME LoopInv, LoopGap, FinishSweep
  PROVE  LoopGap'
<1>1. /\ pc = "forward" /\ pc' = "drain" /\ merged = {} /\ cursor' = next
      /\ UNCHANGED <<contracts, evQ, cmdQ, since, handled, skipped>>
  BY DEF FinishSweep, chanVars, histVars
<1>2. cursor \in Nat /\ next \in Nat /\ cursor <= next
  BY <1>1 DEF LoopInv, LoopTypes, LoopTypeOK, NextAhead
<1>3. Frontier' = Frontier  BY <1>1 DEF Frontier
<1>4. BootPending' /\ CommandsBehind' /\ SweepWhole'
  BY <1>1, <1>3 DEF LoopGap, BootPending, CommandsBehind, SweepWhole
<1>5. QueueBehind'  BY <1>1, <1>2, <1>3, ChannelsAssumption DEF LoopGap, QueueBehind
<1>6. Covered'
  <2>1. Due(cursor)' = Due(next)  BY <1>1 DEF Due
  <2>. QED  BY <1>1, <1>3, <2>1 DEF LoopGap, Covered
<1>. QED  BY <1>4, <1>5, <1>6 DEF LoopGap

\* Every step of the loop keeps the log without gaps.
LEMMA LoopGapNext ==
  ASSUME SingleBatch, LoopInv, LoopInv', LoopGap, LoopStep
  PROVE  LoopGap'
<1>1. CASE StartSweep
  BY <1>1 DEF StartSweep, chanVars, histVars, LoopGap, BootPending, CommandsBehind,
              QueueBehind, SweepWhole, Covered, Frontier, Due
<1>2. CASE FetchFails
  BY <1>2 DEF FetchFails, chanVars, histVars, LoopGap, BootPending, CommandsBehind,
              QueueBehind, SweepWhole, Covered, Frontier, Due
<1>. QED
  BY <1>1, <1>2, DrainCommandGap, FetchBatchGap, FetchHubbleGap, FetchRefusedGap, HandleGap,
     FinishSweepGap DEF LoopStep

\* ... and so does the other task, as long as it only takes messages, once the
\* boot command is drained, and sends commands that stay behind the frontier.
LEMMA LoopGapOthers ==
  ASSUME LoopInv, LoopGap, UNCHANGED <<loopVars, histVars>>,
         evQ' = evQ \/ (evQ # <<>> /\ evQ' = Tail(evQ)),
         \/ cmdQ' = cmdQ
         \/ \E c \in Command : /\ cmdQ' = Append(cmdQ, c) /\ Factory \in c.observed
                               /\ contracts # {} /\ c.latest < Frontier
  PROVE  LoopGap'
<1>1. UNCHANGED <<pc, contracts, cursor, next, todo, merged, since, handled, skipped>>
  BY DEF loopVars, histVars
<1>2. evQ \in Seq(Message) /\ cmdQ \in Seq(Command)
  BY DEF LoopInv, LoopTypes, ChannelsTypeOK
<1>3. Frontier' = Frontier  BY <1>1 DEF Frontier
<1>4. CommandsBehind'
  <2>1. CASE cmdQ' = cmdQ  BY <1>1, <1>3, <2>1 DEF LoopGap, CommandsBehind
  <2>2. ASSUME NEW c \in Command, cmdQ' = Append(cmdQ, c), Factory \in c.observed,
               contracts # {}, c.latest < Frontier
        PROVE  CommandsBehind'
    BY <1>1, <1>2, <1>3, <2>2, AppendProperties DEF LoopGap, CommandsBehind
  <2>. QED  BY <2>1, <2>2
<1>5. BootPending'  BY <1>1 DEF LoopGap, BootPending
<1>6. QueueBehind'
  <2>1. CASE evQ' = evQ  BY <1>1, <1>3, <2>1 DEF LoopGap, QueueBehind
  <2>2. CASE evQ # <<>> /\ evQ' = Tail(evQ)
    <3>1. /\ Len(evQ') = Len(evQ) - 1 /\ Len(evQ) \in Nat
          /\ \A i \in 1 .. Len(evQ') : evQ'[i] = evQ[i + 1]
      BY <1>2, <2>2
    <3>. QED  BY <1>1, <1>3, <3>1 DEF LoopGap, QueueBehind
  <2>. QED  BY <2>1, <2>2
<1>7. SweepWhole' /\ Covered'
  BY <1>1, <1>3 DEF LoopGap, SweepWhole, Covered, Due
<1>. QED  BY <1>4, <1>5, <1>6, <1>7 DEF LoopGap

=============================================================================
