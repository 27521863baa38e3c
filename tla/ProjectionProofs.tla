-------------------------- MODULE ProjectionProofs ---------------------------
(***************************************************************************)
(* Theorems about the store task, for every history the chain may send,     *)
(* every set of operations and any number of failing statements.            *)
(***************************************************************************)
EXTENDS Projection, HandlerProofs

\* The steps of the store task that touch none of what is proved here.
LEMMA StepFrame ==
  ASSUME [Next]_vars
  PROVE  \/ Receive \/ Insert \/ ReadTotals \/ SaveTotals \/ SyncStatus
         \/ AddFirstChain \/ RecordHolding \/ NoEffects \/ Reload \/ SendCommand
         \/ OthersStep
         \/ UNCHANGED handlerVars
BY DEF Next, HandlerStep, Feed, Reread, TakeCommand, vars

-----------------------------------------------------------------------------
TypeInv == TypeOK /\ IsFiniteSet(rows)

LEMMA MessageForType == ASSUME NEW e \in Events PROVE MessageFor(e) \in Message
BY NetworkAssumption DEF MessageFor, Message, Hash, Event

LEMMA InitType == Init => TypeInv
<1> SUFFICES ASSUME Init PROVE TypeInv
  OBVIOUS
<1>1. rows = {} /\ published \subseteq Ops /\ linked = {} /\ primary = {}
  BY DEF Init, DbInit
<1>2. Loaded \in OpData
  BY <1>1, LoadedType
<1>3. HandlerTypeOK
  BY <1>1, <1>2, HandlerAssumption
  DEF Init, DbInit, HandlerTypeOK, FundingStatus, HandlerSteps, NoTotals
<1>4. feed \in Seq(Events)
  BY ProjectionAssumption DEF Init
<1>5. IsFiniteSet(rows)
  BY <1>1, FS_EmptySet
<1> QED
  BY <1>3, <1>4, <1>5, ProjectionAssumption DEF Init, TypeInv, TypeOK, ChannelsTypeOK

LEMMA PostType ==
  ASSUME evQ \in Seq(Message), NEW m \in Message, Post(m)
  PROVE  evQ' \in Seq(Message)
BY DEF Post

LEMMA NextType == TypeInv /\ [Next]_vars => TypeInv'
<1> SUFFICES ASSUME TypeInv, [Next]_vars PROVE TypeInv'
  OBVIOUS
<1>1. HandlerInv
  BY DEF TypeInv, TypeOK, HandlerInv
<1>2. CASE (HandlerStep \/ OthersStep) /\ UNCHANGED <<netVars, feedVars>>
  <2>1. HandlerInv'
    BY <1>1, <1>2, HandlerStepInv, OthersStepInv
  <2> QED
    BY <1>2, <2>1 DEF TypeInv, TypeOK, HandlerInv, feedVars
<1>3. ASSUME UNCHANGED handlerVars, ChannelsTypeOK' PROVE HandlerInv'
  BY <1>1, <1>3 DEF HandlerInv, HandlerTypeOK, handlerVars, dbVars, taskVars, progressVars, othersVars
<1>4. CASE Feed
  <2>1. Head(feed) \in Events /\ Tail(feed) \in Seq(Events)
    BY <1>4 DEF TypeInv, TypeOK, Feed
  <2>2. evQ' \in Seq(Message)
    BY <1>4, <2>1, MessageForType, PostType DEF Feed, TypeInv, TypeOK, ChannelsTypeOK
  <2>3. HandlerInv'
    BY <1>3, <1>4, <2>2 DEF Feed, TypeInv, TypeOK, ChannelsTypeOK
  <2> QED
    BY <1>4, <2>1, <2>3 DEF Feed, TypeInv, TypeOK, HandlerInv
<1>5. ASSUME NEW e \in fed, Reread(e) PROVE TypeInv'
  <2>1. e \in Events
    BY <1>5 DEF TypeInv, TypeOK
  <2>2. evQ' \in Seq(Message)
    BY <1>5, <2>1, MessageForType, PostType DEF Reread, TypeInv, TypeOK, ChannelsTypeOK
  <2>3. HandlerInv'
    BY <1>3, <1>5, <2>2 DEF Reread, TypeInv, TypeOK, ChannelsTypeOK
  <2> QED
    BY <1>5, <2>3 DEF Reread, TypeInv, TypeOK, HandlerInv
<1>6. CASE TakeCommand
  <2>1. Head(cmdQ) \in Command /\ Tail(cmdQ) \in Seq(Command)
    BY <1>6 DEF TakeCommand, TypeInv, TypeOK, ChannelsTypeOK
  <2>2. HandlerInv'
    BY <1>3, <1>6, <2>1 DEF TakeCommand, TypeInv, TypeOK, ChannelsTypeOK
  <2> QED
    BY <1>6, <2>2 DEF TakeCommand, feedVars, TypeInv, TypeOK, HandlerInv
<1>7. CASE UNCHANGED vars
  <2>1. HandlerInv'
    BY <1>3, <1>7 DEF vars, chanVars, TypeInv, TypeOK, ChannelsTypeOK
  <2> QED
    BY <1>7, <2>1 DEF vars, feedVars, TypeInv, TypeOK, HandlerInv
<1> QED
  BY <1>2, <1>4, <1>5, <1>6, <1>7 DEF Next

-----------------------------------------------------------------------------
\* An operation whose totals are on their way to the table cannot be finished
\* before they are written, where the task that writes them is the one that
\* finishes.
FinishInv ==
  /\ published \subseteq Ops
  /\ sold = [o \in Ops |-> sold[o]]
  /\ status = [o \in Ops |-> status[o]]
  /\ \A o \in (DOMAIN totals \cap Ops) \ Foreign : status[o] \in {"open", "predeposit"}
  /\ hpc # "save" => DOMAIN totals = {}
  /\ FinishedSoldOut

LEMMA InitFinish == Init => FinishInv
<1> SUFFICES ASSUME Init PROVE FinishInv
  OBVIOUS
<1>1. /\ \A o \in Ops : status[o] = "upcoming"
      /\ DOMAIN totals = {} /\ published \subseteq Ops
  BY DEF Init, DbInit, NoTotals
<1>2. sold = [o \in Ops |-> sold[o]] /\ status = [o \in Ops |-> status[o]]
  BY DEF Init, DbInit
<1> QED
  BY <1>1, <1>2 DEF FinishInv, FinishedSoldOut

LEMMA NextFinish == FinishInv /\ [Next]_vars => FinishInv'
<1> SUFFICES ASSUME FinishInv, [Next]_vars PROVE FinishInv'
  OBVIOUS
<1> USE DEF FinishInv, FinishedSoldOut
<1>1. CASE Receive
  BY <1>1 DEF Receive, dbVars, progressVars, othersVars
<1>2. CASE Insert
  BY <1>2 DEF Insert, GoTo, progressVars, othersVars
<1>3. CASE ReadTotals
  <2>1. /\ \A o \in DOMAIN totals' : o \in Ongoing
        /\ hpc' = "save"
    BY <1>3 DEF ReadTotals, GoTo, NoTotals
  <2>2. UNCHANGED <<published, sold, status>>
    BY <1>3 DEF ReadTotals, dbVars, progressVars, othersVars
  <2> QED
    BY <2>1, <2>2 DEF Ongoing
<1>4. CASE SaveTotals
  <2>1. DOMAIN totals' = {} /\ UNCHANGED <<published, status>>
    BY <1>4 DEF SaveTotals, othersVars, NoTotals
  <2>2. \/ sold' = [o \in Ops |-> IF o \in DOMAIN totals THEN totals[o].all ELSE sold[o]]
        \/ sold' = sold
    BY <1>4 DEF SaveTotals, progressVars
  <2>3. \A o \in Ops \ Foreign : status[o] = "finished" => sold'[o] = sold[o]
    BY <2>2
  <2>4. sold' = [o \in Ops |-> sold'[o]]
    BY <2>2
  <2> QED
    BY <2>1, <2>3, <2>4
<1>5. CASE SyncStatus
  <2>1. DOMAIN totals' = {} /\ UNCHANGED <<published, sold>>
    BY <1>5 DEF SyncStatus, progressVars, othersVars
  <2>2. \A o \in Ops \ Foreign : StatusUpdate(o) = "finished" => sold[o] = Total[o]
    BY DEF StatusUpdate, Updated
  <2>3. CASE status' = [o \in Ops |-> StatusUpdate(o)]
    BY <2>1, <2>2, <2>3
  <2>4. CASE status' = status
    BY <2>1, <2>4
  <2> QED
    BY <1>5, <2>3, <2>4 DEF SyncStatus
<1>6. CASE AddFirstChain
  BY <1>6 DEF AddFirstChain, GoTo, progressVars, othersVars
<1>7. CASE RecordHolding
  BY <1>7 DEF RecordHolding, GoTo, progressVars, othersVars
<1>8. CASE NoEffects \/ Reload \/ SendCommand
  BY <1>8 DEF NoEffects, Reload, SendCommand, GoTo, dbVars, progressVars, othersVars
<1>9. CASE OthersStep
  <2>1. /\ UNCHANGED <<totals, hpc>> /\ published' \subseteq Ops
        /\ \A o \in Ops \ Foreign : status'[o] = status[o]
        /\ status' = [o \in Ops |-> status'[o]]
    BY <1>9 DEF OthersStep, Publish, Register, EvmSale, EvmStatus, taskVars
  <2>2. /\ \A o \in Ops : status[o] = "finished" => sold'[o] = sold[o]
        /\ sold' = [o \in Ops |-> sold'[o]]
    <3>1. CASE \E o \in published : EvmSale(o)
      <4>1. PICK o \in published : EvmSale(o)
        BY <3>1
      <4>2. /\ status[o] \in {"open", "predeposit"}
            /\ sold' = [sold EXCEPT ![o] = NetFunded(o, evmSold[o] + 1)]
        BY <4>1 DEF EvmSale, Ongoing
      <4>3. \A q \in Ops : q # o => sold'[q] = sold[q]
        BY <4>2
      <4> QED
        BY <4>2, <4>3
    <3>2. CASE ~\E o \in published : EvmSale(o)
      BY <1>9, <3>2 DEF OthersStep, Publish, Register, EvmStatus, progressVars
    <3> QED
      BY <3>1, <3>2
  <2>3. \A o \in (DOMAIN totals' \cap Ops) \ Foreign : status'[o] \in {"open", "predeposit"}
    BY <2>1
  <2>4. \A o \in Ops \ Foreign : status'[o] = "finished" => sold'[o] = Total[o]
    BY <2>1, <2>2
  <2> QED
    BY <2>1, <2>2, <2>3, <2>4
<1>10. CASE UNCHANGED handlerVars
  BY <1>10 DEF handlerVars, dbVars, taskVars, progressVars, othersVars
<1> QED
  BY <1>1, <1>2, <1>3, <1>4, <1>5, <1>6, <1>7, <1>8, <1>9, <1>10, StepFrame

-----------------------------------------------------------------------------
\* The worker never takes itself for primary where another chain is.
ForeignInv ==
  /\ status = [o \in Ops |-> status[o]]
  /\ primary \cap Foreign = {}
  /\ op_data.primary \cap Foreign = {}

StatusKept == taskVars' # taskVars => \A o \in Foreign : status'[o] = status[o]

LEMMA InitForeign == Init => ForeignInv
<1> SUFFICES ASSUME Init PROVE ForeignInv
  OBVIOUS
<1> QED
  BY DEF Init, DbInit, Loaded, ForeignInv

\* What a load may bring into memory.
LEMMA LoadsPrimary ==
  ASSUME NEW l \in Loads(op_data)
  PROVE  l.op_data.primary = primary \/ l.op_data.primary = op_data.primary
<1>1. \A d, loaded : \A r \in Reads(d, loaded) : r.op_data = d
  <2> SUFFICES ASSUME NEW d, NEW loaded, NEW r \in Reads(d, loaded)
               PROVE  r.op_data = d
    OBVIOUS
  <2>1. PICK readable \in SUBSET Observable(d) :
          r = [op_data |-> d,
               faulty |-> ~loaded \/ readable # Observable(d),
               command |-> [observed |-> Observable(d), ops |-> d.known,
                 latest |-> Max({LatestBlock(c, readable) : c \in Observable(d)})]]
    BY DEF Reads
  <2> QED
    BY <2>1
<1>2. l.op_data = Loaded \/ l.op_data = op_data
  BY <1>1 DEF Loads
<1> QED
  BY <1>2 DEF Loaded

LEMMA NextForeign == ForeignInv /\ [Next]_vars => ForeignInv' /\ StatusKept
<1> SUFFICES ASSUME ForeignInv, [Next]_vars PROVE ForeignInv' /\ StatusKept
  OBVIOUS
<1> USE DEF ForeignInv, StatusKept
<1>1. CASE Receive \/ ReadTotals \/ NoEffects \/ SendCommand
  BY <1>1 DEF Receive, ReadTotals, NoEffects, SendCommand, dbVars
<1>2. CASE Insert \/ SaveTotals \/ RecordHolding
  BY <1>2 DEF Insert, SaveTotals, RecordHolding
<1>3. CASE SyncStatus
  <2>1. UNCHANGED <<primary, op_data>>
    BY <1>3 DEF SyncStatus
  <2>2. \A o \in Foreign : StatusUpdate(o) = status[o]
    BY DEF StatusUpdate, Updated
  <2>3. status' = [o \in Ops |-> StatusUpdate(o)] \/ status' = status
    BY <1>3 DEF SyncStatus
  <2> QED
    BY <2>1, <2>2, <2>3, HandlerAssumption
<1>4. CASE AddFirstChain
  BY <1>4 DEF AddFirstChain
<1>5. CASE Reload
  BY <1>5, LoadsPrimary DEF Reload, dbVars
<1>6. CASE OthersStep
  BY <1>6 DEF OthersStep, Publish, Register, EvmSale, EvmStatus, taskVars
<1>7. CASE UNCHANGED handlerVars
  BY <1>7 DEF handlerVars, dbVars, taskVars
<1> QED
  BY <1>1, <1>2, <1>3, <1>4, <1>5, <1>6, <1>7, StepFrame

-----------------------------------------------------------------------------
Inserted == {"progress", "save", "status", "effects"}

RowsFor(e) == {r \in rows : r.event = e}

\* The message in hand was inserted, and may still become a holding.
Pending(e) == IF hpc \in Inserted /\ Held.event = e THEN 1 ELSE 0

HoldingsInv ==
  /\ IsFiniteSet(rows)
  /\ holdings \in [Events -> Nat]
  /\ \A e \in Events : holdings[e] + Pending(e) <= Cardinality(RowsFor(e))

LEMMA RowsForFinite ==
  ASSUME IsFiniteSet(rows), NEW e
  PROVE  IsFiniteSet(RowsFor(e)) /\ Cardinality(RowsFor(e)) \in Nat
<1>1. IsFiniteSet(RowsFor(e))
  BY FS_Subset DEF RowsFor
<1> QED
  BY <1>1, FS_CardinalityType

LEMMA InitHoldings == Init => HoldingsInv
<1> SUFFICES ASSUME Init PROVE HoldingsInv
  OBVIOUS
<1>1. rows = {} /\ hpc = "recv" /\ holdings = [e \in Events |-> 0]
  BY DEF Init, DbInit
<1>2. \A e \in Events : Cardinality(RowsFor(e)) = 0
  BY <1>1, FS_EmptySet DEF RowsFor
<1>3. \A e \in Events : Pending(e) = 0
  BY <1>1 DEF Pending, Inserted
<1> QED
  BY <1>1, <1>2, <1>3, FS_EmptySet DEF HoldingsInv

\* A new row counts for its event, and for no other.
LEMMA InsertCounts ==
  ASSUME IsFiniteSet(rows), NEW m, m \notin rows, rows' = rows \cup {m}
  PROVE  /\ IsFiniteSet(rows')
         /\ \A e \in Events :
              Cardinality(RowsFor(e)') = Cardinality(RowsFor(e)) + IF m.event = e THEN 1 ELSE 0
<1>1. IsFiniteSet(rows')
  BY FS_AddElement
<1>2. ASSUME NEW e \in Events
      PROVE  Cardinality(RowsFor(e)') = Cardinality(RowsFor(e)) + IF m.event = e THEN 1 ELSE 0
  <2>1. IsFiniteSet(RowsFor(e)) /\ Cardinality(RowsFor(e)) \in Nat /\ m \notin RowsFor(e)
    BY RowsForFinite DEF RowsFor
  <2>2. CASE m.event = e
    <3>1. RowsFor(e)' = RowsFor(e) \cup {m}
      BY <2>2 DEF RowsFor
    <3>2. Cardinality(RowsFor(e) \cup {m}) = Cardinality(RowsFor(e)) + 1
      BY <2>1, FS_AddElement
    <3> QED
      BY <2>2, <3>1, <3>2
  <2>3. CASE m.event # e
    <3>1. RowsFor(e)' = RowsFor(e)
      BY <2>3 DEF RowsFor
    <3> QED
      BY <2>1, <2>3, <3>1
  <2> QED
    BY <2>2, <2>3
<1> QED
  BY <1>1, <1>2

\* A step that stores nothing and holds nothing, and lets no message become
\* pending.
LEMMA HoldingsFrame ==
  ASSUME HoldingsInv, UNCHANGED <<rows, holdings>>,
         \A e \in Events : Pending(e)' \in {0, Pending(e)}
  PROVE  HoldingsInv'
<1>1. \A e \in Events : RowsFor(e)' = RowsFor(e) /\ Cardinality(RowsFor(e)) \in Nat
  BY RowsForFinite DEF RowsFor, HoldingsInv
<1>2. \A e \in Events : Pending(e) \in {0, 1}
  BY DEF Pending
<1> QED
  BY <1>1, <1>2 DEF HoldingsInv

LEMMA NextHoldings == HoldingsInv /\ [Next]_vars => HoldingsInv'
<1> SUFFICES ASSUME HoldingsInv, [Next]_vars PROVE HoldingsInv'
  OBVIOUS
<1> USE DEF Inserted
<1>1. CASE Receive
  BY <1>1, HoldingsFrame DEF Receive, Pending, dbVars
<1>2. CASE Insert
  <2>1. UNCHANGED holdings /\ hpc = "insert" /\ \A e \in Events : Pending(e) = 0
    BY <1>2 DEF Insert, Pending
  <2>2. \/ rows' = rows /\ hpc' = "recv"
        \/ /\ rows' = rows \cup {Held} /\ Held.hash \notin Hashes
           /\ hpc' = "recv" \/ (hpc' \in Inserted /\ batch' = batch)
    BY <1>2 DEF Insert, GoTo
  <2>3. CASE rows' = rows /\ hpc' = "recv"
    BY <2>1, <2>3, HoldingsFrame DEF Pending
  <2>4. CASE /\ rows' = rows \cup {Held} /\ Held.hash \notin Hashes
             /\ hpc' = "recv" \/ (hpc' \in Inserted /\ batch' = batch)
    <3>1. Held \notin rows
      BY <2>4 DEF Hashes
    <3>2. /\ IsFiniteSet(rows')
          /\ \A e \in Events : Cardinality(RowsFor(e)') =
               Cardinality(RowsFor(e)) + IF Held.event = e THEN 1 ELSE 0
      BY <2>4, <3>1, InsertCounts DEF HoldingsInv
    <3>3. \A e \in Events : Pending(e)' = 0 \/ (Pending(e)' = 1 /\ Held.event = e)
      BY <2>4 DEF Pending, Held
    <3>4. \A e \in Events : Cardinality(RowsFor(e)) \in Nat
      BY RowsForFinite DEF HoldingsInv
    <3> QED
      BY <2>1, <3>2, <3>3, <3>4 DEF HoldingsInv
  <2> QED
    BY <2>2, <2>3, <2>4
<1>3. CASE ReadTotals
  BY <1>3, HoldingsFrame DEF ReadTotals, GoTo, Pending, Held, dbVars
<1>4. CASE SaveTotals
  BY <1>4, HoldingsFrame DEF SaveTotals, GoTo, Pending, Held
<1>5. CASE SyncStatus
  BY <1>5, HoldingsFrame DEF SyncStatus, GoTo, Pending, Held
<1>6. CASE AddFirstChain
  BY <1>6, HoldingsFrame DEF AddFirstChain, GoTo, Pending
<1>7. CASE RecordHolding
  <2>1. hpc = "effects" /\ hpc' = "recv" /\ UNCHANGED rows
    BY <1>7 DEF RecordHolding, GoTo
  <2>2. \A e \in Events : Pending(e)' = 0
    BY <2>1 DEF Pending
  <2>3. CASE UNCHANGED holdings
    BY <2>1, <2>2, <2>3, HoldingsFrame
  <2>4. CASE /\ Held.event \in Custodial
             /\ holdings' = [holdings EXCEPT ![Held.event] = holdings[Held.event] + 1]
    <3>1. Held.event \in Events /\ Pending(Held.event) = 1
      BY <2>1, <2>4, HandlerAssumption DEF Pending
    <3>2. \A e \in Events : /\ Cardinality(RowsFor(e)) \in Nat
                            /\ RowsFor(e)' = RowsFor(e) /\ Pending(e) \in {0, 1}
      BY <2>1, RowsForFinite DEF HoldingsInv, RowsFor, Pending
    <3>3. holdings' \in [Events -> Nat]
      BY <2>4, <3>1 DEF HoldingsInv
    <3>4. \A e \in Events : holdings'[e] <= Cardinality(RowsFor(e))
      BY <2>4, <3>1, <3>2 DEF HoldingsInv
    <3> QED
      BY <2>1, <2>2, <3>2, <3>3, <3>4 DEF HoldingsInv
  <2> QED
    BY <1>7, <2>3, <2>4 DEF RecordHolding
<1>8. CASE NoEffects \/ Reload \/ SendCommand
  BY <1>8, HoldingsFrame DEF NoEffects, Reload, SendCommand, GoTo, Pending, dbVars
<1>9. CASE OthersStep
  BY <1>9, HoldingsFrame DEF OthersStep, Publish, Register, EvmSale, EvmStatus, Pending, Held, taskVars
<1>10. CASE UNCHANGED handlerVars
  BY <1>10, HoldingsFrame DEF handlerVars, dbVars, taskVars, Pending, Held
<1> QED
  BY <1>1, <1>2, <1>3, <1>4, <1>5, <1>6, <1>7, <1>8, <1>9, <1>10, StepFrame

-----------------------------------------------------------------------------
\* Nothing has failed so far.
NoFault == dbFaults = MaxDbFaults

Logged == {r.event : r \in rows}
LoggedFor(o, kinds) == \E e \in Logged : e.op = o /\ e.kind \in kinds

\* Messages carry the key of their event, so a key that is stored is an event
\* that is stored.
MessagesInv ==
  /\ \A r \in rows : r = MessageFor(r.event)
  /\ \A i \in 1 .. Len(evQ) : evQ[i] = MessageFor(evQ[i].event)
  /\ hpc # "recv" => Held = MessageFor(Held.event)

\* What precedes an event in a history is among S.
Ready(h, e, S) == \E i \in 1 .. Len(h) : h[i] = e /\ \A j \in 1 .. i - 1 : h[j] \in S

FeedInv(h) ==
  /\ \A e \in fed : Ready(h, e, fed)
  /\ \A i \in 1 .. Len(feed) : Ready(h, feed[i], fed \cup {feed[j] : j \in 1 .. i - 1})

\* Events stored, and the one about to be.
Ahead == Logged \cup IF hpc = "insert" THEN {Held.event} ELSE {}
QueuedBefore(i) == {evQ[j].event : j \in 1 .. i - 1}

\* The channel and the task keep the order of the chain: a message finds what
\* precedes its event stored.
OrderInv(h) ==
  NoFault =>
    /\ \A e \in fed : e \in Ahead \cup QueuedBefore(Len(evQ) + 1)
    /\ \A i \in 1 .. Len(evQ) : Ready(h, evQ[i].event, Ahead \cup QueuedBefore(i))
    /\ hpc = "insert" => Ready(h, Held.event, Logged)
    /\ \A e \in Logged : Ready(h, e, Logged)


LEMMA ReadyGrows ==
  ASSUME NEW h, NEW e, NEW S, NEW T, S \subseteq T, Ready(h, e, S)
  PROVE  Ready(h, e, T)
BY DEF Ready

LEMMA HistoryType ==
  ASSUME NEW h \in Histories
  PROVE  h \in Seq(Events) /\ Len(h) \in Nat /\ DOMAIN h = 1 .. Len(h)
BY ProjectionAssumption

\* ... so an event has its creation and its opening before it.
LEMMA ReadyIs ==
  ASSUME Lifecycle, NEW h \in Histories, NEW e, NEW S, Ready(h, e, S)
  PROVE  /\ e.kind \in StatusEvents \ {"op_created"} =>
              \E f \in S : f.op = e.op /\ f.kind = "op_created"
         /\ e.kind \in {"invested", "refunded", "op_finished"} =>
              \E f \in S : f.op = e.op /\ f.kind \in Openers
<1>1. PICK i \in 1 .. Len(h) : h[i] = e /\ \A j \in 1 .. i - 1 : h[j] \in S
  BY DEF Ready
<1>2. /\ e.kind \in StatusEvents \ {"op_created"} => "op_created" \in Earlier(h, i)
      /\ e.kind \in {"invested", "refunded", "op_finished"} => Earlier(h, i) \cap Openers # {}
  BY <1>1, HistoryType DEF Lifecycle
<1> QED
  BY <1>1, <1>2 DEF Earlier

LEMMA InitOrder ==
  ASSUME Init
  PROVE  MessagesInv /\ \E h \in Histories : FeedInv(h) /\ OrderInv(h)
<1>1. rows = {} /\ evQ = <<>> /\ fed = {} /\ hpc = "recv" /\ feed \in Histories
  BY DEF Init, DbInit
<1>2. PICK h \in Histories : h = feed
  BY <1>1
<1>3. MessagesInv
  BY <1>1 DEF MessagesInv
<1>4. FeedInv(h)
  BY <1>1, <1>2, HistoryType DEF FeedInv, Ready
<1>5. OrderInv(h)
  BY <1>1 DEF OrderInv, Logged
<1> QED
  BY <1>3, <1>4, <1>5

\* Faults only happen, and happen a bounded number of times.
Budget == dbFaults <= MaxDbFaults

LEMMA FaultsFall ==
  ASSUME TypeInv, Budget, [Next]_vars
  PROVE  Budget' /\ (NoFault' => NoFault /\ dbFaults' = dbFaults /\ ~DbFault)
<1>1. dbFaults \in Nat /\ MaxDbFaults \in Nat
  BY HandlerAssumption DEF TypeInv, TypeOK, HandlerTypeOK
<1>2. dbFaults' = dbFaults \/ DbFault
  <2>1. CASE Reload
    <3>1. PICK l \in Loads(op_data) : IF l.faulty THEN DbFault ELSE UNCHANGED dbFaults
      BY <2>1 DEF Reload
    <3> QED
      BY <3>1
  <2>2. CASE Receive \/ Insert \/ ReadTotals \/ SaveTotals \/ SyncStatus
    BY <2>2 DEF Receive, Insert, ReadTotals, SaveTotals, SyncStatus, MayFail
  <2>3. CASE AddFirstChain \/ RecordHolding \/ NoEffects \/ SendCommand
    BY <2>3 DEF AddFirstChain, RecordHolding, NoEffects, SendCommand, MayFail
  <2>4. CASE OthersStep \/ UNCHANGED handlerVars
    BY <2>4 DEF OthersStep, handlerVars
  <2> QED
    BY <2>1, <2>2, <2>3, <2>4, StepFrame
<1> QED
  BY <1>1, <1>2 DEF Budget, NoFault, DbFault

\* What a step does to the messages on their way to the table.
LEMMA StepFlow ==
  ASSUME TypeInv, [Next]_vars
  PROVE  \/ Receive /\ UNCHANGED <<feed, fed>>
         \/ Insert /\ UNCHANGED <<feed, fed>>
         \/ /\ UNCHANGED <<rows, evQ, feed, fed>> /\ hpc # "insert" /\ hpc' # "insert"
            /\ hpc' # "recv" => hpc # "recv" /\ batch' = batch
         \/ UNCHANGED <<rows, evQ, hpc, batch, feed, fed>>
         \/ /\ feed # <<>> /\ feed' = Tail(feed) /\ fed' = fed \cup {Head(feed)}
            /\ evQ' = Append(evQ, MessageFor(Head(feed)))
            /\ UNCHANGED <<rows, hpc, batch>>
         \/ /\ \E e \in fed : evQ' = Append(evQ, MessageFor(e))
            /\ UNCHANGED <<rows, hpc, batch, feed, fed>>
<1>1. CASE HandlerStep /\ UNCHANGED <<netVars, feedVars>>
  <2>1. CASE Receive \/ Insert
    BY <1>1, <2>1 DEF feedVars
  <2>2. CASE ReadTotals \/ SaveTotals \/ SyncStatus
    BY <1>1, <2>2 DEF ReadTotals, SaveTotals, SyncStatus, GoTo, feedVars, chanVars, dbVars
  <2>3. CASE AddFirstChain \/ RecordHolding \/ NoEffects
    BY <1>1, <2>3 DEF AddFirstChain, RecordHolding, NoEffects, GoTo, feedVars, chanVars, dbVars
  <2>4. CASE Reload \/ SendCommand
    BY <1>1, <2>4 DEF Reload, SendCommand, GoTo, feedVars, chanVars, dbVars
  <2> QED
    BY <1>1, <2>1, <2>2, <2>3, <2>4 DEF HandlerStep
<1>2. CASE Feed
  BY <1>2 DEF Feed, Post, handlerVars, dbVars, taskVars
<1>3. CASE \E e \in fed : Reread(e)
  BY <1>3 DEF Reread, Post, handlerVars, dbVars, taskVars
<1>4. CASE TakeCommand
  BY <1>4 DEF TakeCommand, handlerVars, dbVars, taskVars, feedVars
<1>5. CASE OthersStep /\ UNCHANGED <<netVars, feedVars>>
  BY <1>5 DEF OthersStep, Publish, Register, EvmSale, EvmStatus, taskVars, chanVars, feedVars
<1>6. CASE UNCHANGED vars
  BY <1>6 DEF vars, handlerVars, dbVars, taskVars, chanVars, feedVars
<1> QED
  BY <1>1, <1>2, <1>3, <1>4, <1>5, <1>6 DEF Next

LEMMA QueueTypes ==
  ASSUME TypeInv
  PROVE  /\ evQ \in Seq(Message) /\ feed \in Seq(Events) /\ fed \subseteq Events
         /\ Len(evQ) \in Nat /\ Len(feed) \in Nat
         /\ \A r \in rows : r \in Message
         /\ hpc # "recv" => Held \in Message
<1>1. hpc # "recv" => Held \in Message
  BY HeldIs DEF TypeInv, TypeOK
<1>2. \A r \in rows : r \in Message
  BY DEF TypeInv, TypeOK, HandlerTypeOK
<1> QED
  BY <1>1, <1>2 DEF TypeInv, TypeOK, ChannelsTypeOK

LEMMA ReceivedIs ==
  ASSUME TypeInv, Receive
  PROVE  /\ hpc = "recv" /\ hpc' = "insert" /\ rows' = rows
         /\ Held' = evQ[1] /\ Len(evQ) > 0 /\ Len(evQ') = Len(evQ) - 1
         /\ \A i \in 1 .. Len(evQ') : i + 1 \in 1 .. Len(evQ) /\ evQ'[i] = evQ[i + 1]
<1>1. evQ \in Seq(Message) /\ evQ # <<>> /\ evQ' = Tail(evQ) /\ batch' = <<Head(evQ)>>
  BY QueueTypes DEF Receive
<1>2. Held' = evQ[1]
  BY <1>1 DEF Held
<1> QED
  BY <1>1, <1>2 DEF Receive, dbVars

LEMMA AppendedIs ==
  ASSUME TypeInv, NEW m \in Message, evQ' = Append(evQ, m)
  PROVE  /\ Len(evQ') = Len(evQ) + 1 /\ Len(evQ) \in Nat /\ evQ'[Len(evQ) + 1] = m
         /\ \A i \in 1 .. Len(evQ) : evQ'[i] = evQ[i]
         /\ \A i \in 1 .. Len(evQ') : i \in 1 .. Len(evQ) \/ i = Len(evQ) + 1
BY QueueTypes

LEMMA NextMessages == TypeInv /\ MessagesInv /\ [Next]_vars => MessagesInv'
<1> SUFFICES ASSUME TypeInv, MessagesInv, [Next]_vars PROVE MessagesInv'
  OBVIOUS
<1>1. \A e, f : MessageFor(e).event = e
  BY DEF MessageFor
<1>2. CASE Receive
  <2>1. hpc' # "recv" => Held' = MessageFor(Held'.event)
    BY <1>2, ReceivedIs DEF MessagesInv
  <2>2. \A i \in 1 .. Len(evQ') : evQ'[i] = MessageFor(evQ'[i].event)
    BY <1>2, ReceivedIs DEF MessagesInv
  <2> QED
    BY <1>2, <2>1, <2>2, ReceivedIs DEF MessagesInv, MessageFor
<1>3. CASE Insert
  <2>1. hpc = "insert" /\ rows' \in {rows, rows \cup {Held}} /\ UNCHANGED evQ
    BY <1>3 DEF Insert, chanVars
  <2>2. hpc' # "recv" => batch' = batch
    BY <1>3 DEF Insert, GoTo
  <2> QED
    BY <2>1, <2>2 DEF MessagesInv, MessageFor, Held
<1>4. CASE /\ UNCHANGED <<rows, evQ>>
           /\ hpc' # "recv" => hpc # "recv" /\ batch' = batch
  <2>1. hpc' # "recv" => Held' = Held /\ hpc # "recv"
    BY <1>4 DEF Held
  <2> QED
    BY <1>4, <2>1 DEF MessagesInv, MessageFor
<1>5. ASSUME NEW e \in Events, evQ' = Append(evQ, MessageFor(e)), UNCHANGED <<rows, hpc, batch>>
      PROVE  MessagesInv'
  <2>1. \A i \in 1 .. Len(evQ') : evQ'[i] = MessageFor(evQ'[i].event)
    BY <1>1, <1>5, AppendedIs, MessageForType DEF MessagesInv
  <2> QED
    BY <1>5, <2>1 DEF MessagesInv, MessageFor, Held
<1>6. feed # <<>> => Head(feed) \in Events
  BY QueueTypes
<1>7. \A e \in fed : e \in Events
  BY QueueTypes
<1> QED
  BY <1>2, <1>3, <1>4, <1>5, <1>6, <1>7, StepFlow

LEMMA NextFeed ==
  ASSUME NEW h \in Histories, TypeInv, FeedInv(h), [Next]_vars
  PROVE  FeedInv(h)'
<1>1. CASE UNCHANGED <<feed, fed>>
  BY <1>1 DEF FeedInv
<1>2. CASE feed # <<>> /\ feed' = Tail(feed) /\ fed' = fed \cup {Head(feed)}
  <2> DEFINE Upto(i) == fed \cup {feed[j] : j \in 1 .. i}
  <2>1. /\ Len(feed) > 0 /\ Head(feed) = feed[1] /\ Len(feed') = Len(feed) - 1
        /\ \A i \in 1 .. Len(feed') : i + 1 \in 1 .. Len(feed) /\ feed'[i] = feed[i + 1]
    BY <1>2, QueueTypes
  <2>2. \A e \in fed' : Ready(h, e, fed')
    <3>1. \A e \in fed : Ready(h, e, fed')
      BY <1>2, ReadyGrows DEF FeedInv
    <3>2. Ready(h, feed[1], fed \cup {feed[j] : j \in 1 .. 1 - 1})
      <4>1. 1 \in 1 .. Len(feed)
        BY <2>1, QueueTypes
      <4> QED
        BY <4>1 DEF FeedInv
    <3>3. fed \cup {feed[j] : j \in 1 .. 1 - 1} \subseteq fed'
      BY <1>2
    <3>4. Ready(h, feed[1], fed')
      BY <3>2, <3>3, ReadyGrows
    <3> QED
      BY <1>2, <2>1, <3>1, <3>4
  <2>3. ASSUME NEW i \in 1 .. Len(feed')
        PROVE  Ready(h, feed'[i], fed' \cup {feed'[j] : j \in 1 .. i - 1})
    <3>1. i + 1 \in 1 .. Len(feed) /\ feed'[i] = feed[i + 1] /\ (i + 1) - 1 = i
      BY <2>1
    <3>2. Ready(h, feed[i + 1], Upto(i))
      BY <3>1 DEF FeedInv
    <3>3. ASSUME NEW j \in 1 .. i
          PROVE  feed[j] \in fed' \cup {feed'[k] : k \in 1 .. i - 1}
      <4>1. CASE j = 1
        BY <1>2, <2>1, <4>1
      <4>2. CASE j # 1
        <5>1. j - 1 \in 1 .. i - 1 /\ j - 1 \in 1 .. Len(feed') /\ (j - 1) + 1 = j
          BY <4>2, QueueTypes, <2>1
        <5>2. feed'[j - 1] = feed[j]
          BY <2>1, <5>1
        <5> QED
          BY <5>1, <5>2
      <4> QED
        BY <4>1, <4>2
    <3>4. Upto(i) \subseteq fed' \cup {feed'[k] : k \in 1 .. i - 1}
      BY <1>2, <3>3
    <3> HIDE DEF Upto
    <3> QED
      BY <3>1, <3>2, <3>4, ReadyGrows
  <2> QED
    BY <2>2, <2>3 DEF FeedInv
<1> QED
  BY <1>1, <1>2, StepFlow

\* A key that is stored belongs to an event that is stored.
LEMMA StoredByHash ==
  ASSUME TypeInv, MessagesInv, HashesDistinct, hpc # "recv", Held.hash \in Hashes
  PROVE  Held.event \in Logged
<1>1. PICK r \in rows : r.hash = Held.hash
  BY DEF Hashes
<1>2. r.event \in Events /\ Held.event \in Events
  BY QueueTypes, MessageIs
<1>3. MessageFor(r.event).hash = MessageFor(Held.event).hash
  BY <1>1 DEF MessagesInv
<1> QED
  BY <1>2, <1>3 DEF HashesDistinct, Logged

\* What an insert leaves behind, when no statement fails.
LEMMA InsertedIs ==
  ASSUME TypeInv, MessagesInv, HashesDistinct, Insert, ~DbFault
  PROVE  /\ Logged' = Logged \cup {Held.event} /\ UNCHANGED evQ
         /\ hpc = "insert" /\ hpc' \in {"recv", "progress"}
         /\ hpc' = "progress" <=> Held.hash \notin Hashes /\ FactoryNeedsRefresh(Held.event.kind)
         /\ hpc' = "progress" => batch' = batch
         /\ Held.hash \in Hashes => rows' = rows
         /\ Held.hash \notin Hashes => rows' = rows \cup {Held}
<1>1. CASE Held.hash \in Hashes
  <2>1. rows' = rows /\ hpc' = "recv" /\ UNCHANGED evQ /\ hpc = "insert"
    BY <1>1 DEF Insert, GoTo, chanVars
  <2>2. Logged' = Logged
    BY <2>1 DEF Logged
  <2> QED
    BY <1>1, <2>1, <2>2, StoredByHash
<1>2. CASE Held.hash \notin Hashes
  <2>1. /\ rows' = rows \cup {Held} /\ UNCHANGED evQ /\ hpc = "insert"
        /\ GoTo(IF FactoryNeedsRefresh(Held.event.kind) THEN "progress" ELSE "recv")
    BY <1>2 DEF Insert, chanVars
  <2>2. Logged' = Logged \cup {Held.event}
    BY <2>1 DEF Logged
  <2> QED
    BY <1>2, <2>1, <2>2 DEF GoTo
<1> QED
  BY <1>1, <1>2

LEMMA NextOrder ==
  ASSUME NEW h \in Histories, HashesDistinct, TypeInv, Budget, MessagesInv, FeedInv(h), OrderInv(h),
         [Next]_vars
  PROVE  OrderInv(h)'
<1> SUFFICES ASSUME NoFault' PROVE OrderInv(h)'
  BY DEF OrderInv
<1>1. /\ \A e \in fed : e \in Ahead \cup QueuedBefore(Len(evQ) + 1)
      /\ \A i \in 1 .. Len(evQ) : Ready(h, evQ[i].event, Ahead \cup QueuedBefore(i))
      /\ hpc = "insert" => Ready(h, Held.event, Logged)
      /\ \A e \in Logged : Ready(h, e, Logged)
      /\ ~DbFault /\ Len(evQ) \in Nat
  BY FaultsFall, QueueTypes DEF OrderInv
<1>2. CASE Receive /\ UNCHANGED <<feed, fed>>
  <2>1. Logged' = Logged /\ Ahead = Logged /\ Ahead' = Logged \cup {evQ[1].event}
    BY <1>2, ReceivedIs DEF Logged, Ahead
  <2>2. ASSUME NEW i \in 1 .. Len(evQ') + 1
        PROVE  Ahead \cup QueuedBefore(i + 1) = Ahead' \cup QueuedBefore(i)'
    <3>1. QueuedBefore(i + 1) \subseteq {evQ[1].event} \cup QueuedBefore(i)'
      <4> SUFFICES ASSUME NEW j \in 1 .. i
                   PROVE  evQ[j].event \in {evQ[1].event} \cup QueuedBefore(i)'
        BY DEF QueuedBefore
      <4>1. CASE j # 1
        <5>1. j - 1 \in 1 .. i - 1 /\ j - 1 \in 1 .. Len(evQ') /\ (j - 1) + 1 = j
          BY <4>1, <1>1, <1>2, ReceivedIs
        <5>2. evQ'[j - 1] = evQ[j]
          BY <1>2, <5>1, ReceivedIs
        <5> QED
          BY <5>1, <5>2 DEF QueuedBefore
      <4> QED
        BY <4>1
    <3>2. {evQ[1].event} \cup QueuedBefore(i)' \subseteq QueuedBefore(i + 1)
      <4>1. evQ[1].event \in QueuedBefore(i + 1)
        BY <1>1, <1>2, ReceivedIs DEF QueuedBefore
      <4>2. ASSUME NEW j \in 1 .. i - 1 PROVE evQ'[j].event \in QueuedBefore(i + 1)
        <5>1. j \in 1 .. Len(evQ') /\ j + 1 \in 1 .. (i + 1) - 1
          BY <1>1, <1>2, ReceivedIs
        <5>2. evQ'[j] = evQ[j + 1]
          BY <1>2, <5>1, ReceivedIs
        <5> QED
          BY <5>1, <5>2 DEF QueuedBefore
      <4> QED
        BY <4>1, <4>2 DEF QueuedBefore
    <3> QED
      BY <2>1, <3>1, <3>2
  <2>3. \A e \in fed' : e \in (Ahead \cup QueuedBefore(Len(evQ) + 1))'
    <3>1. PICK n \in Nat : n = Len(evQ) /\ n = Len(evQ') + 1
      BY <1>1, <1>2, ReceivedIs
    <3>2. n \in 1 .. Len(evQ') + 1
      BY <1>1, <1>2, <3>1, ReceivedIs
    <3>3. Ahead \cup QueuedBefore(n + 1) = Ahead' \cup QueuedBefore(n)'
      BY <2>2, <3>2
    <3> QED
      BY <1>1, <1>2, <3>1, <3>3 DEF QueuedBefore
  <2>4. \A i \in 1 .. Len(evQ') : Ready(h, evQ'[i].event, Ahead' \cup QueuedBefore(i)')
    <3> SUFFICES ASSUME NEW i \in 1 .. Len(evQ')
                 PROVE  Ready(h, evQ'[i].event, Ahead' \cup QueuedBefore(i)')
      OBVIOUS
    <3>1. evQ'[i] = evQ[i + 1] /\ i + 1 \in 1 .. Len(evQ) /\ i \in 1 .. Len(evQ') + 1
      BY <1>1, <1>2, ReceivedIs
    <3> QED
      BY <1>1, <2>2, <3>1
  <2>5. Ready(h, Held'.event, Logged')
    <3>1. 1 \in 1 .. Len(evQ) /\ QueuedBefore(1) = {}
      BY <1>1, <1>2, ReceivedIs DEF QueuedBefore
    <3>2. Ready(h, evQ[1].event, Ahead \cup QueuedBefore(1))
      BY <1>1, <3>1
    <3> QED
      BY <1>2, <2>1, <3>1, <3>2, ReceivedIs
  <2>6. \A e \in Logged' : Ready(h, e, Logged')
    BY <1>1, <2>1
  <2> QED
    BY <2>3, <2>4, <2>5, <2>6 DEF OrderInv
<1>3. CASE Insert /\ UNCHANGED <<feed, fed>>
  <2>1. /\ Ahead' = Ahead /\ Logged' = Logged \cup {Held.event} /\ UNCHANGED evQ
        /\ hpc = "insert" /\ hpc' # "insert"
    BY <1>1, <1>3, InsertedIs DEF Ahead
  <2>2. \A i : QueuedBefore(i)' = QueuedBefore(i)
    BY <2>1 DEF QueuedBefore
  <2>3. \A e \in Logged' : Ready(h, e, Logged')
    BY <1>1, <2>1, ReadyGrows
  <2> QED
    BY <1>1, <1>3, <2>1, <2>2, <2>3 DEF OrderInv
<1>4. ASSUME UNCHANGED <<rows, evQ, feed, fed>>, Ahead' = Ahead,
             hpc' = "insert" => hpc = "insert" /\ Held' = Held
      PROVE  OrderInv(h)'
  <2>1. Logged' = Logged /\ \A i : QueuedBefore(i)' = QueuedBefore(i)
    BY <1>4 DEF Logged, QueuedBefore
  <2> QED
    BY <1>1, <1>4, <2>1 DEF OrderInv
<1>5. CASE UNCHANGED <<rows, evQ, feed, fed>> /\ hpc # "insert" /\ hpc' # "insert"
  <2>1. Ahead' = Ahead
    BY <1>5 DEF Ahead, Logged
  <2> QED
    BY <1>4, <1>5, <2>1
<1>6. CASE UNCHANGED <<rows, evQ, hpc, batch, feed, fed>>
  <2>1. Ahead' = Ahead /\ Held' = Held
    BY <1>6 DEF Ahead, Logged, Held
  <2> QED
    BY <1>4, <1>6, <2>1
<1>7. ASSUME NEW e \in Events, evQ' = Append(evQ, MessageFor(e)), UNCHANGED <<rows, hpc, batch>>,
             fed' = fed \cup {e}, Ready(h, e, fed)
      PROVE  OrderInv(h)'
  <2>1. Logged' = Logged /\ Ahead' = Ahead /\ Held' = Held
    BY <1>7 DEF Ahead, Logged, Held
  <2>2. PICK n \in Nat :
          /\ n = Len(evQ) /\ Len(evQ') = n + 1 /\ evQ'[n + 1].event = e
          /\ \A i \in 1 .. n : evQ'[i] = evQ[i]
          /\ \A i \in 1 .. Len(evQ') : i \in 1 .. n \/ i = n + 1
    BY <1>7, AppendedIs, MessageForType DEF MessageFor
  <2>3. \A i \in 1 .. n + 1 : QueuedBefore(i)' = QueuedBefore(i)
    <3> SUFFICES ASSUME NEW i \in 1 .. n + 1 PROVE QueuedBefore(i)' = QueuedBefore(i)
      OBVIOUS
    <3>1. \A j \in 1 .. i - 1 : evQ'[j] = evQ[j]
      BY <2>2
    <3> QED
      BY <3>1 DEF QueuedBefore
  <2>4. QueuedBefore(n + 2)' = QueuedBefore(n + 1) \cup {e}
    <3>1. \A j \in 1 .. (n + 2) - 1 : j \in 1 .. (n + 1) - 1 \/ j = n + 1
      OBVIOUS
    <3>2. \A j \in 1 .. (n + 1) - 1 : j \in 1 .. (n + 2) - 1 /\ evQ'[j] = evQ[j]
      BY <2>2
    <3>3. n + 1 \in 1 .. (n + 2) - 1
      OBVIOUS
    <3>4. QueuedBefore(n + 2)' = {evQ'[j].event : j \in 1 .. (n + 2) - 1}
      BY DEF QueuedBefore
    <3>5. QueuedBefore(n + 1) = {evQ[j].event : j \in 1 .. (n + 1) - 1}
      BY DEF QueuedBefore
    <3>6. QueuedBefore(n + 2)' \subseteq QueuedBefore(n + 1) \cup {e}
      BY <2>2, <3>1, <3>2, <3>4, <3>5
    <3> QED
      BY <2>2, <3>2, <3>3, <3>4, <3>5, <3>6
  <2>5. \A f \in fed' : f \in (Ahead \cup QueuedBefore(Len(evQ) + 1))'
    <3>1. Len(evQ') + 1 = n + 2
      BY <2>2
    <3>2. QueuedBefore(Len(evQ) + 1)' = QueuedBefore(n + 2)'
      BY <3>1 DEF QueuedBefore
    <3> QED
      BY <1>1, <1>7, <2>1, <2>2, <2>4, <3>2
  <2>6. \A i \in 1 .. Len(evQ') : Ready(h, evQ'[i].event, Ahead' \cup QueuedBefore(i)')
    <3>1. ASSUME NEW i \in 1 .. n PROVE Ready(h, evQ'[i].event, Ahead' \cup QueuedBefore(i)')
      <4>1. i \in 1 .. n + 1
        OBVIOUS
      <4> QED
        BY <1>1, <2>1, <2>2, <2>3, <4>1
    <3>2. Ready(h, e, Ahead' \cup QueuedBefore(n + 1)')
      <4>1. fed \subseteq Ahead \cup QueuedBefore(n + 1)
        BY <1>1, <2>2
      <4>2. n + 1 \in 1 .. n + 1
        OBVIOUS
      <4>3. Ready(h, e, Ahead \cup QueuedBefore(n + 1))
        BY <1>7, <4>1, ReadyGrows
      <4> QED
        BY <2>1, <2>3, <4>2, <4>3
    <3>3. ASSUME NEW i \in 1 .. Len(evQ'), i = n + 1
          PROVE  Ready(h, evQ'[i].event, Ahead' \cup QueuedBefore(i)')
      BY <2>2, <3>2, <3>3
    <3> QED
      BY <2>2, <3>1, <3>3
  <2>7. \A f \in Logged' : Ready(h, f, Logged')
    BY <1>1, <2>1
  <2> QED
    BY <1>1, <1>7, <2>1, <2>5, <2>6, <2>7 DEF OrderInv
<1>8. CASE /\ feed # <<>> /\ feed' = Tail(feed) /\ fed' = fed \cup {Head(feed)}
           /\ evQ' = Append(evQ, MessageFor(Head(feed)))
           /\ UNCHANGED <<rows, hpc, batch>>
  <2>1. Head(feed) \in Events /\ Head(feed) = feed[1] /\ 1 \in 1 .. Len(feed)
    BY <1>8, QueueTypes
  <2>2. fed \cup {feed[j] : j \in 1 .. 1 - 1} = fed
    OBVIOUS
  <2>3. Ready(h, feed[1], fed \cup {feed[j] : j \in 1 .. 1 - 1})
    BY <2>1 DEF FeedInv
  <2>4. Ready(h, Head(feed), fed)
    BY <2>1, <2>2, <2>3
  <2> QED
    BY <1>7, <1>8, <2>1, <2>4
<1>9. CASE /\ \E e \in fed : evQ' = Append(evQ, MessageFor(e))
           /\ UNCHANGED <<rows, hpc, batch, feed, fed>>
  <2>1. PICK e \in fed : evQ' = Append(evQ, MessageFor(e))
    BY <1>9
  <2>2. e \in Events /\ fed' = fed \cup {e} /\ Ready(h, e, fed)
    BY <1>9, <2>1, QueueTypes DEF FeedInv
  <2> QED
    BY <1>7, <1>9, <2>1, <2>2
<1> QED
  BY <1>2, <1>3, <1>5, <1>6, <1>8, <1>9, StepFlow

-----------------------------------------------------------------------------
HeldFor(o, kinds) == Held.event.op = o /\ Held.event.kind \in kinds

\* What the task has in memory of the chains of an operation is behind the
\* table, but no further than one creation that is on its way to a reload.
MemoryInv ==
  /\ Followed \subseteq Listed
  /\ linked \ Foreign \subseteq primary /\ op_data.primary \subseteq primary
  /\ NoFault => Followed \subseteq op_data.known
  /\ NoFault =>
       \A o \in Ours :
         /\ status[o] # "upcoming" => o \in op_data.primary
         /\ LoggedFor(o, {"op_created"}) =>
              \/ o \in op_data.primary
              \/ /\ hpc \in {"progress", "save", "status", "effects", "reload"}
                 /\ HeldFor(o, {"op_created"})
                 /\ hpc \in {"progress", "save", "status"} => status[o] = "upcoming"
                 /\ hpc = "reload" => o \in primary

\* A row of some chain.
Seen(o, kinds) == LoggedFor(o, kinds) \/ elsewhere[o] \cap kinds # {}

\* A status beyond "upcoming" comes from an event beyond the creation.
StartedInv ==
  \A o \in Ours : status[o] # "upcoming" => Seen(o, StatusEvents \ {"op_created"})

\* Another chain has an operation finished: its opening here opens nothing.
Ended(o) == "op_finished" \in elsewhere[o]

\* An operation is open once its opening has been processed, before any of its
\* shares move.
OpenedInv ==
  NoFault =>
    \A o \in Ours :
      /\ LoggedFor(o, Openers) /\ status[o] = "upcoming" =>
           \/ /\ hpc \in {"progress", "save", "status"} /\ HeldFor(o, Openers)
              /\ ~LoggedFor(o, {"op_finished"})
           \/ Ended(o)
      /\ LoggedFor(o, {"invested", "refunded"}) => status[o] # "upcoming" \/ Ended(o)

OfStatus(o, e) == e.op = o /\ e.kind \in StatusEvents

\* Some of the kinds of events have the highest priority among them.
LEMMA HighestExists ==
  ASSUME NEW kinds, kinds \subseteq StatusEvents, kinds # {}
  PROVE  Highest(kinds) # {}
<1> DEFINE ranks == {8 - Priority[k] : k \in kinds}
<1>1. \A k \in StatusEvents : Priority[k] \in 1 .. 8
  BY DEF StatusEvents, Priority
<1>2. ranks \in SUBSET Nat /\ ranks # {}
  BY <1>1
<1>3. PICK n \in ranks : \A m \in ranks : n <= m
  <2> HIDE DEF ranks
  <2> QED
    BY <1>2, LeastNatural
<1>4. PICK k \in kinds : n = 8 - Priority[k]
  BY <1>3
<1>5. \A l \in kinds : 8 - Priority[k] <= 8 - Priority[l]
  BY <1>3, <1>4
<1>6. \A l \in kinds : Priority[l] \in 1 .. 8
  BY <1>1
<1>7. \A l \in kinds : Priority[l] <= Priority[k]
  BY <1>5, <1>6
<1> QED
  BY <1>7 DEF Highest

\* The kinds of the status rows of an operation, whichever chain's they are.
StatusKinds(o) == {e.kind : e \in OfOp(o, StatusEvents)} \cup elsewhere[o]

LEMMA KindsAre ==
  ASSUME TypeInv, NEW o \in Ops
  PROVE  /\ StatusKinds(o) \subseteq StatusEvents /\ elsewhere[o] \subseteq StatusEvents
         /\ StatusHistory(o) = Highest(StatusKinds(o))
         /\ \A k \in StatusEvents : k \in StatusKinds(o) <=> Seen(o, {k})
         /\ \A e \in Logged : OfStatus(o, e) => e.kind \in StatusKinds(o)
<1>1. \A e : e \in OfOp(o, StatusEvents) <=> e \in Logged /\ OfStatus(o, e)
  BY DEF OfOp, Logged, OfStatus
<1>2. elsewhere[o] \subseteq StatusEvents
  BY DEF TypeInv, TypeOK, HandlerTypeOK
<1> QED
  BY <1>1, <1>2 DEF StatusKinds, StatusHistory, Seen, LoggedFor, OfStatus

\* The event with the highest priority decides, and it is not the creation once
\* something else is stored.
LEMMA HistoryIs ==
  ASSUME TypeInv, NEW o \in Ops, Seen(o, StatusEvents)
  PROVE  /\ StatusHistory(o) # {}
         /\ \A k \in StatusHistory(o) : k \in StatusEvents /\ Seen(o, {k})
         /\ Seen(o, StatusEvents \ {"op_created"}) => "op_created" \notin StatusHistory(o)
<1>1. /\ StatusKinds(o) \subseteq StatusEvents /\ StatusHistory(o) = Highest(StatusKinds(o))
      /\ \A k \in StatusEvents : k \in StatusKinds(o) <=> Seen(o, {k})
  BY KindsAre
<1>2. PICK j \in StatusEvents : Seen(o, {j})
  BY DEF Seen, LoggedFor
<1>3. StatusHistory(o) # {}
  BY <1>1, <1>2, HighestExists
<1>4. \A k \in StatusHistory(o) : k \in StatusEvents /\ Seen(o, {k})
  BY <1>1 DEF Highest
<1>5. ASSUME Seen(o, StatusEvents \ {"op_created"}) PROVE "op_created" \notin StatusHistory(o)
  <2>1. PICK l \in StatusEvents \ {"op_created"} : Seen(o, {l})
    BY <1>5 DEF Seen, LoggedFor
  <2>2. ~(Priority[l] <= Priority["op_created"])
    BY DEF StatusEvents, Priority
  <2> QED
    BY <1>1, <2>1, <2>2 DEF Highest
<1> QED
  BY <1>3, <1>4, <1>5

\* The status a synchronisation writes.
LEMMA StatusUpdateIs ==
  ASSUME NEW o \in Ops
  PROVE  \/ StatusUpdate(o) = status[o]
         \/ /\ o \in Unfinished /\ o \in op_data.known /\ o \in op_data.primary
            /\ \E k \in StatusHistory(o) :
                 /\ StatusUpdate(o) = FundingStatusOf[k]
                 /\ FundingStatusOf[k] = "finished" => sold[o] = Total[o]
<1> DEFINE applies == {s \in {FundingStatusOf[k] : k \in StatusHistory(o)} :
                         s = "finished" => sold[o] = Total[o]}
<1>1. StatusUpdate(o) = IF o \in Unfinished \cap op_data.known \cap op_data.primary /\ applies # {}
                          THEN CHOOSE s \in applies : TRUE
                          ELSE status[o]
  BY DEF StatusUpdate, Updated
<1>2. applies # {} => (CHOOSE s \in applies : TRUE) \in applies
  OBVIOUS
<1> QED
  BY <1>1, <1>2

\* ... and when it has to write one.
LEMMA StatusUpdateMust ==
  ASSUME NEW o \in Ops, o \in Unfinished, o \in op_data.known, o \in op_data.primary,
         NEW k \in StatusHistory(o), FundingStatusOf[k] = "finished" => sold[o] = Total[o]
  PROVE  \E l \in StatusHistory(o) :
           /\ StatusUpdate(o) = FundingStatusOf[l]
           /\ FundingStatusOf[l] = "finished" => sold[o] = Total[o]
<1> DEFINE applies == {s \in {FundingStatusOf[l] : l \in StatusHistory(o)} :
                         s = "finished" => sold[o] = Total[o]}
<1>1. FundingStatusOf[k] \in applies
  OBVIOUS
<1>2. (CHOOSE s \in applies : TRUE) \in applies
  BY <1>1
<1>3. StatusUpdate(o) = CHOOSE s \in applies : TRUE
  BY <1>1 DEF StatusUpdate, Updated
<1> QED
  BY <1>2, <1>3

LEMMA FundingStatusIs ==
  ASSUME NEW k \in StatusEvents
  PROVE  /\ FundingStatusOf[k] = "upcoming" <=> k = "op_created"
         /\ FundingStatusOf[k] = "finished" <=> k = "op_finished"
         /\ FundingStatusOf[k] = "paused" <=> k = "op_paused"
BY DEF StatusEvents, Priority, FundingStatusOf

-----------------------------------------------------------------------------
LEMMA LoggedGrows ==
  ASSUME [Next]_vars
  PROVE  /\ rows \subseteq rows' /\ Logged \subseteq Logged'
         /\ ~Insert => rows' = rows /\ Logged' = Logged
<1>1. rows \subseteq rows' /\ (~Insert => rows' = rows)
  <2>1. CASE Receive \/ Insert \/ ReadTotals \/ SaveTotals \/ SyncStatus
    BY <2>1 DEF Receive, Insert, ReadTotals, SaveTotals, SyncStatus, dbVars
  <2>2. CASE AddFirstChain \/ RecordHolding \/ NoEffects \/ Reload \/ SendCommand
    BY <2>2 DEF AddFirstChain, RecordHolding, NoEffects, Reload, SendCommand, dbVars
  <2>3. CASE OthersStep \/ UNCHANGED handlerVars
    BY <2>3 DEF OthersStep, Publish, Register, EvmSale, EvmStatus, handlerVars, dbVars
  <2> QED
    BY <2>1, <2>2, <2>3, StepFrame
<1> QED
  BY <1>1 DEF Logged

\* Only a synchronisation writes a status, except where another chain is primary;
\* what is written was unfinished.
LEMMA StatusFrame ==
  ASSUME TypeInv, [Next]_vars, NEW o \in Ops, status'[o] # status[o]
  PROVE  /\ o \in Unfinished
         /\ \/ /\ SyncStatus /\ status' = [q \in Ops |-> StatusUpdate(q)]
               /\ status'[o] = StatusUpdate(o)
            \/ ~SyncStatus /\ o \in Foreign
<1>1. CASE Receive \/ Insert \/ ReadTotals \/ SaveTotals
  BY <1>1 DEF Receive, Insert, ReadTotals, SaveTotals, dbVars
<1>2. CASE AddFirstChain \/ RecordHolding \/ NoEffects \/ Reload \/ SendCommand
  BY <1>2 DEF AddFirstChain, RecordHolding, NoEffects, Reload, SendCommand, dbVars
<1>3. CASE SyncStatus
  <2>1. status' = [q \in Ops |-> StatusUpdate(q)]
    BY <1>3 DEF SyncStatus
  <2> QED
    BY <1>3, <2>1, StatusUpdateIs
<1>4. CASE OthersStep
  <2>1. PICK q \in Ops, k \in StatusEvents : EvmStatus(q, k)
    BY <1>4 DEF OthersStep, Publish, Register, EvmSale
  <2>2. /\ status \in [Ops -> FundingStatus] /\ q \in Foreign
        /\ status' = [status EXCEPT ![q] = Updated(q, StatusHistory(q)')]
    BY <2>1 DEF EvmStatus, TypeInv, TypeOK, HandlerTypeOK
  <2>3. q = o /\ Updated(o, StatusHistory(o)') # status[o]
    BY <2>2
  <2>4. o \in Unfinished
    BY <2>3 DEF Updated
  <2>5. ~SyncStatus
    BY <1>4 DEF OthersStep, SyncStatus, GoTo, taskVars
  <2> QED
    BY <2>2, <2>3, <2>4, <2>5
<1>5. CASE UNCHANGED handlerVars
  BY <1>5 DEF handlerVars, dbVars
<1> QED
  BY <1>1, <1>2, <1>3, <1>4, <1>5, StepFrame

\* The rows of other chains stay.
LEMMA ElsewhereGrows ==
  ASSUME TypeInv, [Next]_vars, NEW o \in Ops
  PROVE  elsewhere[o] \subseteq elsewhere'[o] /\ (UNCHANGED elsewhere \/ OthersStep)
<1>1. CASE Receive \/ Insert \/ ReadTotals \/ SaveTotals \/ SyncStatus
  BY <1>1 DEF Receive, Insert, ReadTotals, SaveTotals, SyncStatus, dbVars, othersVars
<1>2. CASE AddFirstChain \/ RecordHolding \/ NoEffects \/ Reload \/ SendCommand
  BY <1>2 DEF AddFirstChain, RecordHolding, NoEffects, Reload, SendCommand, dbVars, othersVars
<1>3. CASE OthersStep
  BY <1>3 DEF OthersStep, Publish, Register, EvmSale, EvmStatus, TypeInv, TypeOK, HandlerTypeOK
<1>4. CASE UNCHANGED handlerVars
  BY <1>4 DEF handlerVars, dbVars, othersVars
<1> QED
  BY <1>1, <1>2, <1>3, <1>4, StepFrame

LEMMA SeenStays ==
  ASSUME TypeInv, [Next]_vars, NEW o \in Ops, NEW kinds, Seen(o, kinds)
  PROVE  Seen(o, kinds)'
BY LoggedGrows, ElsewhereGrows DEF Seen, LoggedFor

LEMMA NextStarted == TypeInv /\ StartedInv /\ [Next]_vars => StartedInv'
<1> SUFFICES ASSUME TypeInv, StartedInv, [Next]_vars, NEW o \in Ours, status'[o] # "upcoming"
             PROVE  Seen(o, StatusEvents \ {"op_created"})'
  BY DEF StartedInv
<1>1. o \in Ops /\ o \notin Foreign
  BY DEF Ours, Followed
<1>2. CASE status[o] # "upcoming"
  BY <1>1, <1>2, SeenStays DEF StartedInv
<1>3. CASE status[o] = "upcoming"
  <2>1. status'[o] = StatusUpdate(o)
    BY <1>1, <1>3, StatusFrame
  <2>2. PICK k \in StatusHistory(o) : StatusUpdate(o) = FundingStatusOf[k]
    BY <1>1, <1>3, <2>1, StatusUpdateIs
  <2>3. k \in StatusEvents /\ Seen(o, {k})
    BY <1>1, KindsAre DEF Highest
  <2>4. k # "op_created"
    BY <2>1, <2>2, <2>3, FundingStatusIs
  <2>5. Seen(o, StatusEvents \ {"op_created"})
    BY <2>3, <2>4 DEF Seen, LoggedFor
  <2> QED
    BY <1>1, <2>5, SeenStays
<1> QED
  BY <1>2, <1>3

\* An operation's status leaves "upcoming" once.
LEMMA StatusStays ==
  ASSUME TypeInv, StartedInv, [Next]_vars, NEW o \in Ours, status[o] # "upcoming"
  PROVE  status'[o] # "upcoming"
<1>1. o \in Ops /\ o \notin Foreign
  BY DEF Ours, Followed
<1>2. CASE status'[o] = status[o]
  BY <1>2
<1>3. CASE status'[o] # status[o]
  <2>1. status'[o] = StatusUpdate(o)
    BY <1>1, <1>3, StatusFrame
  <2>2. Seen(o, StatusEvents \ {"op_created"}) /\ Seen(o, StatusEvents)
    BY DEF StartedInv, Seen, LoggedFor
  <2>3. \A k \in StatusHistory(o) : FundingStatusOf[k] # "upcoming"
    BY <1>1, <2>2, HistoryIs, FundingStatusIs
  <2> QED
    BY <1>1, <2>1, <2>3, StatusUpdateIs
<1> QED
  BY <1>2, <1>3

\* ... and never comes back among the unfinished.
LEMMA UnfinishedFalls ==
  ASSUME TypeInv, [Next]_vars, Followed \subseteq Listed
  PROVE  Unfinished' \cap Followed \subseteq Unfinished
<1> SUFFICES ASSUME NEW o \in Unfinished' \cap Followed PROVE o \in Unfinished
  OBVIOUS
<1>1. o \in Ops /\ o \in Listed /\ status'[o] \in {"open", "predeposit", "upcoming"}
  BY DEF Unfinished, Followed
<1>2. CASE status'[o] = status[o]
  BY <1>1, <1>2 DEF Unfinished
<1>3. CASE status'[o] # status[o]
  BY <1>1, <1>3, StatusFrame
<1> QED
  BY <1>2, <1>3

LEMMA NextFollowed ==
  ASSUME Followed \subseteq Listed, [Next]_vars
  PROVE  Followed \subseteq Listed'
<1>1. published \subseteq published' /\ registered \subseteq registered'
  <2>1. CASE Receive \/ Insert \/ ReadTotals \/ SaveTotals \/ SyncStatus
    BY <2>1 DEF Receive, Insert, ReadTotals, SaveTotals, SyncStatus, dbVars, othersVars
  <2>2. CASE AddFirstChain \/ RecordHolding \/ NoEffects \/ Reload \/ SendCommand
    BY <2>2 DEF AddFirstChain, RecordHolding, NoEffects, Reload, SendCommand, dbVars, othersVars
  <2>3. CASE OthersStep \/ UNCHANGED handlerVars
    BY <2>3 DEF OthersStep, Publish, Register, EvmSale, EvmStatus, handlerVars, dbVars, othersVars
  <2> QED
    BY <2>1, <2>2, <2>3, StepFrame
<1> QED
  BY <1>1 DEF Listed

LEMMA InitMemory == Init => MemoryInv /\ StartedInv /\ OpenedInv
<1> SUFFICES ASSUME Init PROVE MemoryInv /\ StartedInv /\ OpenedInv
  OBVIOUS
<1>1. /\ rows = {} /\ linked = {} /\ primary = {} /\ op_data = Loaded
      /\ Followed \subseteq Listed /\ \A o \in Ops : status[o] = "upcoming"
  BY DEF Init, DbInit, Listed, Followed
<1>2. Logged = {}
  BY <1>1 DEF Logged
<1>3. MemoryInv
  BY <1>1, <1>2 DEF MemoryInv, LoggedFor, Loaded, Ours, Followed
<1> QED
  BY <1>1, <1>2, <1>3 DEF StartedInv, OpenedInv, LoggedFor, Ours, Followed

\* What the memory of the task owes an operation whose creation is stored.
Known(o) ==
  LoggedFor(o, {"op_created"}) =>
    \/ o \in op_data.primary
    \/ /\ hpc \in {"progress", "save", "status", "effects", "reload"}
       /\ HeldFor(o, {"op_created"})
       /\ hpc \in {"progress", "save", "status"} => status[o] = "upcoming"
       /\ hpc = "reload" => o \in primary

LEMMA NextMemory ==
  ASSUME HashesDistinct, TypeInv, Budget, MessagesInv, MemoryInv, [Next]_vars
  PROVE  MemoryInv'
<1>1. Followed \subseteq Listed'
  BY NextFollowed DEF MemoryInv
<1>2. \A l \in Loads(op_data) : l.op_data \in {Loaded, op_data} /\ (~l.faulty => l.op_data = Loaded)
  BY HandlerInvRows, LoadsAre DEF HandlerInv, TypeInv, TypeOK, HandlerTypeOK
<1>3. /\ linked' \ Foreign \subseteq primary' /\ op_data'.primary \subseteq primary'
      /\ op_data.primary \subseteq op_data'.primary \/ Reload
      /\ primary \subseteq primary'
  <2>1. CASE Receive \/ Insert \/ ReadTotals \/ SaveTotals \/ SyncStatus
    BY <2>1 DEF Receive, Insert, ReadTotals, SaveTotals, SyncStatus, dbVars, MemoryInv
  <2>2. CASE AddFirstChain
    BY <2>2 DEF AddFirstChain, MemoryInv
  <2>3. CASE RecordHolding \/ NoEffects \/ SendCommand
    BY <2>3 DEF RecordHolding, NoEffects, SendCommand, dbVars, MemoryInv
  <2>4. CASE Reload
    <3>1. UNCHANGED <<linked, primary>>
      BY <2>4 DEF Reload, dbVars
    <3>2. op_data' \in {Loaded, op_data}
      BY <1>2, <2>4 DEF Reload
    <3> QED
      BY <2>4, <3>1, <3>2 DEF MemoryInv, Loaded
  <2>5. CASE OthersStep \/ UNCHANGED handlerVars
    BY <2>5 DEF OthersStep, Publish, Register, EvmSale, EvmStatus, handlerVars, dbVars, taskVars, MemoryInv
  <2> QED
    BY <2>1, <2>2, <2>3, <2>4, <2>5, StepFrame
<1>4. ASSUME NoFault'
      PROVE  /\ Followed \subseteq op_data'.known
             /\ \A o \in Ours : (status'[o] # "upcoming" => o \in op_data'.primary) /\ Known(o)'
  <2>1. /\ NoFault /\ ~DbFault
        /\ Followed \subseteq op_data.known
        /\ \A o \in Ours : o \in Ops /\ o \in Listed /\ (status[o] # "upcoming" => o \in op_data.primary) /\ Known(o)
    BY <1>4, FaultsFall DEF MemoryInv, Known, Ours, Followed
  <2>2. CASE Receive
    <3>1. Logged' = Logged /\ UNCHANGED <<status, op_data>> /\ hpc = "recv"
      BY <2>2 DEF Receive, dbVars, Logged
    <3> QED
      BY <2>1, <3>1 DEF Known, LoggedFor
  <2>3. CASE Insert
    <3>1. UNCHANGED <<status, op_data>>
      BY <2>3 DEF Insert
    <3>2. /\ Logged' = Logged \cup {Held.event} /\ hpc = "insert"
          /\ hpc' = "progress" <=> Held.hash \notin Hashes /\ FactoryNeedsRefresh(Held.event.kind)
          /\ hpc' = "progress" => batch' = batch
      BY <2>1, <2>3, InsertedIs
    <3>3. ASSUME NEW o \in Ours, LoggedFor(o, {"op_created"})', o \notin op_data.primary
          PROVE  hpc' = "progress" /\ HeldFor(o, {"op_created"})'
      <4>1. ~LoggedFor(o, {"op_created"})
        BY <2>1, <3>2, <3>3 DEF Known
      <4>2. Held.event.op = o /\ Held.event.kind = "op_created" /\ Held.event \notin Logged
        BY <3>2, <3>3, <4>1 DEF LoggedFor
      <4>3. Held.hash \notin Hashes
        BY <3>2, <4>2, StoredByHash
      <4>4. FactoryNeedsRefresh("op_created")
        BY DEF FactoryNeedsRefresh, StatusEvents, Priority
      <4> QED
        BY <3>2, <4>2, <4>3, <4>4 DEF HeldFor, Held
    <3> QED
      BY <2>1, <3>1, <3>3 DEF Known
  <2>4. CASE ReadTotals \/ SaveTotals
    <3>1. /\ UNCHANGED <<status, op_data, primary, rows, batch>>
          /\ hpc \in {"progress", "save"} /\ hpc' \in {"save", "status"}
      BY <2>4 DEF ReadTotals, SaveTotals, GoTo, dbVars
    <3> QED
      BY <2>1, <3>1 DEF Known, LoggedFor, Logged, HeldFor, Held
  <2>5. CASE SyncStatus
    <3>1. /\ UNCHANGED <<op_data, primary, rows>> /\ hpc = "status"
          /\ Unfinished # {} => hpc' = "effects" /\ batch' = batch
          /\ status' = status \/ status' = [q \in Ops |-> StatusUpdate(q)]
      BY <2>1, <2>5 DEF SyncStatus, GoTo
    <3>2. \A o \in Ours : status'[o] = status[o] \/ o \in op_data.primary
      BY <2>1, <3>1, StatusUpdateIs
    <3>3. ASSUME NEW o \in Ours PROVE Known(o)'
      <4>1. CASE o \in op_data.primary \/ ~LoggedFor(o, {"op_created"})
        BY <3>1, <4>1 DEF Known, LoggedFor, Logged
      <4>2. CASE ~(o \in op_data.primary \/ ~LoggedFor(o, {"op_created"}))
        <5>1. status[o] = "upcoming" /\ HeldFor(o, {"op_created"})
          BY <2>1, <3>1, <4>2 DEF Known
        <5>2. o \in Unfinished
          BY <2>1, <5>1 DEF Unfinished
        <5> QED
          BY <3>1, <5>1, <5>2 DEF Known, HeldFor, Held
      <4> QED
        BY <4>1, <4>2
    <3> QED
      BY <2>1, <3>1, <3>2, <3>3
  <2>6. CASE AddFirstChain
    <3>1. /\ UNCHANGED <<status, op_data, rows, batch>>
          /\ primary' = primary \cup (({Held.event.op} \cap registered) \ (linked \cup Foreign))
          /\ hpc = "effects" /\ hpc' = "reload"
      BY <2>1, <2>6 DEF AddFirstChain, GoTo
    <3>2. \A o \in Ours : HeldFor(o, {"op_created"}) => o \in primary'
      BY <2>1, <3>1 DEF HeldFor, MemoryInv, Ours, Listed
    <3> QED
      BY <2>1, <3>1, <3>2 DEF Known, LoggedFor, Logged, HeldFor, Held
  <2>7. CASE RecordHolding \/ NoEffects
    <3>1. UNCHANGED <<status, op_data, rows>> /\ hpc = "effects" /\ Held.event.kind # "op_created"
      BY <2>7 DEF RecordHolding, NoEffects, dbVars
    <3> QED
      BY <2>1, <3>1 DEF Known, LoggedFor, Logged, HeldFor
  <2>8. CASE Reload
    <3>1. UNCHANGED <<status, primary, rows>> /\ hpc = "reload" /\ hpc' = "send"
      BY <2>8 DEF Reload, GoTo, dbVars
    <3>2. op_data' = Loaded
      BY <1>2, <2>1, <2>8 DEF Reload
    <3>3. op_data.primary \subseteq primary /\ Followed \subseteq Listed
      BY DEF MemoryInv
    <3>4. op_data'.known = Listed /\ op_data'.primary = primary
      BY <3>2 DEF Loaded
    <3>5. ASSUME NEW o \in Ours PROVE Known(o)'
      BY <2>1, <3>1, <3>3, <3>4 DEF Known, LoggedFor, Logged
    <3> QED
      BY <2>1, <3>1, <3>3, <3>4, <3>5
  <2>9. CASE SendCommand
    <3>1. UNCHANGED <<status, op_data, rows>> /\ hpc = "send"
      BY <2>9 DEF SendCommand, dbVars
    <3> QED
      BY <2>1, <3>1 DEF Known, LoggedFor, Logged
  <2>10. CASE OthersStep \/ UNCHANGED handlerVars
    <3>1. UNCHANGED <<op_data, primary, rows, batch, hpc>>
      BY <2>10 DEF OthersStep, Publish, Register, EvmSale, EvmStatus, handlerVars, dbVars, taskVars
    <3>2. \A o \in Ours : status'[o] = status[o]
      <4>1. ~SyncStatus
        BY <2>10 DEF OthersStep, SyncStatus, GoTo, handlerVars, taskVars
      <4> QED
        BY <4>1, StatusFrame DEF Ours, Followed
    <3> QED
      BY <2>1, <3>1, <3>2 DEF Known, LoggedFor, Logged, HeldFor, Held
  <2> QED
    BY <2>2, <2>3, <2>4, <2>5, <2>6, <2>7, <2>8, <2>9, <2>10, StepFrame
<1> QED
  BY <1>1, <1>3, <1>4 DEF MemoryInv, Known

\* What is promised of an operation that is still upcoming.
Opening(o) ==
  /\ LoggedFor(o, Openers) /\ status[o] = "upcoming" =>
       \/ /\ hpc \in {"progress", "save", "status"} /\ HeldFor(o, Openers)
          /\ ~LoggedFor(o, {"op_finished"})
       \/ Ended(o)
  /\ LoggedFor(o, {"invested", "refunded"}) => status[o] # "upcoming" \/ Ended(o)

LEMMA NextOpened ==
  ASSUME NEW h \in Histories, Lifecycle, HashesDistinct, TypeInv, Budget, MessagesInv, OrderInv(h),
         MemoryInv, StartedInv, OpenedInv, [Next]_vars
  PROVE  OpenedInv'
<1> SUFFICES ASSUME NoFault', NEW o \in Ours PROVE Opening(o)'
  BY DEF OpenedInv, Opening
<1>1. /\ NoFault /\ ~DbFault /\ o \in Ops /\ o \in Listed /\ o \in Followed /\ o \notin Foreign
      /\ Opening(o)
      /\ \A e \in Logged : Ready(h, e, Logged)
  <2>1. NoFault /\ ~DbFault
    BY FaultsFall
  <2> QED
    BY <2>1 DEF OpenedInv, Opening, OrderInv, MemoryInv, Ours, Followed
<1>2. status[o] # "upcoming" => status'[o] # "upcoming"
  BY <1>1, StatusStays
<1>3. Ended(o) => Ended(o)'
  BY <1>1, ElsewhereGrows DEF Ended
<1>4. CASE Ended(o)
  BY <1>3, <1>4 DEF Opening
<1>5. CASE Insert /\ ~Ended(o)
  <2>1. /\ Logged' = Logged \cup {Held.event} /\ hpc = "insert"
        /\ hpc' = "progress" <=> Held.hash \notin Hashes /\ FactoryNeedsRefresh(Held.event.kind)
        /\ hpc' = "progress" => batch' = batch
        /\ Ready(h, Held.event, Logged) /\ UNCHANGED status
    BY <1>1, <1>5, InsertedIs DEF OrderInv, Insert
  <2>2. LoggedFor(o, Openers) => status[o] # "upcoming"
    BY <1>1, <1>5, <2>1 DEF Opening
  <2>3. ASSUME LoggedFor(o, Openers)', status[o] = "upcoming"
        PROVE  hpc' = "progress" /\ HeldFor(o, Openers)' /\ ~LoggedFor(o, {"op_finished"})'
    <3>1. Held.event.op = o /\ Held.event.kind \in Openers /\ Held.event \notin Logged
      BY <2>1, <2>2, <2>3 DEF LoggedFor
    <3>2. Held.hash \notin Hashes
      BY <2>1, <3>1, StoredByHash
    <3>3. FactoryNeedsRefresh(Held.event.kind) /\ Held.event.kind # "op_finished"
      BY <3>1 DEF FactoryNeedsRefresh, StatusEvents, Priority, Openers
    <3>4. ~LoggedFor(o, {"op_finished"})
      BY <1>1, <2>2, <2>3, ReadyIs DEF LoggedFor
    <3> QED
      BY <2>1, <3>1, <3>2, <3>3, <3>4 DEF HeldFor, Held, LoggedFor
  <2>4. ASSUME LoggedFor(o, {"invested", "refunded"})' PROVE status[o] # "upcoming"
    <3>1. CASE LoggedFor(o, {"invested", "refunded"})
      BY <1>1, <1>5, <3>1 DEF Opening
    <3>2. CASE ~LoggedFor(o, {"invested", "refunded"})
      <4>1. Held.event.op = o /\ Held.event.kind \in {"invested", "refunded"}
        BY <2>1, <2>4, <3>2 DEF LoggedFor
      <4>2. LoggedFor(o, Openers)
        BY <2>1, <4>1, ReadyIs DEF LoggedFor
      <4> QED
        BY <2>2, <4>2
    <3> QED
      BY <3>1, <3>2
  <2> QED
    BY <2>1, <2>3, <2>4 DEF Opening
<1>6. CASE SyncStatus /\ ~Ended(o)
  <2>1. /\ UNCHANGED rows /\ hpc = "status"
        /\ Unfinished # {} => status' = [q \in Ops |-> StatusUpdate(q)]
    BY <1>1, <1>6 DEF SyncStatus
  <2>2. ASSUME LoggedFor(o, Openers), status[o] = "upcoming" PROVE status'[o] # "upcoming"
    <3>1. HeldFor(o, Openers) /\ ~LoggedFor(o, {"op_finished"})
      BY <1>1, <1>6, <2>2 DEF Opening
    <3>2. LoggedFor(o, {"op_created"})
      BY <1>1, <2>2, ReadyIs DEF LoggedFor, StatusEvents, Priority, Openers
    <3>3. o \in op_data.primary /\ o \in op_data.known
      BY <1>1, <3>1, <3>2 DEF MemoryInv, HeldFor, Openers
    <3>4. o \in Unfinished
      BY <1>1, <2>2 DEF Unfinished
    <3>5. Seen(o, StatusEvents) /\ Seen(o, StatusEvents \ {"op_created"})
      BY <2>2 DEF Seen, LoggedFor, StatusEvents, Priority, Openers
    <3>6. /\ StatusHistory(o) # {}
          /\ \A k \in StatusHistory(o) : k \in StatusEvents /\ k # "op_created" /\ Seen(o, {k})
      BY <1>1, <3>5, HistoryIs
    <3>7. ~Seen(o, {"op_finished"})
      BY <1>6, <3>1 DEF Seen, Ended
    <3>8. \A k \in StatusHistory(o) : FundingStatusOf[k] # "upcoming" /\ FundingStatusOf[k] # "finished"
      BY <3>6, <3>7, FundingStatusIs
    <3>9. StatusUpdate(o) # "upcoming"
      BY <1>1, <3>3, <3>4, <3>6, <3>8, StatusUpdateMust
    <3> QED
      BY <1>1, <2>1, <3>4, <3>9
  <2> QED
    BY <1>1, <1>2, <1>6, <2>1, <2>2 DEF LoggedFor, Logged, Opening
<1>7. ASSUME UNCHANGED rows, status'[o] = status[o], ~Ended(o),
             hpc \in {"progress", "save", "status"} =>
               hpc' \in {"progress", "save", "status"} /\ batch' = batch
      PROVE  Opening(o)'
  BY <1>1, <1>7 DEF LoggedFor, Logged, HeldFor, Held, Opening
<1>8. CASE (Receive \/ ReadTotals \/ SaveTotals) /\ ~Ended(o)
  BY <1>7, <1>8 DEF Receive, ReadTotals, SaveTotals, GoTo, dbVars
<1>9. CASE (AddFirstChain \/ RecordHolding \/ NoEffects \/ Reload \/ SendCommand) /\ ~Ended(o)
  BY <1>7, <1>9 DEF AddFirstChain, RecordHolding, NoEffects, Reload, SendCommand, dbVars
<1>10. CASE (OthersStep \/ UNCHANGED handlerVars) /\ ~Ended(o)
  <2>1. UNCHANGED <<rows, hpc, batch>>
    BY <1>10 DEF OthersStep, Publish, Register, EvmSale, EvmStatus, handlerVars, dbVars, taskVars
  <2>2. ~SyncStatus
    BY <1>10 DEF OthersStep, SyncStatus, GoTo, handlerVars, taskVars
  <2>3. status'[o] = status[o]
    BY <1>1, <2>2, StatusFrame
  <2> QED
    BY <1>7, <1>10, <2>1, <2>3
<1> QED
  BY <1>4, <1>5, <1>6, <1>8, <1>9, <1>10, StepFrame

-----------------------------------------------------------------------------
\* Every custodial row has its holding, or is in hand.
MatchInv ==
  NoFault /\ Unfinished \cap Followed # {} =>
    \A e \in Custodial : holdings[e] + Pending(e) = Cardinality(RowsFor(e))

LEMMA NextMatch ==
  ASSUME HashesDistinct, TypeInv, Budget, MessagesInv, MemoryInv, HoldingsInv, MatchInv, [Next]_vars
  PROVE  MatchInv'
<1> USE DEF Inserted
<1> SUFFICES ASSUME NoFault', Unfinished' \cap Followed # {}, NEW e \in Custodial
             PROVE  holdings'[e] + Pending(e)' = Cardinality(RowsFor(e)')
  BY DEF MatchInv
<1>1. NoFault /\ ~DbFault /\ Unfinished # {} /\ holdings[e] + Pending(e) = Cardinality(RowsFor(e))
  <2>1. Unfinished \cap Followed # {}
    BY UnfinishedFalls DEF MemoryInv
  <2> QED
    BY <2>1, FaultsFall DEF MatchInv
<1>2. /\ e \in Events /\ e.kind = "invested_fiat" /\ Pending(e) \in {0, 1}
      /\ Cardinality(RowsFor(e)) \in Nat /\ holdings \in [Events -> Nat]
  BY HandlerAssumption, RowsForFinite DEF Pending, HoldingsInv
<1>3. ASSUME UNCHANGED <<rows, holdings>>, Pending(e)' = Pending(e)
      PROVE  holdings'[e] + Pending(e)' = Cardinality(RowsFor(e)')
  BY <1>1, <1>3 DEF RowsFor
<1>4. CASE Receive
  BY <1>3, <1>4 DEF Receive, Pending, dbVars
<1>5. CASE Insert
  <2>1. /\ UNCHANGED holdings /\ hpc = "insert" /\ Pending(e) = 0
        /\ hpc' = "progress" <=> Held.hash \notin Hashes /\ FactoryNeedsRefresh(Held.event.kind)
        /\ hpc' \in {"recv", "progress"} /\ (hpc' = "progress" => batch' = batch)
    BY <1>1, <1>5, InsertedIs DEF Insert, Pending
  <2>2. CASE Held.hash \in Hashes
    <3>1. rows' = rows
      BY <1>1, <1>5, <2>2, InsertedIs
    <3> QED
      BY <1>3, <2>1, <2>2, <3>1 DEF Pending
  <2>3. CASE Held.hash \notin Hashes
    <3>1. rows' = rows \cup {Held} /\ Held \notin rows
      BY <1>1, <1>5, <2>3, InsertedIs DEF Hashes
    <3>2. Cardinality(RowsFor(e)') = Cardinality(RowsFor(e)) + IF Held.event = e THEN 1 ELSE 0
      BY <1>2, <3>1, InsertCounts DEF TypeInv
    <3>3. Held.event = e => FactoryNeedsRefresh(Held.event.kind)
      BY <1>2 DEF FactoryNeedsRefresh
    <3>4. Pending(e)' = IF Held.event = e THEN 1 ELSE 0
      BY <2>1, <2>3, <3>3 DEF Pending, Held
    <3> QED
      BY <1>1, <1>2, <2>1, <3>2, <3>4
  <2> QED
    BY <2>2, <2>3
<1>6. CASE ReadTotals \/ SaveTotals
  BY <1>3, <1>6 DEF ReadTotals, SaveTotals, GoTo, Pending, Held, dbVars
<1>7. CASE SyncStatus
  BY <1>1, <1>3, <1>7 DEF SyncStatus, GoTo, Pending, Held
<1>8. CASE AddFirstChain
  BY <1>2, <1>3, <1>8 DEF AddFirstChain, GoTo, Pending
<1>9. CASE RecordHolding
  <2>1. hpc = "effects" /\ hpc' = "recv" /\ UNCHANGED rows
    BY <1>9 DEF RecordHolding, GoTo
  <2>2. Pending(e)' = 0 /\ RowsFor(e)' = RowsFor(e)
    BY <2>1 DEF Pending, RowsFor
  <2>3. CASE Held.event = e
    <3>1. Pending(e) = 1 /\ holdings' = [holdings EXCEPT ![e] = holdings[e] + 1]
      BY <1>1, <1>9, <2>1, <2>3 DEF Pending, RecordHolding
    <3> QED
      BY <1>1, <1>2, <2>2, <3>1
  <2>4. CASE Held.event # e
    <3>1. holdings'[e] = holdings[e] /\ Pending(e) = 0
      BY <1>2, <1>9, <2>4 DEF Pending, RecordHolding
    <3> QED
      BY <1>1, <1>2, <2>2, <3>1
  <2> QED
    BY <2>3, <2>4
<1>10. CASE NoEffects \/ Reload \/ SendCommand
  BY <1>2, <1>3, <1>10 DEF NoEffects, Reload, SendCommand, GoTo, Pending, dbVars
<1>11. CASE OthersStep \/ UNCHANGED handlerVars
  BY <1>3, <1>11 DEF OthersStep, Publish, Register, EvmSale, EvmStatus, handlerVars, dbVars, taskVars, Pending, Held
<1> QED
  BY <1>4, <1>5, <1>6, <1>7, <1>8, <1>9, <1>10, <1>11, StepFrame

LEMMA InitMatch == Init => MatchInv
<1> SUFFICES ASSUME Init, NEW e \in Custodial PROVE holdings[e] + Pending(e) = Cardinality(RowsFor(e))
  BY DEF MatchInv
<1>1. rows = {} /\ hpc = "recv" /\ holdings[e] = 0
  BY HandlerAssumption DEF Init, DbInit
<1>2. Cardinality(RowsFor(e)) = 0
  BY <1>1, FS_EmptySet DEF RowsFor
<1> QED
  BY <1>1, <1>2 DEF Pending, Inserted

-----------------------------------------------------------------------------
\* The progress columns are those of the rows, except between a sale and the
\* write that follows it; sales elsewhere may overtake the totals in hand.
ProgressInv ==
  /\ \A o \in Ours : status[o] = "upcoming" => sold[o] = 0 /\ soldHere[o] = 0 /\ evmSold[o] = 0
  /\ NoFault /\ AllFit =>
       \A o \in Ongoing \cap Ours :
         /\ hpc \notin {"progress", "save"} =>
              /\ soldHere[o] = NetFunded(o, 0)
              /\ sold[o] <= NetFunded(o, evmSold[o])
              /\ NetFunded(o, evmSold[o]) <= sold[o] + evmSold[o]
         /\ hpc = "save" =>
              /\ o \in DOMAIN totals /\ totals[o].here = NetFunded(o, 0)
              /\ \E k \in 0 .. evmSold[o] : totals[o].all = NetFunded(o, k)


LEMMA NetFundedKept ==
  ASSUME NEW o,
         \A kind \in {"invested", "refunded"} :
           {r \in rows' : r.event.op = o /\ r.event.kind = kind} =
           {r \in rows : r.event.op = o /\ r.event.kind = kind}
  PROVE  \A n : NetFunded(o, n)' = NetFunded(o, n)
<1>1. /\ {r \in rows' : r.event.op = o /\ r.event.kind = "invested"} =
           {r \in rows : r.event.op = o /\ r.event.kind = "invested"}
      /\ {r \in rows' : r.event.op = o /\ r.event.kind = "refunded"} =
           {r \in rows : r.event.op = o /\ r.event.kind = "refunded"}
  OBVIOUS
<1>2. SharesOf(o, "invested")' = SharesOf(o, "invested")
  BY <1>1 DEF SharesOf, MapThenSumSet, MapThenFoldSet
<1>3. SharesOf(o, "refunded")' = SharesOf(o, "refunded")
  BY <1>1 DEF SharesOf, MapThenSumSet, MapThenFoldSet
<1> QED
  BY <1>2, <1>3 DEF NetFunded

LEMMA InitProgress == Init => ProgressInv
<1> SUFFICES ASSUME Init PROVE ProgressInv
  OBVIOUS
<1>1. \A o \in Ops : status[o] = "upcoming" /\ sold[o] = 0 /\ soldHere[o] = 0 /\ evmSold[o] = 0
  BY DEF Init, DbInit
<1>2. Ongoing \cap Ours = {}
  BY <1>1 DEF Ongoing, Ours, Followed
<1> QED
  BY <1>1, <1>2 DEF ProgressInv, Ours, Followed

\* Who writes the progress of an operation.
LEMMA ProgressFrame ==
  ASSUME [Next]_vars, ~SaveTotals
  PROVE  /\ UNCHANGED soldHere
         /\ \/ UNCHANGED <<sold, evmSold>>
            \/ \E q \in Ongoing : EvmSale(q) /\ OthersStep
<1>1. CASE Receive \/ Insert \/ ReadTotals \/ SyncStatus
  BY <1>1 DEF Receive, Insert, ReadTotals, SyncStatus, dbVars, progressVars, othersVars
<1>2. CASE AddFirstChain \/ RecordHolding \/ NoEffects \/ Reload \/ SendCommand
  BY <1>2 DEF AddFirstChain, RecordHolding, NoEffects, Reload, SendCommand, dbVars, progressVars,
              othersVars
<1>3. CASE OthersStep
  <2>1. CASE \E q \in published : EvmSale(q)
    BY <1>3, <2>1 DEF EvmSale
  <2>2. CASE ~\E q \in published : EvmSale(q)
    BY <1>3, <2>2 DEF OthersStep, Publish, Register, EvmStatus, progressVars
  <2> QED
    BY <2>1, <2>2
<1>4. CASE UNCHANGED handlerVars
  BY <1>4 DEF handlerVars, dbVars, progressVars, othersVars
<1> QED
  BY <1>1, <1>2, <1>3, <1>4, StepFrame

LEMMA NextProgress ==
  ASSUME HashesDistinct, TypeInv, TypeInv', Budget, MessagesInv, MemoryInv, StartedInv, OpenedInv,
         FinishInv, ProgressInv, [Next]_vars
  PROVE  ProgressInv'
<1>2. ASSUME NEW o \in Ours, status'[o] = "upcoming"
      PROVE  sold'[o] = 0 /\ soldHere'[o] = 0 /\ evmSold'[o] = 0
  <2> USE DEF Ours, Followed
  <2>1. status[o] = "upcoming" /\ sold[o] = 0 /\ soldHere[o] = 0 /\ evmSold[o] = 0
    BY <1>2, StatusStays DEF ProgressInv
  <2>2. CASE SaveTotals
    <3>1. o \notin DOMAIN totals
      BY <2>1 DEF FinishInv
    <3>2. sold'[o] = sold[o] /\ soldHere'[o] = soldHere[o] /\ evmSold' = evmSold
      BY <2>2, <3>1 DEF SaveTotals, progressVars, othersVars
    <3> QED
      BY <2>1, <3>2
  <2>3. CASE ~SaveTotals
    <3>1. ASSUME NEW q \in Ongoing, EvmSale(q)
          PROVE  sold'[o] = sold[o] /\ evmSold'[o] = evmSold[o]
      <4>1. q # o
        BY <2>1, <3>1 DEF Ongoing
      <4> QED
        BY <3>1, <4>1 DEF EvmSale, TypeInv, TypeOK, HandlerTypeOK
    <3> QED
      BY <2>1, <2>3, <3>1, ProgressFrame
  <2> QED
    BY <2>2, <2>3
<1>3. ASSUME NoFault', AllFit', NEW o \in Ongoing' \cap Ours
      PROVE  /\ hpc' \notin {"progress", "save"} =>
                  /\ soldHere'[o] = NetFunded(o, 0)'
                  /\ sold'[o] <= NetFunded(o, evmSold[o])'
                  /\ NetFunded(o, evmSold[o])' <= sold'[o] + evmSold'[o]
             /\ hpc' = "save" =>
                  /\ o \in DOMAIN totals' /\ totals'[o].here = NetFunded(o, 0)'
                  /\ \E k \in 0 .. evmSold'[o] : totals'[o].all = NetFunded(o, k)'
  <2>1. /\ NoFault /\ ~DbFault /\ AllFit /\ o \in Ops /\ o \in Listed /\ o \in Unfinished
        /\ o \in Ours /\ o \notin Foreign
        /\ status'[o] \in {"open", "predeposit"}
    <3>1. NoFault /\ ~DbFault /\ rows \subseteq rows'
      BY <1>3, FaultsFall, LoggedGrows
    <3>2. o \in Unfinished' \cap Followed
      BY <1>3 DEF Ongoing, Unfinished, Ours
    <3>3. o \in Unfinished /\ o \in Listed
      BY <3>2, UnfinishedFalls DEF MemoryInv
    <3> QED
      BY <1>3, <3>1, <3>3 DEF AllFit, Ongoing, Ours, Followed
  <2>2. evmSold[o] \in Nat /\ evmSold'[o] \in Nat /\ evmSold \in [Ops -> Nat] /\ sold \in [Ops -> Nat]
    BY <2>1 DEF TypeInv, TypeOK, HandlerTypeOK
  <2> DEFINE Net(n) == NetFunded(o, n)
  <2>3. RowsOK
    BY HandlerInvRows DEF TypeInv, TypeOK, HandlerInv
  <2>4. \A n \in Nat : /\ Net(n) \in Nat /\ Net(0) <= Net(n) /\ Net(n) <= Net(0) + n
                       /\ Net(n) <= Net(n + 1) /\ Net(n + 1) <= Net(n) + 1
    BY <2>3, NetFundedIs
  <2>5. ASSUME UNCHANGED rows PROVE \A n : NetFunded(o, n)' = Net(n)
    BY <2>5, NetFundedKept
  <2>6. CASE status[o] = "upcoming"
    <3>1. SyncStatus /\ status'[o] = StatusUpdate(o)
      BY <2>1, <2>6, StatusFrame
    <3>2. ~Ended(o)
      <4> SUFFICES ASSUME Ended(o) PROVE FALSE
        OBVIOUS
      <4>1. PICK k \in StatusHistory(o) : StatusUpdate(o) = FundingStatusOf[k]
        BY <2>1, <2>6, <3>1, StatusUpdateIs
      <4>2. k \in StatusEvents /\ Priority["op_finished"] <= Priority[k]
        BY <2>1, <4>1, KindsAre DEF Ended, Highest, StatusKinds
      <4>3. k \in Closers
        BY <4>2 DEF StatusEvents, Priority, Closers
      <4> QED
        BY <2>1, <3>1, <4>1, <4>3 DEF Closers, FundingStatusOf
    <3>3. ~LoggedFor(o, {"invested", "refunded"})
      BY <2>1, <2>6, <3>2 DEF OpenedInv
    <3>4. \A n \in Nat : Net(n) = n
      BY <3>3, NetFundedOfNone DEF LoggedFor, Logged
    <3>5. /\ UNCHANGED <<rows, sold, soldHere, evmSold>> /\ hpc' \in {"effects", "recv"}
      BY <3>1 DEF SyncStatus, GoTo, progressVars, othersVars
    <3>6. sold[o] = 0 /\ soldHere[o] = 0 /\ evmSold[o] = 0
      BY <2>1, <2>6 DEF ProgressInv
    <3>7. NetFunded(o, 0)' = 0 /\ NetFunded(o, evmSold[o])' = 0
      BY <2>5, <3>4, <3>5, <3>6
    <3> QED
      BY <3>5, <3>6, <3>7
  <2>7. CASE status[o] # "upcoming"
    <3>1. /\ o \in Ongoing \cap Ours
          /\ hpc \notin {"progress", "save"} =>
               /\ soldHere[o] = Net(0)
               /\ sold[o] <= Net(evmSold[o])
               /\ Net(evmSold[o]) <= sold[o] + evmSold[o]
          /\ hpc = "save" =>
               /\ o \in DOMAIN totals /\ totals[o].here = Net(0)
               /\ \E k \in 0 .. evmSold[o] : totals[o].all = Net(k)
      BY <1>3, <2>1, <2>7 DEF ProgressInv, Ongoing, Unfinished
    <3>2. CASE UNCHANGED <<sold, soldHere, evmSold, rows>> /\ hpc \notin {"progress", "save"}
                 /\ hpc' \notin {"progress", "save"}
      <4>1. NetFunded(o, 0)' = Net(0) /\ NetFunded(o, evmSold[o])' = Net(evmSold[o])
        BY <2>5, <3>2
      <4> QED
        BY <3>1, <3>2, <4>1
    <3>3. CASE Insert
      <4>1. /\ UNCHANGED <<sold, soldHere, evmSold>> /\ hpc = "insert"
            /\ hpc' \in {"recv", "progress"}
            /\ hpc' = "recv" => Held.hash \in Hashes \/ ~FactoryNeedsRefresh(Held.event.kind)
            /\ rows' = rows \/ (Held.hash \notin Hashes /\ rows' = rows \cup {Held})
        BY <2>1, <3>3, InsertedIs DEF Insert, progressVars, othersVars
      <4>2. CASE hpc' = "recv"
        <5>1. rows' = rows \/ (rows' = rows \cup {Held} /\ Held.event.kind \notin {"invested", "refunded"})
          BY <4>1, <4>2 DEF FactoryNeedsRefresh
        <5>2. \A n : NetFunded(o, n)' = Net(n)
          BY <5>1, NetFundedKept
        <5>3. NetFunded(o, 0)' = Net(0) /\ NetFunded(o, evmSold[o])' = Net(evmSold[o])
          BY <4>1, <5>2
        <5> QED
          BY <3>1, <4>1, <4>2, <5>3
      <4> QED
        BY <4>1, <4>2
    <3>4. CASE ReadTotals
      <4>1. TotalsFit
        BY <2>1 DEF AllFit, TotalsFit
      <4>2. /\ totals' = [q \in Ongoing |-> TotalsOf(q)] /\ hpc' = "save"
            /\ UNCHANGED <<rows, evmSold>>
        BY <2>1, <3>4, <4>1 DEF ReadTotals, GoTo, dbVars, othersVars
      <4>3. o \in DOMAIN totals' /\ totals'[o] = TotalsOf(o)
        BY <3>1, <4>2
      <4>4. totals'[o].here = Net(0) /\ totals'[o].all = Net(evmSold[o])
        BY <4>3 DEF TotalsOf
      <4>5. NetFunded(o, 0)' = Net(0) /\ \A k : NetFunded(o, k)' = Net(k)
        BY <2>5, <4>2
      <4>6. evmSold[o] \in 0 .. evmSold'[o]
        BY <2>2, <4>2
      <4> HIDE DEF Net
      <4> QED
        BY <4>2, <4>3, <4>4, <4>5, <4>6
    <3>5. CASE SaveTotals
      <4>1. /\ sold' = [q \in Ops |-> IF q \in DOMAIN totals THEN totals[q].all ELSE sold[q]]
            /\ soldHere' = [q \in Ops |-> IF q \in DOMAIN totals THEN totals[q].here
                                                                 ELSE soldHere[q]]
            /\ UNCHANGED <<rows, evmSold>> /\ hpc = "save" /\ hpc' = "status"
        BY <2>1, <3>5 DEF SaveTotals, GoTo, othersVars
      <4>2. PICK k \in 0 .. evmSold[o] : totals[o].all = Net(k)
        BY <3>1, <4>1
      <4>3. o \in DOMAIN totals /\ sold'[o] = Net(k) /\ soldHere'[o] = Net(0)
        BY <2>1, <3>1, <4>1, <4>2
      <4>4. k \in Nat /\ Net(k) <= Net(evmSold[o]) /\ Net(evmSold[o]) <= Net(k) + evmSold[o]
        <5>1. SharesOf(o, "invested") \in Nat /\ SharesOf(o, "refunded") \in Nat
          BY <2>3, SharesAreNat
        <5> HIDE DEF SharesOf
        <5> QED
          BY <2>2, <4>2, <5>1 DEF NetFunded
      <4>5. NetFunded(o, 0)' = Net(0) /\ NetFunded(o, evmSold[o])' = Net(evmSold[o])
        BY <2>5, <4>1
      <4> HIDE DEF Net
      <4> QED
        BY <4>1, <4>3, <4>4, <4>5
    <3>6. ASSUME NEW q \in Ongoing, EvmSale(q), OthersStep
          PROVE  /\ hpc' \notin {"progress", "save"} =>
                      /\ soldHere'[o] = NetFunded(o, 0)'
                      /\ sold'[o] <= NetFunded(o, evmSold[o])'
                      /\ NetFunded(o, evmSold[o])' <= sold'[o] + evmSold'[o]
                 /\ hpc' = "save" =>
                      /\ o \in DOMAIN totals' /\ totals'[o].here = NetFunded(o, 0)'
                      /\ \E k \in 0 .. evmSold'[o] : totals'[o].all = NetFunded(o, k)'
      <4>1. UNCHANGED <<rows, soldHere, hpc, totals>>
        BY <3>6 DEF EvmSale, OthersStep, taskVars
      <4>2. \/ q # o /\ sold'[o] = sold[o] /\ evmSold'[o] = evmSold[o]
            \/ /\ q = o /\ evmSold'[o] = evmSold[o] + 1
               /\ sold'[o] = Net(evmSold[o] + 1)
        BY <2>1, <2>2, <3>6 DEF EvmSale
      <4>3. NetFunded(o, 0)' = Net(0) /\ NetFunded(o, evmSold[o])' = Net(evmSold'[o])
            /\ \A k : NetFunded(o, k)' = Net(k)
        BY <2>5, <4>1
      <4>4. Net(evmSold[o] + 1) \in Nat /\ Net(evmSold[o]) \in Nat
        BY <2>2, <2>4
      <4>5. 0 .. evmSold[o] \subseteq 0 .. evmSold'[o]
        BY <2>2, <4>2
      <4> HIDE DEF Net
      <4> QED
        BY <2>2, <3>1, <4>1, <4>2, <4>3, <4>4, <4>5
    <3>7. CASE UNCHANGED <<rows, sold, soldHere, evmSold, hpc, totals>>
      <4>1. NetFunded(o, 0)' = Net(0) /\ NetFunded(o, evmSold[o])' = Net(evmSold[o])
            /\ \A k : NetFunded(o, k)' = Net(k)
        BY <2>5, <3>7
      <4> HIDE DEF Net
      <4> QED
        BY <3>1, <3>7, <4>1
    <3>8. CASE Receive \/ SyncStatus
      BY <3>2, <3>8 DEF Receive, SyncStatus, GoTo, dbVars, progressVars, othersVars
    <3>9. CASE AddFirstChain \/ RecordHolding \/ NoEffects \/ Reload \/ SendCommand
      BY <3>2, <3>9 DEF AddFirstChain, RecordHolding, NoEffects, Reload, SendCommand, GoTo, dbVars,
                        progressVars, othersVars
    <3>10. CASE OthersStep
      <4>1. UNCHANGED <<rows, hpc, totals>>
        BY <3>10 DEF OthersStep, Publish, Register, EvmSale, EvmStatus, taskVars
      <4>2. ~SaveTotals \/ UNCHANGED <<sold, soldHere, evmSold>>
        BY <3>5, <4>1 DEF SaveTotals, GoTo
      <4> QED
        BY <3>6, <3>7, <4>1, <4>2, ProgressFrame
    <3>11. CASE UNCHANGED handlerVars
      BY <3>7, <3>11 DEF handlerVars, dbVars, taskVars, progressVars, othersVars
    <3> QED
      BY <3>3, <3>4, <3>5, <3>8, <3>9, <3>10, <3>11, StepFrame
  <2> QED
    BY <2>6, <2>7
<1> QED
  BY <1>2, <1>3 DEF ProgressInv

-----------------------------------------------------------------------------
\* What the tables owe the messages done with, and what that rests on: the
\* order of the messages, the task's memory and its budget of faults.
FlowInv == TypeInv /\ Budget /\ MessagesInv /\ MemoryInv
OrderedInv == \E h \in Histories : FeedInv(h) /\ OrderInv(h)

TableInv ==
  FlowInv /\ OrderedInv /\ StartedInv /\ OpenedInv /\ FinishInv /\ ForeignInv /\ ProgressInv

LEMMA InitTable == ASSUME Init PROVE TableInv
<1>1. Budget
  BY HandlerAssumption DEF Init, DbInit, Budget
<1> QED
  BY <1>1, InitType, InitOrder, InitMemory, InitFinish, InitForeign, InitProgress
     DEF TableInv, FlowInv, OrderedInv

LEMMA NextFlow == ASSUME HashesDistinct, FlowInv, [Next]_vars PROVE FlowInv'
BY NextType, FaultsFall, NextMessages, NextMemory DEF FlowInv

LEMMA NextTable == ASSUME Lifecycle, HashesDistinct, TableInv, [Next]_vars PROVE TableInv'
<1>1. TypeInv' /\ FlowInv'
  BY NextFlow DEF TableInv, FlowInv
<1>2. PICK h \in Histories : FeedInv(h) /\ OrderInv(h)
  BY DEF TableInv, OrderedInv
<1>3. FeedInv(h)' /\ OrderInv(h)'
  BY <1>2, NextFeed, NextOrder DEF TableInv, FlowInv
<1>4. StartedInv' /\ OpenedInv'
  BY <1>2, NextStarted, NextOpened DEF TableInv, FlowInv
<1>5. FinishInv' /\ ForeignInv'
  BY NextFinish, NextForeign DEF TableInv
<1>6. ProgressInv'
  BY <1>1, NextProgress DEF TableInv, FlowInv
<1> QED
  BY <1>1, <1>3, <1>4, <1>5, <1>6 DEF TableInv, OrderedInv

-----------------------------------------------------------------------------
\* What may follow an event in the course of an operation's status.
Allowed(e, f) ==
  e.kind \notin Closers /\ (f.kind # "op_paused" => Priority[e.kind] <= Priority[f.kind])

\* The priorities stand for the order of the stages.
LEMMA StagesAre ==
  \A k, l \in StatusEvents : Stage[k] <= Stage[l] => Priority[k] <= Priority[l]
BY DEF Stage, StatusEvents, Priority

LEMMA CourseIs ==
  ASSUME Course, Ordered, NEW h \in Histories,
         NEW i \in 1 .. Len(h), NEW j \in 1 .. Len(h), i < j,
         NEW o, OfStatus(o, h[i]), OfStatus(o, h[j])
  PROVE  Allowed(h[i], h[j]) /\ Before(h[i], h[j])
<1>1. h[i].kind \in Earlier(h, j)
  BY DEF Earlier, OfStatus
<1>2. h[j].kind # "op_paused" => Stage[h[i].kind] <= Stage[h[j].kind]
  BY <1>1, HistoryType DEF Course, OfStatus
<1> QED
  BY <1>1, <1>2, StagesAre, HistoryType DEF Course, Ordered, Allowed, OfStatus

\* Two status events of an operation come in an order the course allows, ...
LEMMA EitherOrder ==
  ASSUME Course, Ordered, NEW h \in Histories, NEW S, NEW e, NEW f, e # f,
         NEW o, OfStatus(o, e), OfStatus(o, f), Ready(h, e, S), Ready(h, f, S)
  PROVE  (Allowed(e, f) /\ Before(e, f)) \/ (Allowed(f, e) /\ Before(f, e))
<1>1. PICK i \in 1 .. Len(h) : h[i] = e
  BY DEF Ready
<1>2. PICK j \in 1 .. Len(h) : h[j] = f
  BY DEF Ready
<1>3. i < j \/ j < i
  BY <1>1, <1>2
<1> QED
  BY <1>1, <1>2, <1>3, CourseIs

\* ... and one that was stored without the other is the earlier one.
LEMMA NewIsLater ==
  ASSUME Course, Ordered, NEW h \in Histories, NEW S, NEW T, NEW e, NEW f, e # f,
         NEW o, OfStatus(o, e), OfStatus(o, f), Ready(h, e, S), Ready(h, f, T), f \notin S
  PROVE  Allowed(e, f)
<1>1. PICK i \in 1 .. Len(h) : h[i] = e /\ \A j \in 1 .. i - 1 : h[j] \in S
  BY DEF Ready
<1>2. PICK j \in 1 .. Len(h) : h[j] = f
  BY DEF Ready
<1>3. i < j
  BY <1>1, <1>2, HistoryType
<1> QED
  BY <1>1, <1>2, <1>3, CourseIs

Refreshing == {"progress", "save", "status"}

\* Once inserted, the message in hand is the newest row.
NewestInv(h) ==
  NoFault /\ hpc \notin {"recv", "insert"} =>
    /\ Held.event \in Logged
    /\ \A e \in Logged \ {Held.event} : Ready(h, e, Logged \ {Held.event})

\* A status that closes or pauses an operation has its event, on some chain.
WrittenInv ==
  \A o \in Ours :
    /\ status[o] = "paused" => Seen(o, {"op_paused"})
    /\ status[o] = "finished" => Seen(o, {"op_finished"})
    /\ status[o] = "canceled" => Seen(o, {"op_canceled"})

\* A pause is acted upon before anything that follows it on this chain is stored,
\* unless a row of another chain outranks it.
Waiting(o) ==
  /\ hpc \in Refreshing /\ HeldFor(o, {"op_paused"})
  /\ ~LoggedFor(o, Closers \cup {"op_resumed"})

NotSoldOut(o) == sold[o] # Total[o] \/ evmSold[o] > 0

PausedInv ==
  NoFault =>
    \A o \in Ours : LoggedFor(o, {"op_paused"}) =>
      \/ o \notin Unfinished
      \/ Waiting(o)
      \/ "op_resumed" \in elsewhere[o]
      \/ Ended(o) /\ (hpc \in Refreshing \/ NotSoldOut(o))

\* The highest of this chain's status events of an operation.
LocalHistory(o) == Highest({e.kind : e \in OfOp(o, StatusEvents)})

\* What a synchronisation may leave where k is the highest event of this chain.
Settled(o, k) ==
  \/ status[o] = "paused"
  \/ \E l \in {k} \cup elsewhere[o] :
       status[o] = FundingStatusOf[l] \/ (l = "op_finished" /\ NotSoldOut(o))

\* Between two refreshes the status is that of the highest event stored.
SettledInv ==
  NoFault /\ hpc \notin Refreshing =>
    \A o \in Ours : \A k \in LocalHistory(o) : Settled(o, k)

LEMMA InitStatus == Init => WrittenInv /\ PausedInv /\ SettledInv /\ \A h : NewestInv(h)
<1> SUFFICES ASSUME Init PROVE WrittenInv /\ PausedInv /\ SettledInv /\ \A h : NewestInv(h)
  OBVIOUS
<1>1. rows = {} /\ hpc = "recv" /\ \A o \in Ops : status[o] = "upcoming"
  BY DEF Init, DbInit
<1>2. \A o : LocalHistory(o) = {}
  BY <1>1 DEF LocalHistory, Highest, OfOp
<1> QED
  BY <1>1, <1>2
     DEF WrittenInv, PausedInv, SettledInv, NewestInv, LoggedFor, Logged, Ours, Followed

LEMMA NextNewest ==
  ASSUME NEW h \in Histories, HashesDistinct, TypeInv, Budget, MessagesInv, OrderInv(h),
         NewestInv(h), [Next]_vars
  PROVE  NewestInv(h)'
<1> SUFFICES ASSUME NoFault', hpc' \notin {"recv", "insert"}
             PROVE  /\ Held'.event \in Logged'
                    /\ \A e \in Logged' \ {Held'.event} : Ready(h, e, Logged' \ {Held'.event})
  BY DEF NewestInv
<1>1. NoFault /\ ~DbFault
  BY FaultsFall
<1>2. CASE Insert
  <2>1. /\ Logged' = Logged \cup {Held.event} /\ hpc' = "progress" /\ Held' = Held
        /\ hpc = "insert" /\ Held.hash \notin Hashes /\ rows' = rows \cup {Held}
    BY <1>1, <1>2, InsertedIs DEF Held
  <2>2. \A e \in Logged : Ready(h, e, Logged)
    BY <1>1 DEF OrderInv
  <2>3. Held.event \notin Logged
    <3> SUFFICES ASSUME NEW r \in rows, r.event = Held.event PROVE FALSE
      BY DEF Logged
    <3>1. r = MessageFor(r.event) /\ Held = MessageFor(Held.event)
      BY <2>1 DEF MessagesInv
    <3> QED
      BY <2>1, <3>1 DEF Hashes
  <2>4. Logged' \ {Held'.event} = Logged
    BY <2>1, <2>3
  <2> QED
    BY <2>1, <2>2, <2>4
<1>3. CASE UNCHANGED rows /\ hpc \notin {"recv", "insert"} /\ batch' = batch
  BY <1>1, <1>3 DEF NewestInv, Logged, Held
<1> QED
  BY <1>2, <1>3, ReceivedIs, StepFlow

\* The highest event stored, and what it says.
LEMMA HighestIs ==
  ASSUME TypeInv, NEW o \in Ops, NEW k \in StatusHistory(o)
  PROVE  /\ k \in StatusEvents /\ Seen(o, {k})
         /\ \A l \in StatusEvents : Seen(o, {l}) => Priority[l] <= Priority[k]
BY KindsAre DEF Highest

\* ... and the highest of this chain.
LEMMA LocalIs ==
  ASSUME NEW o, NEW k \in LocalHistory(o)
  PROVE  /\ k \in StatusEvents /\ \E e \in Logged : OfStatus(o, e) /\ e.kind = k
         /\ \A e \in Logged : OfStatus(o, e) => Priority[e.kind] <= Priority[k]
<1>1. \A e : e \in OfOp(o, StatusEvents) <=> e \in Logged /\ OfStatus(o, e)
  BY DEF OfOp, Logged, OfStatus
<1> QED
  BY <1>1 DEF LocalHistory, Highest, OfStatus

LEMMA LocalExists ==
  ASSUME NEW o, NEW e \in Logged, OfStatus(o, e)
  PROVE  LocalHistory(o) # {}
<1> DEFINE kinds == {f.kind : f \in OfOp(o, StatusEvents)}
<1>1. e \in OfOp(o, StatusEvents)
  BY DEF OfOp, Logged, OfStatus
<1>2. kinds # {} /\ kinds \subseteq StatusEvents
  BY <1>1 DEF OfOp
<1>3. LocalHistory(o) = Highest(kinds)
  BY DEF LocalHistory
<1> HIDE DEF kinds
<1> QED
  BY <1>2, <1>3, HighestExists

LEMMA PriorityIs ==
  /\ \A k \in StatusEvents : Priority[k] \in 1 .. 8
  /\ \A k, l \in StatusEvents : Priority[k] <= Priority[l] /\ Priority[l] <= Priority[k] => k = l
  /\ \A k \in StatusEvents : Priority["op_paused"] <= Priority[k] =>
       k \in Closers \cup {"op_paused", "op_resumed"}
  /\ \A k \in StatusEvents : Priority["op_finished"] <= Priority[k] => k \in Closers
  /\ \A k \in StatusEvents : Priority["op_canceled"] <= Priority[k] => k = "op_canceled"
  /\ \A k \in StatusEvents : Priority[k] <= Priority["op_created"] => k = "op_created"
BY DEF StatusEvents, Priority, Closers

\* The event that decides is this chain's highest, or another chain's.
LEMMA DeciderIs ==
  ASSUME TypeInv, NEW o \in Ops, NEW k \in LocalHistory(o), NEW l \in StatusHistory(o)
  PROVE  l \in {k} \cup elsewhere[o]
<1>1. k \in StatusEvents /\ Seen(o, {k}) /\ \A e \in Logged : OfStatus(o, e) => Priority[e.kind] <= Priority[k]
  BY LocalIs DEF Seen, LoggedFor, OfStatus
<1>2. l \in StatusEvents /\ Seen(o, {l}) /\ Priority[k] <= Priority[l]
  BY <1>1, HighestIs
<1>3. CASE LoggedFor(o, {l})
  <2>1. Priority[l] <= Priority[k]
    BY <1>1, <1>2, <1>3 DEF LoggedFor, OfStatus
  <2> QED
    BY <1>1, <1>2, <2>1, PriorityIs
<1> QED
  BY <1>2, <1>3 DEF Seen

LEMMA NextWritten == ASSUME TypeInv, WrittenInv, [Next]_vars PROVE WrittenInv'
<1> SUFFICES ASSUME NEW o \in Ours
             PROVE  /\ status'[o] = "paused" => Seen(o, {"op_paused"})'
                    /\ status'[o] = "finished" => Seen(o, {"op_finished"})'
                    /\ status'[o] = "canceled" => Seen(o, {"op_canceled"})'
  BY DEF WrittenInv
<1>1. o \in Ops /\ o \notin Foreign /\ \A k : Seen(o, {k}) => Seen(o, {k})'
  BY SeenStays DEF Ours, Followed
<1>2. CASE status'[o] = status[o]
  BY <1>1, <1>2 DEF WrittenInv
<1>3. CASE status'[o] # status[o]
  <2>1. status'[o] = StatusUpdate(o)
    BY <1>1, <1>3, StatusFrame
  <2>2. PICK k \in StatusHistory(o) : status'[o] = FundingStatusOf[k]
    BY <1>1, <1>3, <2>1, StatusUpdateIs
  <2>3. k \in StatusEvents /\ Seen(o, {k})
    BY <1>1, HighestIs
  <2>4. FundingStatusOf[k] = "canceled" <=> k = "op_canceled"
    BY <2>3 DEF StatusEvents, Priority, FundingStatusOf
  <2> QED
    BY <1>1, <2>2, <2>3, <2>4, FundingStatusIs
<1> QED
  BY <1>2, <1>3

\* A message in hand that is the creation of an operation precedes every other
\* status event of it.
LEMMA CreationIsNewest ==
  ASSUME NEW h \in Histories, Course, Ordered, OrderInv(h), NewestInv(h), NoFault,
         hpc \in Refreshing, NEW o, HeldFor(o, {"op_created"}),
         NEW g \in Logged, OfStatus(o, g)
  PROVE  g.kind = "op_created"
<1>1. CASE g = Held.event
  BY <1>1 DEF HeldFor
<1>2. CASE g # Held.event
  <2>1. /\ Ready(h, g, Logged \ {Held.event}) /\ Ready(h, Held.event, Logged)
        /\ OfStatus(o, Held.event) /\ Held.event.kind = "op_created"
    BY <1>2 DEF NewestInv, OrderInv, HeldFor, OfStatus, StatusEvents, Priority, Refreshing
  <2>2. Allowed(g, Held.event)
    <3>1. Held.event \notin Logged \ {Held.event}
      OBVIOUS
    <3> QED
      BY <1>2, <2>1, <3>1, NewIsLater
  <2>3. Priority[g.kind] <= Priority["op_created"]
    BY <2>1, <2>2 DEF Allowed
  <2> QED
    BY <2>3, PriorityIs DEF OfStatus
<1> QED
  BY <1>1, <1>2

\* What a synchronisation does to an operation that was paused on this chain.
LEMMA SyncPaused ==
  ASSUME NEW h \in Histories, Lifecycle, Course, Ordered, TypeInv, NoFault, ~DbFault,
         OrderInv(h), NewestInv(h), MemoryInv, SyncStatus,
         NEW o \in Ours, o \in Unfinished, LoggedFor(o, {"op_paused"}),
         Waiting(o) \/ Ended(o), "op_resumed" \notin elsewhere[o]
  PROVE  o \notin Unfinished' \/ (Ended(o) /\ sold[o] # Total[o])
<1>1. /\ hpc = "status" /\ status' = [q \in Ops |-> StatusUpdate(q)]
      /\ o \in Ops /\ \A e \in Logged : Ready(h, e, Logged)
  BY DEF SyncStatus, OrderInv, Ours, Followed
<1>2. PICK p \in Logged : p.op = o /\ p.kind = "op_paused" /\ OfStatus(o, p)
  BY DEF LoggedFor, OfStatus, StatusEvents, Priority
<1>3. LoggedFor(o, {"op_created"})
  BY <1>1, <1>2, ReadyIs DEF LoggedFor, OfStatus
<1>4. ~HeldFor(o, {"op_created"})
  BY <1>1, <1>2, CreationIsNewest DEF Refreshing
<1>5. o \in op_data.primary /\ o \in op_data.known
  BY <1>1, <1>3, <1>4 DEF MemoryInv, Ours
<1>6. Seen(o, StatusEvents) /\ Seen(o, {"op_paused"}) /\ "op_paused" \in StatusEvents
  BY <1>2 DEF Seen, LoggedFor, OfStatus
<1>7. PICK k \in StatusHistory(o) : TRUE
  BY <1>1, <1>6, HistoryIs
<1>8. ASSUME NEW l \in StatusHistory(o)
      PROVE  l \in Closers \cup {"op_paused"} /\ (l = "op_finished" => Ended(o))
  <2>1. /\ l \in StatusEvents /\ Seen(o, {l}) /\ Priority["op_paused"] <= Priority[l]
        /\ Seen(o, {"op_finished"}) => Priority["op_finished"] <= Priority[l]
    <3>1. "op_finished" \in StatusEvents
      BY DEF StatusEvents, Priority
    <3> QED
      BY <1>1, <1>6, <3>1, HighestIs
  <2>2. l \in Closers \cup {"op_paused", "op_resumed"}
    BY <2>1, PriorityIs
  <2>3. CASE Ended(o)
    <3>1. l \in Closers
      BY <2>1, <2>3, PriorityIs DEF Seen, Ended
    <3> QED
      BY <2>3, <3>1
  <2>4. CASE Waiting(o)
    <3>1. ~LoggedFor(o, {"op_resumed"}) /\ ~LoggedFor(o, {"op_finished"})
      BY <2>4 DEF Waiting, LoggedFor, Closers
    <3> QED
      BY <2>1, <2>2, <3>1 DEF Seen, Ended
  <2> QED
    BY <2>3, <2>4
<1>9. CASE FundingStatusOf[k] = "finished" /\ sold[o] # Total[o]
  <2>1. k = "op_finished"
    BY <1>8, <1>9 DEF FundingStatusOf, Closers
  <2> QED
    BY <1>8, <1>9, <2>1
<1>10. CASE FundingStatusOf[k] = "finished" => sold[o] = Total[o]
  <2>1. PICK l \in StatusHistory(o) : StatusUpdate(o) = FundingStatusOf[l]
    BY <1>1, <1>5, <1>10, StatusUpdateMust
  <2>2. StatusUpdate(o) \in {"paused", "finished", "canceled"}
    BY <1>8, <2>1 DEF FundingStatusOf, Closers
  <2> QED
    BY <1>1, <2>2 DEF Unfinished
<1> QED
  BY <1>9, <1>10

\* Sales elsewhere keep what is not sold out on this chain's account.
LEMMA NotSoldOutStays ==
  ASSUME TypeInv, [Next]_vars, ~SaveTotals, NEW o \in Ops, NotSoldOut(o)
  PROVE  NotSoldOut(o)'
<1>1. evmSold \in [Ops -> Nat] /\ sold \in [Ops -> Nat]
  BY DEF TypeInv, TypeOK, HandlerTypeOK
<1>2. (sold'[o] = sold[o] /\ evmSold'[o] = evmSold[o]) \/ evmSold'[o] > 0
  <2>1. CASE UNCHANGED <<sold, evmSold>>
    BY <2>1
  <2>2. ASSUME NEW q \in Ongoing, EvmSale(q)
        PROVE  (sold'[o] = sold[o] /\ evmSold'[o] = evmSold[o]) \/ evmSold'[o] > 0
    BY <1>1, <2>2 DEF EvmSale
  <2> QED
    BY <2>1, <2>2, ProgressFrame
<1> QED
  BY <1>2 DEF NotSoldOut

LEMMA NextPaused ==
  ASSUME NEW h \in Histories, Lifecycle, Course, Ordered, HashesDistinct, TypeInv, Budget,
         MessagesInv, OrderInv(h), NewestInv(h), MemoryInv, PausedInv, [Next]_vars
  PROVE  PausedInv'
<1> SUFFICES ASSUME NoFault', NEW o \in Ours, LoggedFor(o, {"op_paused"})', o \in Unfinished',
                    "op_resumed" \notin elsewhere'[o]
             PROVE  Waiting(o)' \/ (Ended(o)' /\ (hpc' \in Refreshing \/ NotSoldOut(o)'))
  BY DEF PausedInv
<1>1. /\ NoFault /\ ~DbFault /\ o \in Unfinished /\ o \in Ops
      /\ "op_resumed" \notin elsewhere[o] /\ (Ended(o) => Ended(o)')
      /\ LoggedFor(o, {"op_paused"}) =>
           Waiting(o) \/ (Ended(o) /\ (hpc \in Refreshing \/ NotSoldOut(o)))
      /\ \A e \in Logged : Ready(h, e, Logged)
  <2>1. NoFault /\ ~DbFault
    BY FaultsFall
  <2>2. o \in Unfinished /\ o \in Ops
    BY UnfinishedFalls DEF MemoryInv, Ours, Followed
  <2>3. elsewhere[o] \subseteq elsewhere'[o]
    BY <2>2, ElsewhereGrows
  <2> QED
    BY <2>1, <2>2, <2>3 DEF PausedInv, OrderInv, Ended
<1>2. ASSUME Ended(o), NotSoldOut(o), ~SaveTotals PROVE Ended(o)' /\ NotSoldOut(o)'
  BY <1>1, <1>2, NotSoldOutStays
<1>3. CASE Insert
  <2>1. /\ Logged' = Logged \cup {Held.event} /\ hpc = "insert" /\ ~SaveTotals
        /\ hpc' = "progress" <=> Held.hash \notin Hashes /\ FactoryNeedsRefresh(Held.event.kind)
        /\ hpc' = "progress" => batch' = batch
        /\ Ready(h, Held.event, Logged)
    BY <1>1, <1>3, InsertedIs DEF OrderInv, SaveTotals
  <2>2. CASE LoggedFor(o, {"op_paused"})
    BY <1>1, <1>2, <2>1, <2>2 DEF Refreshing, Waiting
  <2>3. CASE ~LoggedFor(o, {"op_paused"})
    <3>1. Held.event.op = o /\ Held.event.kind = "op_paused" /\ Held.event \notin Logged
      BY <2>1, <2>3 DEF LoggedFor
    <3>2. Held.hash \notin Hashes
      BY <2>1, <3>1, StoredByHash
    <3>3. FactoryNeedsRefresh("op_paused")
      BY DEF FactoryNeedsRefresh, StatusEvents, Priority
    <3>4. ASSUME NEW f \in Logged, f.op = o, f.kind \in Closers \cup {"op_resumed"} PROVE FALSE
      <4>1. OfStatus(o, f) /\ OfStatus(o, Held.event) /\ f # Held.event
        BY <3>1, <3>4 DEF OfStatus, StatusEvents, Priority, Closers
      <4>2. Allowed(f, Held.event)
        BY <1>1, <2>1, <3>1, <4>1, NewIsLater
      <4>3. f.kind = "op_resumed"
        BY <3>4, <4>2 DEF Allowed
      <4>4. PICK i \in 1 .. Len(h) : h[i] = f /\ \A j \in 1 .. i - 1 : h[j] \in Logged
        BY <1>1 DEF Ready
      <4>5. "op_paused" \in Earlier(h, i)
        BY <4>1, <4>3, <4>4, HistoryType DEF Course, OfStatus
      <4> QED
        BY <2>3, <3>4, <4>4, <4>5 DEF Earlier, LoggedFor
    <3>5. ~LoggedFor(o, Closers \cup {"op_resumed"})'
      BY <2>1, <3>1, <3>4 DEF LoggedFor, Closers
    <3> QED
      BY <2>1, <3>1, <3>2, <3>3, <3>5 DEF HeldFor, Held, Refreshing, Waiting
  <2> QED
    BY <2>2, <2>3
<1>4. CASE SyncStatus
  <2>1. UNCHANGED <<rows, sold, elsewhere>> /\ hpc = "status"
    BY <1>4 DEF SyncStatus, progressVars, othersVars
  <2>2. LoggedFor(o, {"op_paused"})
    BY <2>1 DEF LoggedFor, Logged
  <2>3. Ended(o) /\ sold[o] # Total[o]
    BY <1>1, <1>4, <2>2, SyncPaused
  <2> QED
    BY <2>1, <2>3 DEF Ended, NotSoldOut
<1>5. ASSUME UNCHANGED rows, ~SaveTotals,
             hpc \in Refreshing => hpc' \in Refreshing /\ batch' = batch
      PROVE  Waiting(o)' \/ (Ended(o)' /\ (hpc' \in Refreshing \/ NotSoldOut(o)'))
  <2>1. LoggedFor(o, {"op_paused"}) /\ (Waiting(o) => Waiting(o)')
    BY <1>5 DEF LoggedFor, Logged, HeldFor, Held, Waiting
  <2> QED
    BY <1>1, <1>2, <1>5, <2>1
<1>6. CASE Receive \/ ReadTotals
  BY <1>5, <1>6 DEF Receive, ReadTotals, SaveTotals, GoTo, dbVars, Refreshing
<1>7. CASE SaveTotals
  <2>1. UNCHANGED <<rows, batch>> /\ hpc' = "status" /\ hpc = "save"
    BY <1>7 DEF SaveTotals, GoTo
  <2>2. LoggedFor(o, {"op_paused"}) /\ (Waiting(o) => Waiting(o)')
    BY <2>1 DEF LoggedFor, Logged, HeldFor, Held, Waiting, Refreshing
  <2> QED
    BY <1>1, <2>1, <2>2 DEF Refreshing
<1>8. CASE AddFirstChain \/ RecordHolding \/ NoEffects \/ Reload \/ SendCommand
  BY <1>5, <1>8 DEF AddFirstChain, RecordHolding, NoEffects, Reload, SendCommand, SaveTotals, dbVars,
                    Refreshing
<1>9. CASE OthersStep \/ UNCHANGED handlerVars
  <2>1. UNCHANGED <<rows, hpc, batch>>
    BY <1>9 DEF OthersStep, Publish, Register, EvmSale, EvmStatus, handlerVars, dbVars, taskVars
  <2>2. ~SaveTotals
    BY <2>1 DEF SaveTotals, GoTo
  <2> QED
    BY <1>5, <2>1, <2>2
<1> QED
  BY <1>3, <1>4, <1>6, <1>7, <1>8, <1>9, StepFrame

\* What a synchronisation leaves behind.
LEMMA SyncSettles ==
  ASSUME NEW h \in Histories, Lifecycle, Course, Ordered, HashesDistinct, TypeInv, NoFault,
         ~DbFault, OrderInv(h), NewestInv(h), MemoryInv, WrittenInv, SyncStatus,
         NEW o \in Ours, NEW k \in LocalHistory(o)
  PROVE  \/ status'[o] = "paused"
         \/ \E l \in {k} \cup elsewhere[o] :
              status'[o] = FundingStatusOf[l] \/ (l = "op_finished" /\ sold[o] # Total[o])
<1>1. /\ o \in Ops /\ o \in Listed /\ o \in op_data.known /\ hpc = "status"
      /\ Unfinished # {} => status' = [q \in Ops |-> StatusUpdate(q)]
      /\ status' \in {status, [q \in Ops |-> StatusUpdate(q)]}
      /\ status[o] \in FundingStatus
      /\ \A e \in Logged : Ready(h, e, Logged)
  BY DEF SyncStatus, MemoryInv, Ours, Followed, TypeInv, TypeOK, HandlerTypeOK, OrderInv
<1>2. PICK g \in Logged : OfStatus(o, g) /\ g.kind = k
  BY LocalIs
<1>3. /\ k \in StatusEvents
      /\ \A e \in Logged : OfStatus(o, e) => Priority[e.kind] <= Priority[k]
  BY LocalIs
<1>4. CASE o \in op_data.primary /\ o \in Unfinished
  <2>1. status'[o] = StatusUpdate(o)
    BY <1>1, <1>4
  <2>2. Seen(o, StatusEvents)
    BY <1>2 DEF Seen, LoggedFor, OfStatus
  <2>3. PICK t \in StatusHistory(o) : t \in StatusEvents
    BY <1>1, <2>2, HistoryIs
  <2>4. CASE FundingStatusOf[t] = "finished" /\ sold[o] # Total[o]
    <3>1. t = "op_finished" /\ t \in {k} \cup elsewhere[o]
      BY <1>1, <2>3, <2>4, FundingStatusIs, DeciderIs
    <3> QED
      BY <2>4, <3>1
  <2>5. CASE FundingStatusOf[t] = "finished" => sold[o] = Total[o]
    <3>1. PICK l \in StatusHistory(o) : StatusUpdate(o) = FundingStatusOf[l]
      BY <1>1, <1>4, <2>5, StatusUpdateMust
    <3>2. l \in {k} \cup elsewhere[o]
      BY <1>1, <3>1, DeciderIs
    <3> QED
      BY <2>1, <3>1, <3>2
  <2> QED
    BY <2>4, <2>5
<1>5. CASE o \in op_data.primary /\ o \notin Unfinished
  <2>1. status'[o] = status[o] /\ status[o] \in {"paused", "finished", "canceled"}
    <3>1. StatusUpdate(o) = status[o]
      BY <1>1, <1>5, StatusUpdateIs
    <3> QED
      BY <1>1, <1>5, <3>1 DEF Unfinished, FundingStatus
  <2>2. ASSUME NEW c \in Closers, Seen(o, {c}) PROVE c \in {k} \cup elsewhere[o]
    <3> SUFFICES ASSUME LoggedFor(o, {c}) PROVE k = c
      BY <2>2 DEF Seen
    <3>1. PICK e \in Logged : e.op = o /\ e.kind = c
      BY DEF LoggedFor
    <3>2. OfStatus(o, e) /\ Priority[c] <= Priority[k]
      BY <1>3, <3>1 DEF OfStatus, Closers, StatusEvents, Priority
    <3>3. k \in Closers
      BY <1>3, <3>2, PriorityIs DEF Closers
    <3>4. e # g => ~Allowed(e, g) /\ ~Allowed(g, e)
      BY <1>2, <3>1, <3>3 DEF Allowed
    <3>5. e = g
      BY <1>1, <1>2, <3>2, <3>4, EitherOrder
    <3> QED
      BY <1>2, <3>1, <3>5
  <2>3. /\ status[o] = "finished" => "op_finished" \in {k} \cup elsewhere[o]
        /\ status[o] = "canceled" => "op_canceled" \in {k} \cup elsewhere[o]
    BY <2>2 DEF WrittenInv, Closers
  <2>4. FundingStatusOf["op_finished"] = "finished" /\ FundingStatusOf["op_canceled"] = "canceled"
    BY DEF FundingStatusOf
  <2> QED
    BY <2>1, <2>3, <2>4
<1>6. CASE o \notin op_data.primary
  <2>1. LoggedFor(o, {"op_created"})
    BY <1>1, <1>2, ReadyIs DEF LoggedFor, OfStatus
  <2>2. HeldFor(o, {"op_created"}) /\ status[o] = "upcoming"
    BY <1>1, <1>6, <2>1 DEF MemoryInv
  <2>3. status'[o] = "upcoming"
    BY <1>1, <1>6, <2>2, StatusUpdateIs
  <2>4. k = "op_created"
    BY <1>1, <1>2, <2>2, CreationIsNewest DEF Refreshing
  <2> QED
    BY <1>3, <2>3, <2>4, FundingStatusIs
<1> QED
  BY <1>4, <1>5, <1>6

LEMMA NextSettled ==
  ASSUME NEW h \in Histories, Lifecycle, Course, Ordered, HashesDistinct, TypeInv, Budget,
         MessagesInv, OrderInv(h), NewestInv(h), MemoryInv, WrittenInv, SettledInv, [Next]_vars
  PROVE  SettledInv'
<1> SUFFICES ASSUME NoFault', hpc' \notin Refreshing, NEW o \in Ours, NEW k \in LocalHistory(o)'
             PROVE  Settled(o, k)'
  BY DEF SettledInv
<1>1. NoFault /\ ~DbFault /\ o \in Ops /\ o \notin Foreign /\ elsewhere[o] \subseteq elsewhere'[o]
  <2>1. NoFault /\ ~DbFault /\ o \in Ops /\ o \notin Foreign
    BY FaultsFall DEF Ours, Followed
  <2> QED
    BY <2>1, ElsewhereGrows
<1>2. UNCHANGED rows => k \in LocalHistory(o)
  BY DEF LocalHistory, OfOp
<1>3. CASE SyncStatus
  <2>1. UNCHANGED <<rows, sold, elsewhere>>
    BY <1>3 DEF SyncStatus, progressVars, othersVars
  <2>2. \/ status'[o] = "paused"
        \/ \E l \in {k} \cup elsewhere[o] :
             status'[o] = FundingStatusOf[l] \/ (l = "op_finished" /\ sold[o] # Total[o])
    BY <1>1, <1>2, <1>3, <2>1, SyncSettles
  <2> QED
    BY <2>1, <2>2 DEF Settled, NotSoldOut
<1>4. ASSUME k \in LocalHistory(o), status'[o] = status[o], hpc \notin Refreshing, ~SaveTotals
      PROVE  Settled(o, k)'
  <2>1. Settled(o, k)
    BY <1>1, <1>4 DEF SettledInv
  <2>2. NotSoldOut(o) => NotSoldOut(o)'
    BY <1>1, <1>4, NotSoldOutStays
  <2> QED
    BY <1>1, <1>4, <2>1, <2>2 DEF Settled
<1>5. CASE Insert
  <2>1. /\ hpc = "insert" /\ hpc' = "recv" /\ UNCHANGED status /\ ~SaveTotals
        /\ rows' = rows \/ (rows' = rows \cup {Held} /\ Held.event.kind \notin StatusEvents)
    BY <1>1, <1>5, InsertedIs DEF Insert, Refreshing, FactoryNeedsRefresh, SaveTotals
  <2>2. {m \in rows' : m.event.op = o /\ m.event.kind \in StatusEvents} =
        {m \in rows : m.event.op = o /\ m.event.kind \in StatusEvents}
    BY <2>1
  <2>3. OfOp(o, StatusEvents)' = OfOp(o, StatusEvents)
    BY <2>2 DEF OfOp
  <2>4. k \in LocalHistory(o)
    BY <2>3 DEF LocalHistory
  <2> QED
    BY <1>4, <2>1, <2>4 DEF Refreshing
<1>6. CASE Receive
  BY <1>2, <1>4, <1>6 DEF Receive, SaveTotals, dbVars, Refreshing
<1>7. CASE ReadTotals \/ SaveTotals
  BY <1>7 DEF ReadTotals, SaveTotals, GoTo, Refreshing
<1>8. CASE AddFirstChain \/ RecordHolding \/ NoEffects \/ Reload \/ SendCommand
  BY <1>2, <1>4, <1>8 DEF AddFirstChain, RecordHolding, NoEffects, Reload, SendCommand, SaveTotals,
                          dbVars, Refreshing
<1>9. CASE OthersStep \/ UNCHANGED handlerVars
  <2>1. UNCHANGED <<rows, hpc>>
    BY <1>9 DEF OthersStep, Publish, Register, EvmSale, EvmStatus, handlerVars, dbVars, taskVars
  <2>2. ~SyncStatus /\ ~SaveTotals
    BY <2>1 DEF SyncStatus, SaveTotals, GoTo
  <2>3. status'[o] = status[o]
    BY <1>1, <2>2, StatusFrame
  <2> QED
    BY <1>2, <1>4, <2>1, <2>2, <2>3
<1> QED
  BY <1>3, <1>5, <1>6, <1>7, <1>8, <1>9, StepFrame

\* What that says of the last event of an operation.
LEMMA SettledIsCurrent ==
  ASSUME NEW h \in Histories, Lifecycle, Course, Ordered, TypeInv, OrderInv(h), MemoryInv,
         WrittenInv, PausedInv, SettledInv
  PROVE  StatusCurrent
<1> SUFFICES ASSUME AtRest, NEW o \in Ours, NEW e \in OfOp(o, StatusEvents),
                    \A f \in OfOp(o, StatusEvents) : ~Before(e, f)
             PROVE  \/ status[o] = "paused" /\ OfOp(o, {"op_paused"}) # {}
                    \/ \E l \in {e.kind} \cup elsewhere[o] :
                         status[o] = FundingStatusOf[l] \/ (l = "op_finished" /\ NotSoldOut(o))
  BY DEF StatusCurrent, NotSoldOut
<1>1. /\ NoFault /\ hpc \notin Refreshing /\ o \in Ops /\ o \in Listed
      /\ status[o] \in FundingStatus /\ \A f \in Logged : Ready(h, f, Logged)
  BY DEF AtRest, NoFault, Refreshing, OrderInv, Ours, Followed, MemoryInv, TypeInv, TypeOK,
         HandlerTypeOK
<1>2. \A f : f \in OfOp(o, StatusEvents) <=> f \in Logged /\ OfStatus(o, f)
  BY DEF OfOp, Logged, OfStatus
<1>3. \A f : f \in OfOp(o, {"op_paused"}) <=> f \in Logged /\ f.op = o /\ f.kind = "op_paused"
  BY DEF OfOp, Logged
<1>4. \/ status[o] # "paused"
      \/ OfOp(o, {"op_paused"}) # {}
      \/ "op_paused" \in elsewhere[o] /\ status[o] = FundingStatusOf["op_paused"]
  BY <1>3 DEF WrittenInv, Seen, LoggedFor, FundingStatusOf
<1>5. PICK k \in LocalHistory(o) : TRUE
  BY <1>2, LocalExists
<1>6. PICK g \in Logged : OfStatus(o, g) /\ g.kind = k
  BY LocalIs
<1>7. /\ k \in StatusEvents
      /\ \A f \in Logged : OfStatus(o, f) => Priority[f.kind] <= Priority[k]
  BY LocalIs
<1>8. Settled(o, k)
  BY <1>1 DEF SettledInv
<1>9. CASE e.kind = k \/ k \in elsewhere[o]
  BY <1>4, <1>8, <1>9 DEF Settled
<1>10. CASE e.kind # k /\ k \notin elsewhere[o]
  <2>1. Allowed(g, e)
    BY <1>1, <1>2, <1>6, <1>10, EitherOrder
  <2>2. e.kind \in StatusEvents /\ Priority[e.kind] <= Priority[k] /\ k \notin Closers
    BY <1>2, <1>6, <1>7, <2>1 DEF OfStatus, Allowed
  <2>3. e.kind = "op_paused"
    <3> SUFFICES ASSUME e.kind # "op_paused" PROVE FALSE
      OBVIOUS
    <3>1. Priority[k] <= Priority[e.kind]
      BY <1>6, <2>1 DEF Allowed
    <3> QED
      BY <1>7, <1>10, <2>2, <3>1, PriorityIs
  <2>4. k = "op_resumed"
    BY <1>7, <1>10, <2>2, <2>3, PriorityIs
  <2>5. LoggedFor(o, {"op_paused"}) /\ OfOp(o, {"op_paused"}) # {}
    BY <1>2, <1>3, <2>3 DEF LoggedFor, OfStatus
  <2>6. CASE Ended(o) /\ NotSoldOut(o)
    BY <2>6 DEF Ended
  <2>7. CASE o \notin Unfinished
    <3>1. status[o] \in {"paused", "finished", "canceled"}
      BY <1>1, <2>7 DEF Unfinished, FundingStatus
    <3>2. ASSUME NEW c \in Closers PROVE ~LoggedFor(o, {c})
      <4> SUFFICES ASSUME NEW f \in Logged, f.op = o, f.kind = c PROVE FALSE
        BY DEF LoggedFor
      <4>1. OfStatus(o, f) /\ Priority[c] <= Priority[k]
        BY <1>7 DEF OfStatus, Closers, StatusEvents, Priority
      <4>2. k \in Closers
        BY <1>7, <4>1, PriorityIs DEF Closers
      <4> QED
        BY <2>2, <4>2
    <3>3. /\ status[o] = "finished" => "op_finished" \in elsewhere[o]
          /\ status[o] = "canceled" => "op_canceled" \in elsewhere[o]
      BY <3>2 DEF WrittenInv, Seen, Closers
    <3>4. FundingStatusOf["op_finished"] = "finished" /\ FundingStatusOf["op_canceled"] = "canceled"
      BY DEF FundingStatusOf
    <3> QED
      BY <2>5, <3>1, <3>3, <3>4
  <2> QED
    BY <1>1, <1>10, <2>4, <2>5, <2>6, <2>7 DEF PausedInv, Waiting
<1> QED
  BY <1>9, <1>10


StatusInv ==
  /\ FlowInv /\ WrittenInv /\ PausedInv /\ SettledInv
  /\ \E h \in Histories : FeedInv(h) /\ OrderInv(h) /\ NewestInv(h)

LEMMA InitStatusInv == ASSUME Init PROVE StatusInv
BY InitTable, InitStatus, InitOrder DEF TableInv, StatusInv

LEMMA NextStatusInv ==
  ASSUME Lifecycle, Course, Ordered, HashesDistinct, StatusInv, [Next]_vars
  PROVE  StatusInv'
<1>1. PICK h \in Histories : FeedInv(h) /\ OrderInv(h) /\ NewestInv(h)
  BY DEF StatusInv
<1>2. FlowInv' /\ WrittenInv'
  BY NextFlow, NextWritten DEF StatusInv, FlowInv
<1>3. FeedInv(h)' /\ OrderInv(h)' /\ NewestInv(h)'
  BY <1>1, NextFeed, NextOrder, NextNewest DEF StatusInv, FlowInv
<1>4. PausedInv' /\ SettledInv'
  BY <1>1, NextPaused, NextSettled DEF StatusInv, FlowInv
<1> QED
  BY <1>2, <1>3, <1>4 DEF StatusInv

-----------------------------------------------------------------------------
(***************************************************************************)
(* Every table, channel and step of the store task keeps its type: sums of  *)
(* shares are natural numbers, statuses are those of the column, a message  *)
(* is in hand exactly between two receptions.                               *)
(***************************************************************************)
THEOREM TypeCorrect == Spec => []TypeOK
<1>1. TypeInv => TypeOK
  BY DEF TypeInv
<1> QED
  BY <1>1, InitType, NextType, PTL DEF Spec

(***************************************************************************)
(* An operation this chain is primary for is finished only while it is sold *)
(* out across chains, whatever other chains sell or store and whichever     *)
(* statements fail (op_repository.rs:244-247, handler.rs:168-256).          *)
(***************************************************************************)
THEOREM FinishedIsSoldOut == Spec => []FinishedSoldOut
<1>1. FinishInv => FinishedSoldOut
  BY DEF FinishInv
<1> QED
  BY <1>1, InitFinish, NextFinish, PTL DEF Spec

(***************************************************************************)
(* No step of this task writes the status of an operation another chain is  *)
(* primary for (handler.rs:280-289).                                        *)
(***************************************************************************)
THEOREM ForeignStatusKept == Spec => ForeignStatusUntouched
<1>1. ForeignInv /\ [Next]_vars => [StatusKept]_vars
  BY NextForeign
<1>2. ForeignInv /\ [Next]_vars => ForeignInv'
  BY NextForeign
<1> QED
  BY <1>1, <1>2, InitForeign, PTL DEF Spec, ForeignStatusUntouched, StatusKept

(***************************************************************************)
(* Every fiat holding has a stored investment of its own, however often     *)
(* events are sent again (handler.rs:133-142, 315-359).                     *)
(***************************************************************************)
THEOREM HoldingsAreBacked == Spec => []HoldingsBacked
<1>1. HoldingsInv => HoldingsBacked
  <2> SUFFICES ASSUME HoldingsInv, NEW e \in Custodial
               PROVE  holdings[e] <= Cardinality(RowsFor(e))
    BY DEF HoldingsBacked, RowsFor
  <2>1. e \in Events /\ Pending(e) \in {0, 1} /\ Cardinality(RowsFor(e)) \in Nat
    BY HandlerAssumption, RowsForFinite DEF Pending, HoldingsInv
  <2> QED
    BY <2>1 DEF HoldingsInv
<1> QED
  BY <1>1, InitHoldings, NextHoldings, PTL DEF Spec

(***************************************************************************)
(* While no statement has failed and some operation is unfinished, every    *)
(* custodial investment that is done with has exactly one holding, however  *)
(* often its event is sent and whichever other messages are in the channel  *)
(* (handler.rs:290-296, 315-359).                                           *)
(***************************************************************************)
THEOREM HoldingsAreMatched ==
  ASSUME HashesDistinct
  PROVE  Spec => []HoldingsMatch
<1> DEFINE Inv == FlowInv /\ HoldingsInv /\ MatchInv
<1>1. Init => Inv
  BY InitTable, InitHoldings, InitMatch DEF TableInv
<1>2. Inv /\ [Next]_vars => Inv'
  BY NextFlow, NextHoldings, NextMatch DEF FlowInv
<1>3. Inv => HoldingsMatch
  <2> SUFFICES ASSUME Inv, AtRest, Unfinished \cap Followed # {}, NEW e \in Custodial
               PROVE  holdings[e] = Cardinality(RowsFor(e))
    BY DEF HoldingsMatch, RowsFor
  <2>1. holdings[e] + Pending(e) = Cardinality(RowsFor(e)) /\ Pending(e) = 0
    BY DEF MatchInv, AtRest, NoFault, Pending, Inserted
  <2>2. holdings[e] \in Nat
    BY HandlerAssumption DEF HoldingsInv
  <2> QED
    BY <2>1, <2>2
<1> QED
  BY <1>1, <1>2, <1>3, PTL DEF Spec

(***************************************************************************)
(* The Stellar shares of an ongoing operation this chain is primary for are *)
(* those of its stored investments less refunds whenever the task has       *)
(* finished with a message, whatever other chains sold between its reads    *)
(* and its write (handler.rs:180-187, 218-245).                             *)
(***************************************************************************)
THEOREM StellarProgressIsCurrent ==
  ASSUME HashesDistinct, Lifecycle
  PROVE  Spec => []StellarProgressCurrent
<1>1. Init => TableInv
  BY InitTable
<1>2. TableInv /\ [Next]_vars => TableInv'
  BY NextTable
<1>3. TableInv => StellarProgressCurrent
  BY DEF TableInv, ProgressInv, StellarProgressCurrent, AtRest, NoFault
<1> QED
  BY <1>1, <1>2, <1>3, PTL DEF Spec

(***************************************************************************)
(* ... and the shares over all chains never exceed the rows', and fall      *)
(* short of them by no more than the sales of other chains, which overtook  *)
(* the task (handler.rs:168-256).                                           *)
(***************************************************************************)
THEOREM ProgressIsCurrent ==
  ASSUME HashesDistinct, Lifecycle
  PROVE  Spec => []ProgressCurrent
<1>1. Init => TableInv
  BY InitTable
<1>2. TableInv /\ [Next]_vars => TableInv'
  BY NextTable
<1>3. TableInv => ProgressCurrent
  BY DEF TableInv, ProgressInv, ProgressCurrent, AtRest, NoFault
<1> QED
  BY <1>1, <1>2, <1>3, PTL DEF Spec

(***************************************************************************)
(* The status of an operation is that of its last event on this chain, or   *)
(* of a row of another chain, when the task has finished with a message:    *)
(* the priorities stand for the order of the events, however often one is   *)
(* sent again and whichever rows other chains add, the chains in memory are *)
(* fresh enough, and no trigger is missed (handler.rs:271-289,              *)
(* activity_repository.rs:332-371).                                         *)
(***************************************************************************)
THEOREM StatusIsCurrent ==
  ASSUME HashesDistinct, Lifecycle, Course, Ordered
  PROVE  Spec => []StatusCurrent
<1>1. Init => StatusInv
  BY InitStatusInv
<1>2. StatusInv /\ [Next]_vars => StatusInv'
  BY NextStatusInv
<1>3. StatusInv => StatusCurrent
  BY SettledIsCurrent DEF StatusInv, FlowInv
<1> QED
  BY <1>1, <1>2, <1>3, PTL DEF Spec

=============================================================================
