-------------------------- MODULE HubbleSourceProofs -------------------------
(***************************************************************************)
(* Theorems about the archival replay, for every history, span, watermark   *)
(* and dataset: no other network's dataset is trusted, and a query that is  *)
(* answered in time keeps the promise of the trait up to the order inside a *)
(* transaction.                                                             *)
(***************************************************************************)
EXTENDS HubbleSource, FiniteSetTheorems, TLAPS

\* What tells another network's dataset from this one's: its tip is further
\* off than MAX_TIP_DRIFT whenever the worker boots.  This network's is never
\* ahead of the chain.
NetworksApart ==
  /\ FirstIngested <= FirstTip /\ FirstTip <= MaxLedger
  /\ \A t \in OtherTip, n \in FirstTip .. MaxLedger :
       n - t > MaxDrift \/ t - n > MaxDrift

SourceInv ==
  /\ tip \in FirstTip .. MaxLedger
  /\ ingested \in 0 .. tip
  /\ dataset = <<>> \/ \E t \in OtherTip : dataset = <<t>>
  /\ network_tip = <<>> \/ \E n \in FirstTip .. MaxLedger : network_tip = <<n>>
  /\ start \in 0 .. MaxInt /\ ids \subseteq Contracts /\ ids # {}
  /\ pc # "done" => answer = Source!Pending
  /\ pc \in {"tip", "connect"} => replay = "none"
  /\ replay = "archival" => OwnNetwork
  /\ pc \in {"coverage", "events"} => OwnNetwork
  /\ pc = "events" => covered \in start .. ingested

LEMMA Extremes ==
  ASSUME NEW a \in Int, NEW b \in Int
  PROVE  /\ Max({a, b}) \in {a, b} /\ Max({a, b}) >= a /\ Max({a, b}) >= b
         /\ Min({a, b}) \in {a, b} /\ Min({a, b}) <= a /\ Min({a, b}) <= b
<1>1. \E m \in {a, b} : \A y \in {a, b} : m >= y
  OBVIOUS
<1>2. \E m \in {a, b} : \A y \in {a, b} : m <= y
  OBVIOUS
<1> QED
  BY <1>1, <1>2 DEF Max, Min

\* A range that is asked for is not empty, whatever the configured span.
LEMMA RangeNotEmpty ==
  ASSUME start \in 0 .. MaxInt
  PROVE  RequestedEnd \in Nat /\ start <= RequestedEnd
<1>1. Span \in Int /\ Span >= 1
  <2>1. MaxSpan \in Int
    BY HubbleSourceAssumption
  <2>2. Max({MaxSpan, 1}) \in {MaxSpan, 1} /\ Max({MaxSpan, 1}) >= 1
    BY <2>1, Extremes
  <2> QED
    BY <2>1, <2>2 DEF Span
<1>2. MaxInt \in Int /\ MaxInt \in Nat /\ start \in Int /\ start + Span - 1 \in Int
  BY <1>1, HubbleSourceAssumption
<1>3. Min({start + Span - 1, MaxInt}) \in {start + Span - 1, MaxInt}
  BY <1>2, Extremes
<1> QED
  BY <1>1, <1>2, <1>3 DEF RequestedEnd

\* A listing has the whole of its set, each element once, transaction by
\* transaction.
LEMMA ListingComplete ==
  ASSUME NEW S, S \subseteq Events, NEW s \in Listings(S)
  PROVE  /\ ToSet(s) = S /\ IsInjective(s)
         /\ \A i, j \in DOMAIN s : i < j =>
              s[i].ledger < s[j].ledger \/ (s[i].ledger = s[j].ledger /\ s[i].tx <= s[j].tx)
<1> DEFINE D == 1 .. Cardinality(S)
<1>1. IsFiniteSet(S) /\ Cardinality(S) \in Nat
  BY NetworkAssumption, FS_Subset, FS_CardinalityType
<1>2. /\ s \in [D -> S] /\ \A i, j \in D : i # j => s[i] # s[j]
      /\ \A i, j \in D : i < j => ~RowBefore(s[j], s[i])
  BY DEF Listings, SetToSeqs
<1>3. IsInjective(s)
  BY <1>2 DEF IsInjective
<1>4. s \in Injection(D, S)
  BY <1>2, <1>3 DEF Injection
<1>5. IsFiniteSet(D) /\ Cardinality(D) = Cardinality(S)
  BY <1>1, FS_Interval
<1>6. s \in Surjection(D, S)
  BY <1>1, <1>4, <1>5, FS_Injection
<1>7. ToSet(s) = S
  BY <1>2, <1>6 DEF ToSet, Surjection
<1>8. \A i, j \in D : i < j =>
        s[i].ledger < s[j].ledger \/ (s[i].ledger = s[j].ledger /\ s[i].tx <= s[j].tx)
  <2> SUFFICES ASSUME NEW i \in D, NEW j \in D, i < j
               PROVE  \/ s[i].ledger < s[j].ledger
                      \/ s[i].ledger = s[j].ledger /\ s[i].tx <= s[j].tx
    OBVIOUS
  <2>1. /\ s[i].ledger \in Nat /\ s[j].ledger \in Nat
        /\ s[i].tx \in Nat /\ s[j].tx \in Nat
    BY <1>2, NetworkAssumption DEF Event
  <2>2. /\ ~(s[j].ledger < s[i].ledger)
        /\ ~(s[j].ledger = s[i].ledger /\ s[j].tx < s[i].tx)
    BY <1>2 DEF RowBefore
  <2> QED
    BY <2>1, <2>2
<1> QED
  BY <1>2, <1>3, <1>7, <1>8

-----------------------------------------------------------------------------
LEMMA InitSource == NetworksApart /\ Init => SourceInv
<1> SUFFICES ASSUME NetworksApart, Init PROVE SourceInv
  OBVIOUS
<1>1. tip \in FirstTip .. MaxLedger /\ ingested \in 0 .. tip
  BY NetworkAssumption DEF Init, NetworkInit, NetworksApart
<1>2. start \in 0 .. MaxInt /\ ids \subseteq Contracts /\ ids # {}
  BY HubbleSourceAssumption DEF Init
<1> QED
  BY <1>1, <1>2 DEF Init, SourceInv

LEMMA NextSource == NetworksApart /\ SourceInv /\ [Next]_vars => SourceInv'
<1> SUFFICES ASSUME NetworksApart, SourceInv, [Next]_vars PROVE SourceInv'
  OBVIOUS
<1> USE DEF SourceInv, OwnNetwork
<1>1. CASE ReadNetworkTip
  BY <1>1 DEF ReadNetworkTip, TipReads, netVars
<1>2. CASE Connect
  <2>1. dataset = <<>>
    <3> SUFFICES ASSUME NEW t \in OtherTip, dataset = <<t>> PROVE FALSE
      OBVIOUS
    <3>1. PICK n \in FirstTip .. MaxLedger : network_tip = <<n>>
      BY <1>2 DEF Connect
    <3>2. n - t <= MaxDrift /\ t - n <= MaxDrift
      BY <1>2, <3>1 DEF Connect, Plausible, Watermark
    <3>3. n - t > MaxDrift \/ t - n > MaxDrift
      BY DEF NetworksApart
    <3>4. n \in Int /\ t \in Int /\ MaxDrift \in Int
      BY HubbleSourceAssumption
    <3> QED
      BY <3>2, <3>3, <3>4
  <2> QED
    BY <1>2, <2>1 DEF Connect, netVars
<1>3. CASE FallBack
  BY <1>3 DEF FallBack, netVars
<1>4. CASE ResolveCoverage
  <2>1. Watermark = ingested /\ ingested \in Nat
    BY <1>4, NetworkAssumption DEF ResolveCoverage, Watermark
  <2>2. RequestedEnd \in Int /\ ingested \in Int /\ start <= RequestedEnd
    BY <2>1, RangeNotEmpty
  <2>3. /\ Min({RequestedEnd, ingested}) \in {RequestedEnd, ingested}
        /\ Min({RequestedEnd, ingested}) <= ingested
    BY <2>1, <2>2, Extremes
  <2>4. covered' = Min({RequestedEnd, ingested}) /\ start <= ingested
    BY <1>4, <2>1 DEF ResolveCoverage
  <2>5. covered' \in start .. ingested
    BY <2>1, <2>2, <2>3, <2>4
  <2> QED
    BY <1>4, <2>5 DEF ResolveCoverage, netVars
<1>5. CASE HoldCursor \/ ReadEvents \/ QueryFails
  BY <1>5 DEF HoldCursor, ReadEvents, QueryFails, Finish, netVars
<1>6. CASE /\ CloseLedger \/ Ingest
           /\ UNCHANGED <<dataset, pc, network_tip, replay, start, ids, covered, answer>>
  <2>1. tip' \in FirstTip .. MaxLedger /\ ingested' \in 0 .. tip' /\ ingested <= ingested'
    BY <1>6, NetworkAssumption DEF CloseLedger, Ingest
  <2>2. ingested \in Nat /\ ingested' \in Nat
    BY <2>1, NetworkAssumption
  <2> QED
    BY <1>6, <2>1, <2>2
<1>7. CASE UNCHANGED vars
  BY <1>7 DEF vars, netVars
<1> QED
  BY <1>1, <1>2, <1>3, <1>4, <1>5, <1>6, <1>7 DEF Next

\* Every step of the replay is a step or a stutter of the trait.
LEMMA SourceStep ==
  ~SlowQueries /\ SourceInv /\ SourceInv' /\ [Next]_vars =>
    [Source!TransactionNext]_(Source!sourceVars)
<1> SUFFICES ASSUME ~SlowQueries, SourceInv, SourceInv', [Next]_vars
             PROVE  Source!TransactionNext \/ UNCHANGED <<start, ids, answer>>
  BY DEF Source!sourceVars
<1>1. CASE ReadNetworkTip \/ Connect \/ FallBack \/ ResolveCoverage
  BY <1>1 DEF ReadNetworkTip, Connect, FallBack, ResolveCoverage
<1>2. CASE HoldCursor
  <2>1. /\ answer = Source!Pending /\ answer' = Source!Ok(<<>>, start)
        /\ UNCHANGED <<start, ids>>
    BY <1>2 DEF HoldCursor, Finish, SourceInv
  <2>2. Source!Answered' /\ Source!TransactionsOrdered'
    <3>1. answer'.events = <<>> /\ answer'.next = start /\ start \in Int
      BY <2>1 DEF Source!Ok, SourceInv
    <3>2. ToSet(answer'.events) = {} /\ DOMAIN answer'.events = {}
      BY <3>1 DEF ToSet
    <3>3. Source!Visible(start', answer'.next - 1, ids') = {}
      <4>1. \A e \in Events : e.ledger \in Nat
        BY NetworkAssumption DEF Event
      <4> QED
        BY <2>1, <3>1, <4>1 DEF Source!Visible
    <3> QED
      BY <2>1, <3>1, <3>2, <3>3
      DEF Source!Answered, Source!TransactionsOrdered, Source!ToSet, Source!IsInjective, ToSet
  <2> QED
    BY <2>1, <2>2 DEF Source!TransactionNext, Source!Return, Source!Ok
<1>3. CASE ReadEvents
  <2>1. PICK s \in Listings(Rows) : answer' = Source!Ok(s, covered + 1)
    BY <1>3 DEF ReadEvents, Results, Finish, ResumeAfter
  <2>2. /\ answer = Source!Pending /\ UNCHANGED <<start, ids, tip>>
        /\ covered \in start .. ingested /\ OwnNetwork
    BY <1>3 DEF ReadEvents, SourceInv, netVars
  <2>3. ingested \in 0 .. tip /\ tip \in Nat /\ start \in Nat
    BY NetworkAssumption DEF SourceInv
  <2>4. Rows = Visible(start, covered, ids) \ Garbled
    <3>1. covered \in Int /\ ingested \in Int /\ covered <= ingested
      BY <2>2, <2>3
    <3>2. Min({covered, ingested}) = covered
      BY <3>1, Extremes
    <3> QED
      BY <2>2, <3>2 DEF Rows
  <2>5. /\ ToSet(s) = Rows /\ IsInjective(s)
        /\ \A i, j \in DOMAIN s : i < j =>
             s[i].ledger < s[j].ledger \/ (s[i].ledger = s[j].ledger /\ s[i].tx <= s[j].tx)
    <3>1. Rows \subseteq Events
      BY <2>4 DEF Visible
    <3> QED
      BY <3>1, ListingComplete
  <2>6. Source!Answered' /\ Source!TransactionsOrdered'
    <3>1. /\ answer'.events = s /\ answer'.next = covered + 1
          /\ answer'.next - 1 = covered
      BY <2>1, <2>2, <2>3 DEF Source!Ok
    <3>2. /\ Source!Visible(start', covered, ids') = Visible(start, covered, ids)
          /\ Visible(start, covered, ids) \subseteq Source!Visible(start', tip', ids')
      <4>1. \A e \in Events : e.ledger \in Nat
        BY NetworkAssumption DEF Event
      <4> QED
        BY <2>2, <2>3, <4>1 DEF Source!Visible, Visible
    <3>3. start' <= answer'.next /\ answer'.next <= tip' + 1
      BY <2>2, <2>3, <3>1
    <3> QED
      BY <2>4, <2>5, <3>1, <3>2, <3>3
      DEF Source!Answered, Source!TransactionsOrdered, Source!ToSet, Source!IsInjective,
          ToSet, IsInjective
  <2> QED
    BY <2>1, <2>2, <2>6 DEF Source!TransactionNext, Source!Return, Source!Ok
<1>4. CASE QueryFails
  BY <1>4 DEF QueryFails, Finish, SourceInv, Source!TransactionNext, Source!Fail
<1>5. CASE /\ CloseLedger \/ Ingest
           /\ UNCHANGED <<dataset, pc, network_tip, replay, start, ids, covered, answer>>
  BY <1>5
<1>6. CASE UNCHANGED vars
  BY <1>6 DEF vars
<1> QED
  BY <1>1, <1>2, <1>3, <1>4, <1>5, <1>6 DEF Next

-----------------------------------------------------------------------------
(***************************************************************************)
(* Provided that networks are further apart than MAX_TIP_DRIFT, the worker  *)
(* never replays the history of another one (hubble.rs:131-135).            *)
(***************************************************************************)
THEOREM NeverForeignHistory ==
  ASSUME NetworksApart
  PROVE  Spec => []OwnHistoryOnly
<1>1. SourceInv => OwnHistoryOnly
  BY DEF SourceInv, OwnHistoryOnly
<1>2. Init => SourceInv
  BY InitSource
<1>3. SourceInv /\ [Next]_vars => SourceInv'
  BY NextSource
<1> QED
  BY <1>1, <1>2, <1>3, PTL DEF Spec

(***************************************************************************)
(* A replay whose queries are answered in time implements the trait up to   *)
(* the order inside a transaction: every event before the ledger to resume  *)
(* from, each once, transaction by transaction, and never past the          *)
(* watermark (hubble.rs:401-433, event_source.rs:77-90).                    *)
(***************************************************************************)
THEOREM HubbleImplementsTraitPerTransaction ==
  ASSUME NetworksApart, ~SlowQueries
  PROVE  Spec => HonoursTraitPerTransaction
<1>1. Init => SourceInv /\ Source!Init
  <2>1. Init => Source!Init
    BY HubbleSourceAssumption DEF Init, Source!Init
  <2> QED
    BY <2>1, InitSource
<1>2. SourceInv /\ [Next]_vars => SourceInv'
  BY NextSource
<1>3. SourceInv /\ SourceInv' /\ [Next]_vars => [Source!TransactionNext]_(Source!sourceVars)
  BY SourceStep
<1> QED
  BY <1>1, <1>2, <1>3, PTL DEF Spec, HonoursTraitPerTransaction, Source!TransactionSpec
-----------------------------------------------------------------------------
RequestOK == start \in 0 .. MaxInt

LEMMA TypesNext == TypeOK /\ RequestOK /\ [Next]_vars => (TypeOK /\ RequestOK)'
<1> SUFFICES ASSUME TypeOK, RequestOK, [Next]_vars PROVE TypeOK' /\ RequestOK'
  OBVIOUS
<1>1. tip \in Nat /\ ingested \in Nat /\ low \in [Endpoints -> Nat] /\ start \in 0 .. MaxInt
  BY DEF TypeOK, NetworkTypeOK, RequestOK
<1> USE DEF TypeOK, RequestOK
<1>2. CASE ReadNetworkTip
  <2>1. network_tip' \in Seq(Nat) /\ Len(network_tip') <= 1
    <3>1. network_tip' = <<>> \/ network_tip' = <<tip>>
      BY <1>2 DEF ReadNetworkTip, TipReads
    <3>2. <<>> \in Seq(Nat) /\ Len(<<>>) = 0 /\ <<tip>> \in Seq(Nat) /\ Len(<<tip>>) = 1
      BY <1>1
    <3>3. CASE network_tip' = <<>>
      BY ONLY <3>2, <3>3
    <3>4. CASE network_tip' = <<tip>>
      BY ONLY <3>2, <3>4
    <3> QED
      BY <3>1, <3>3, <3>4
  <2> QED
    BY <1>2, <2>1 DEF ReadNetworkTip, netVars, NetworkTypeOK
<1>3. CASE Connect \/ FallBack
  BY <1>3 DEF Connect, FallBack, netVars, NetworkTypeOK
<1>4. CASE ResolveCoverage
  <2>1. Watermark \in Nat
    BY <1>1, HubbleSourceAssumption DEF Watermark, OwnNetwork
  <2>2. RequestedEnd \in Nat
    BY <1>1, RangeNotEmpty
  <2>3. Min({RequestedEnd, Watermark}) \in {RequestedEnd, Watermark}
    <3>1. RequestedEnd \in Int /\ Watermark \in Int
      BY <2>1, <2>2
    <3> QED
      BY ONLY <3>1, Extremes
  <2>4. covered' \in Nat
    BY <1>4, <2>1, <2>2, <2>3 DEF ResolveCoverage
  <2> QED
    BY <1>4, <2>4 DEF ResolveCoverage, netVars, NetworkTypeOK
<1>5. CASE HoldCursor \/ ReadEvents \/ QueryFails
  BY <1>5 DEF HoldCursor, ReadEvents, QueryFails, Finish, netVars, NetworkTypeOK, Source!Ok, Source!Failed
<1>6. CASE /\ CloseLedger \/ Ingest
           /\ UNCHANGED <<dataset, pc, network_tip, replay, start, ids, covered, answer>>
  BY <1>1, <1>6 DEF CloseLedger, Ingest, NetworkTypeOK
<1>7. CASE UNCHANGED vars
  BY <1>7 DEF vars, netVars, NetworkTypeOK
<1> QED
  BY <1>2, <1>3, <1>4, <1>5, <1>6, <1>7 DEF Next

(***************************************************************************)
(* Type correctness of the archival replay, whatever the dataset it was     *)
(* pointed at.                                                              *)
(***************************************************************************)
THEOREM TypeCorrect == Spec => []TypeOK
<1>1. Init => TypeOK /\ RequestOK
  BY NetworkAssumption, HubbleSourceAssumption
  DEF Init, NetworkInit, NetworkTypeOK, TypeOK, RequestOK, Source!Pending
<1>2. TypeOK /\ RequestOK /\ [Next]_vars => (TypeOK /\ RequestOK)'
  BY TypesNext
<1> QED
  BY <1>1, <1>2, PTL DEF Spec

=============================================================================
