---------------------------- MODULE HandlerProofs ----------------------------
(***************************************************************************)
(* What the operators of the store task return and what each of its steps   *)
(* does, for every database: the lemmas that the theorems about the task    *)
(* (ProjectionProofs) and about the whole worker (WorkerProofs) share.      *)
(***************************************************************************)
EXTENDS Handler, FiniteSetTheorems, WellFoundedInduction, SequenceTheorems, TLAPS

-----------------------------------------------------------------------------
\* Induction without an operator parameter: a non-empty family of finite sets
\* has a minimal member.
LEMMA MinimalSubset ==
  ASSUME NEW S, IsFiniteSet(S), NEW F \in SUBSET SUBSET S, F # {}
  PROVE  \E T \in F : \A U \in F : U \subseteq T => U = T
<1>1. IsWellFoundedOn(StrictSubsetOrdering(S), SUBSET S)
  BY FS_StrictSubsetOrderingWellFounded, FS_FiniteSubsetsOfFinite
<1>2. PICK T \in F : \A U \in F : ~(<<U, T>> \in StrictSubsetOrdering(S))
  <2> HIDE DEF StrictSubsetOrdering
  <2> QED
    BY <1>1, WFMin
<1> QED
  BY <1>2 DEF StrictSubsetOrdering

\* ... and a non-empty set of naturals a least element.
LEMMA LeastNatural ==
  ASSUME NEW N \in SUBSET Nat, N # {}
  PROVE  \E n \in N : \A m \in N : n <= m
<1>1. PICK n \in N : \A m \in N : ~(<<m, n>> \in OpToRel(<, Nat))
  <2>1. IsWellFoundedOn(OpToRel(<, Nat), Nat)
    BY NatLessThanWellFounded
  <2> HIDE DEF OpToRel
  <2> DEFINE R == OpToRel(<, Nat)
  <2> HIDE DEF R
  <2> QED
    BY <2>1, WFMin DEF R
<1>2. \A m \in N : ~(m < n)
  BY <1>1 DEF OpToRel
<1> QED
  BY <1>2

\* Max is the greatest element of a finite set.
LEMMA MaxIs ==
  ASSUME NEW S, IsFiniteSet(S), S \subseteq Int, S # {}
  PROVE  Max(S) \in S /\ \A x \in S : x <= Max(S)
<1> DEFINE HasMax(T) == \E m \in T : \A x \in T : m >= x
           F == {T \in SUBSET S : T # {} /\ ~HasMax(T)}
<1>1. F = {}
  <2> SUFFICES ASSUME F # {} PROVE FALSE
    OBVIOUS
  <2>1. PICK T \in F : \A U \in F : U \subseteq T => U = T
    <3>1. F \in SUBSET SUBSET S
      OBVIOUS
    <3> HIDE DEF F
    <3>2. \E T \in F : \A U \in F : U \subseteq T => U = T
      BY ONLY <3>1, F # {}, IsFiniteSet(S), MinimalSubset
    <3> QED
      BY <3>2
  <2>2. PICK x \in T : TRUE
    BY <2>1
  <2>3. T \ {x} = {} \/ HasMax(T \ {x})
    <3>1. T \ {x} \in SUBSET S /\ T \ {x} # T /\ T \ {x} \subseteq T
      BY <2>1, <2>2
    <3> HIDE DEF HasMax
    <3> QED
      BY <2>1, <3>1
  <2>4. T \subseteq Int
    BY <2>1
  <2>5. HasMax(T)
    <3>1. CASE T \ {x} = {}
      <4>1. \A y \in T : y = x
        BY <3>1
      <4> QED
        BY <2>2, <2>4, <4>1
    <3>2. CASE HasMax(T \ {x})
      <4>1. PICK m \in T \ {x} : \A y \in T \ {x} : m >= y
        BY <3>2
      <4>2. CASE m >= x
        BY <2>4, <4>1, <4>2
      <4>3. CASE ~(m >= x)
        BY <2>4, <4>1, <4>3
      <4> QED
        BY <4>2, <4>3
    <3> QED
      BY <2>3, <3>1, <3>2
  <2> QED
    BY <2>1, <2>5
<1>2. HasMax(S)
  BY <1>1
<1> QED
  BY <1>2 DEF Max

\* ... and of any selection from one.
LEMMA MaxOfSome ==
  ASSUME NEW L, IsFiniteSet(L), L \subseteq Nat, NEW S \in SUBSET L, S # {}
  PROVE  Max(S) \in S /\ Max(S) \in L /\ Max(S) \in Nat /\ \A x \in S : x <= Max(S)
<1>1. IsFiniteSet(S)
  BY FS_Subset
<1>2. S \subseteq Int
  OBVIOUS
<1>3. Max(S) \in S /\ \A x \in S : x <= Max(S)
  BY <1>1, <1>2, MaxIs
<1> QED
  BY <1>3

\* The ledgers of finitely many rows are finitely many.
LEMMA LedgersFinite ==
  ASSUME NEW R, IsFiniteSet(R)
  PROVE  IsFiniteSet({r.event.ledger : r \in R})
<1> DEFINE L == {r.event.ledger : r \in R}
           f == [r \in R |-> r.event.ledger]
<1>1. f \in Surjection(R, L)
  BY DEF Surjection
<1> QED
  BY <1>1, FS_Surjection

-----------------------------------------------------------------------------
\* A sum over finitely many rows is a natural number: the recursion MapThenSumSet
\* is defined by has a solution, and its values are sums of shares.
LEMMA SumIsNat ==
  ASSUME NEW S, IsFiniteSet(S), \A r \in S : r.event.shares \in Nat
  PROVE  MapThenSumSet(LAMBDA r : r.event.shares, S) \in Nat
<1> DEFINE Pick(s) == CHOOSE x \in s : TRUE
           Step(g, s) == IF s = {} THEN 0 ELSE Pick(s).event.shares + g[s \ {Pick(s)}]
           iter == CHOOSE g : g = [s \in SUBSET S |-> Step(g, s)]
           Upto(n) == {s \in SUBSET S : Cardinality(s) <= n}
           Solved(n) == \E g : g = [s \in Upto(n) |-> Step(g, s)]
<1>1. MapThenSumSet(LAMBDA r : r.event.shares, S) = iter[S]
  BY DEF MapThenSumSet, MapThenFoldSet
<1>2. \A s \in SUBSET S : s # {} => Pick(s) \in s
  OBVIOUS
<1>3. \A s \in SUBSET S : IsFiniteSet(s) /\ Cardinality(s) \in Nat /\ Cardinality(s) <= Cardinality(S)
  BY FS_Subset, FS_CardinalityType
<1>4. \A s \in SUBSET S : s # {} => Cardinality(s \ {Pick(s)}) = Cardinality(s) - 1
  BY <1>2, <1>3, FS_RemoveElement
<1>5. \A s \in SUBSET S : s # {} => s \ {Pick(s)} \in SUBSET S
  OBVIOUS
<1> HIDE DEF Pick
<1>6. ASSUME NEW n \in Nat, Solved(n) PROVE Solved(n + 1)
  <2>1. PICK g : g = [s \in Upto(n) |-> Step(g, s)]
    BY <1>6
  <2> DEFINE h == [s \in Upto(n + 1) |-> Step(g, s)]
  <2>2. ASSUME NEW s \in Upto(n + 1), s # {} PROVE h[s \ {Pick(s)}] = g[s \ {Pick(s)}]
    <3>1. s \ {Pick(s)} \in Upto(n) /\ s \ {Pick(s)} \in Upto(n + 1)
      BY <1>3, <1>4, <1>5, <2>2
    <3> HIDE DEF Upto
    <3>2. g[s \ {Pick(s)}] = Step(g, s \ {Pick(s)})
      BY <2>1, <3>1
    <3> QED
      BY <3>1, <3>2
  <2> HIDE DEF Upto
  <2>3. h = [s \in Upto(n + 1) |-> Step(g, s)]
    OBVIOUS
  <2> HIDE DEF h
  <2>4. \A s \in Upto(n + 1) : Step(h, s) = Step(g, s)
    BY <2>2
  <2>5. h = [s \in Upto(n + 1) |-> Step(h, s)]
    BY <2>3, <2>4
  <2> QED
    BY <2>5
<1>7. Solved(0)
  <2>1. \A s \in Upto(0) : s = {}
    <3> SUFFICES ASSUME NEW s \in SUBSET S, Cardinality(s) <= 0 PROVE s = {}
      OBVIOUS
    <3>1. Cardinality(s) = 0
      BY <1>3
    <3> QED
      BY <1>3, <3>1, FS_EmptySet
  <2> HIDE DEF Upto
  <2>2. [s \in Upto(0) |-> 0] = [s \in Upto(0) |-> Step([t \in Upto(0) |-> 0], s)]
    BY <2>1
  <2> QED
    BY <2>2
<1>8. \A n \in Nat : Solved(n)
  <2> HIDE DEF Solved
  <2> DEFINE N == {n \in Nat : ~Solved(n)}
  <2> SUFFICES ASSUME N # {} PROVE FALSE
    OBVIOUS
  <2>1. N \in SUBSET Nat
    OBVIOUS
  <2>2. PICK n \in N : \A m \in N : n <= m
    BY <2>1, LeastNatural
  <2>3. n # 0
    BY <1>7, <2>2
  <2>4. n - 1 \in Nat /\ ~(n <= n - 1)
    BY <2>2, <2>3
  <2>5. Solved(n - 1)
    BY <2>2, <2>4
  <2> QED
    BY <1>6, <2>2, <2>4, <2>5
<1>9. iter = [s \in SUBSET S |-> Step(iter, s)]
  <2>1. Cardinality(S) \in Nat /\ Upto(Cardinality(S)) = SUBSET S
    BY <1>3
  <2>2. \E g : g = [s \in SUBSET S |-> Step(g, s)]
    BY <1>8, <2>1
  <2> QED
    BY <2>2
<1>10. \A s \in SUBSET S : iter[s] \in Nat
  <2> HIDE DEF iter
  <2> DEFINE F == {s \in SUBSET S : iter[s] \notin Nat}
  <2> SUFFICES ASSUME F # {} PROVE FALSE
    OBVIOUS
  <2>1. PICK s \in F : \A U \in F : U \subseteq s => U = s
    <3>1. F \in SUBSET SUBSET S
      OBVIOUS
    <3> HIDE DEF F
    <3>2. \E T \in F : \A U \in F : U \subseteq T => U = T
      BY ONLY <3>1, F # {}, IsFiniteSet(S), MinimalSubset
    <3> QED
      BY <3>2
  <2>2. iter[s] = Step(iter, s)
    BY <1>9, <2>1
  <2>3. s # {}
    BY <2>1, <2>2
  <2>4. s \ {Pick(s)} \in SUBSET S /\ s \ {Pick(s)} # s /\ Pick(s) \in S
    BY <1>2, <2>1, <2>3
  <2>5. iter[s \ {Pick(s)}] \in Nat
    BY <2>1, <2>4
  <2> QED
    BY <2>1, <2>2, <2>3, <2>4, <2>5
<1> QED
  BY <1>1, <1>10

LEMMA SumOfNone == MapThenSumSet(LAMBDA r : r.event.shares, {}) = 0
<1> DEFINE Pick(s) == CHOOSE x \in s : TRUE
           Step(g, s) == IF s = {} THEN 0 ELSE Pick(s).event.shares + g[s \ {Pick(s)}]
           iter == CHOOSE g : g = [s \in SUBSET {} |-> Step(g, s)]
<1>1. MapThenSumSet(LAMBDA r : r.event.shares, {}) = iter[{}]
  BY DEF MapThenSumSet, MapThenFoldSet
<1>2. [s \in SUBSET {} |-> 0] = [s \in SUBSET {} |-> Step([t \in SUBSET {} |-> 0], s)]
  <2>1. \A s \in SUBSET {} : s = {}
    OBVIOUS
  <2> HIDE DEF Pick
  <2> QED
    BY <2>1
<1>3. iter = [s \in SUBSET {} |-> Step(iter, s)]
  <2> HIDE DEF Step
  <2> QED
    BY <1>2
<1> HIDE DEF iter
<1>4. iter[{}] = Step(iter, {})
  BY <1>3
<1> QED
  BY <1>1, <1>4

-----------------------------------------------------------------------------
\* What the tables hold.
RowsOK == rows \subseteq Message /\ IsFiniteSet(rows)

LEMMA MessageIs ==
  ASSUME NEW m \in Message
  PROVE  /\ m.event \in Events /\ m.event.op \in Ops /\ m.event.contract \in Contracts
         /\ m.event.ledger \in Nat /\ m.event.shares \in Nat /\ m.event.kind \in Kinds
BY NetworkAssumption DEF Message, Event

LEMMA SharesAreNat ==
  ASSUME RowsOK, NEW o, NEW kind
  PROVE  SharesOf(o, kind) \in Nat
<1> DEFINE S == {r \in rows : r.event.op = o /\ r.event.kind = kind}
<1>1. IsFiniteSet(S)
  BY FS_Subset DEF RowsOK
<1>2. \A r \in S : r.event.shares \in Nat
  BY MessageIs DEF RowsOK
<1>3. SharesOf(o, kind) = MapThenSumSet(LAMBDA r : r.event.shares, S)
  BY DEF SharesOf
<1> HIDE DEF S
<1> QED
  BY <1>1, <1>2, <1>3, SumIsNat

\* Net shares saturate at zero, and sales elsewhere can only raise them.
LEMMA NetFundedIs ==
  ASSUME RowsOK, NEW o, NEW n \in Nat
  PROVE  /\ NetFunded(o, n) \in Nat
         /\ NetFunded(o, 0) <= NetFunded(o, n) /\ NetFunded(o, n) <= NetFunded(o, 0) + n
         /\ NetFunded(o, n) <= NetFunded(o, n + 1) /\ NetFunded(o, n + 1) <= NetFunded(o, n) + 1
<1>1. SharesOf(o, "invested") \in Nat /\ SharesOf(o, "refunded") \in Nat
  BY SharesAreNat
<1> HIDE DEF SharesOf
<1> QED
  BY <1>1 DEF NetFunded

\* Without rows of its own an operation has sold what others sold.
LEMMA NetFundedOfNone ==
  ASSUME NEW o, NEW n \in Nat, \A r \in rows : r.event.op = o => r.event.kind \notin {"invested", "refunded"}
  PROVE  NetFunded(o, n) = n
<1>1. /\ {r \in rows : r.event.op = o /\ r.event.kind = "invested"} = {}
      /\ {r \in rows : r.event.op = o /\ r.event.kind = "refunded"} = {}
  OBVIOUS
<1>2. SharesOf(o, "invested") = 0 /\ SharesOf(o, "refunded") = 0
  BY <1>1, SumOfNone DEF SharesOf
<1> QED
  BY <1>2 DEF NetFunded

\* The rows the query for a contract's highest ledger selects.
KindsOf(c) ==
  CASE c = Factory -> {"op_created"} \cup (OperationKinds \ RewardsKinds)
    [] c \in Rewards -> RewardsKinds
    [] OTHER -> {"op_lend_transfered"}
RowsOf(c) ==
  {r \in rows : r.event.kind \in KindsOf(c) /\
                  (KindsOf(c) = {"op_lend_transfered"} => c = Token[r.event.op])}

\* The highest stored ledger of a contract is that of one of its rows, or 0.
LEMMA LatestStoredIs ==
  ASSUME RowsOK, NEW c, NEW readable
  PROVE  /\ LatestStored(c, readable) \in Nat
         /\ LatestStored(c, readable) \in {0} \cup {r.event.ledger : r \in rows}
         /\ c \in readable => \A r \in RowsOf(c) : r.event.ledger <= LatestStored(c, readable)
<1> DEFINE L == {0} \cup {r.event.ledger : r \in RowsOf(c)}
<1>1. LatestStored(c, readable) = IF c \in readable THEN Max(L) ELSE 0
  BY DEF LatestStored, RowsOf, KindsOf
<1>2. RowsOf(c) \subseteq rows
  BY DEF RowsOf
<1>3. \A r \in rows : r.event.ledger \in Nat
  BY MessageIs DEF RowsOK
<1>4. IsFiniteSet({r.event.ledger : r \in RowsOf(c)})
  BY <1>2, FS_Subset, LedgersFinite DEF RowsOK
<1>5. IsFiniteSet(L)
  <2>1. IsFiniteSet({0})
    BY FS_Singleton
  <2> HIDE DEF RowsOf
  <2> QED
    BY <1>4, <2>1, FS_Union
<1>6. L # {} /\ L \subseteq Int /\ L \subseteq Nat
  BY <1>2, <1>3
<1>7. Max(L) \in L /\ \A x \in L : x <= Max(L)
  BY <1>5, <1>6, MaxIs
<1>8. L \subseteq {0} \cup {r.event.ledger : r \in rows} /\ \A r \in RowsOf(c) : r.event.ledger \in L
  BY <1>2
<1>9. 0 \in L
  OBVIOUS
<1> HIDE DEF L
<1>10. CASE c \in readable
  BY <1>1, <1>6, <1>7, <1>8, <1>10
<1>11. CASE c \notin readable
  BY <1>1, <1>11
<1> QED
  BY <1>10, <1>11

LEMMA LatestBlockIs ==
  ASSUME RowsOK, NEW c, NEW readable
  PROVE  /\ LatestBlock(c, readable) \in Nat
         /\ LatestBlock(c, readable) \in {0, StartLedger} \cup {r.event.ledger : r \in rows}
BY LatestStoredIs, ChannelsAssumption DEF LatestBlock

\* What get_op_data and the reads behind it may return.
LEMMA ReadsAre ==
  ASSUME RowsOK, NEW d \in OpData, NEW loaded \in BOOLEAN, NEW l \in Reads(d, loaded)
  PROVE  /\ l.op_data = d
         /\ l.command \in Command
         /\ l.command.observed = Observable(d) /\ l.command.ops = d.known
         /\ l.command.latest \in {0, StartLedger} \cup {r.event.ledger : r \in rows}
         /\ l.faulty \in BOOLEAN
         /\ ~l.faulty =>
              loaded /\ \A c \in Observable(d) :
                          LatestBlock(c, Observable(d)) <= l.command.latest
<1> DEFINE Of(readable) == {LatestBlock(c, readable) : c \in Observable(d)}
           Ledgers == {0, StartLedger} \cup {r.event.ledger : r \in rows}
<1>1. PICK readable \in SUBSET Observable(d) :
        l = [op_data |-> d,
             faulty |-> ~loaded \/ readable # Observable(d),
             command |-> [observed |-> Observable(d), ops |-> d.known,
                          latest |-> Max(Of(readable))]]
  BY DEF Reads
<1>2. Ledgers \subseteq Nat /\ IsFiniteSet(Ledgers)
  <2>1. IsFiniteSet({0, StartLedger}) /\ StartLedger \in Nat
    <3>1. IsFiniteSet({0}) /\ IsFiniteSet({StartLedger}) /\ {0, StartLedger} = {0} \cup {StartLedger}
      BY FS_Singleton
    <3>2. IsFiniteSet({0} \cup {StartLedger})
      BY ONLY <3>1, FS_Union
    <3>3. StartLedger \in Nat
      BY ChannelsAssumption
    <3> QED
      BY ONLY <3>1, <3>2, <3>3
  <2>2. IsFiniteSet({r.event.ledger : r \in rows})
    BY LedgersFinite DEF RowsOK
  <2>3. \A r \in rows : r.event.ledger \in Nat
    BY MessageIs DEF RowsOK
  <2>4. Ledgers \subseteq Nat
    BY <2>1, <2>3
  <2> DEFINE A == {0, StartLedger}
             B == {r.event.ledger : r \in rows}
  <2>5. IsFiniteSet(A \cup B)
    <3> HIDE DEF A, B
    <3> QED
      BY <2>1, <2>2, FS_Union DEF A, B
  <2> QED
    BY <2>4, <2>5
<1>3. Observable(d) \subseteq Contracts /\ Factory \in Observable(d)
  BY ChannelsAssumption, HandlerAssumption DEF Observable, OpData
<1>4. Of(readable) \subseteq Ledgers /\ Of(readable) # {}
  BY <1>3, LatestBlockIs
<1>6. /\ Max(Of(readable)) \in Ledgers /\ Max(Of(readable)) \in Nat
      /\ \A x \in Of(readable) : x <= Max(Of(readable))
  <2> DEFINE S == Of(readable)
  <2>1. S \in SUBSET Ledgers /\ S # {} /\ Ledgers \subseteq Nat /\ IsFiniteSet(Ledgers)
    BY <1>2, <1>4
  <2> HIDE DEF Ledgers, S
  <2>2. Max(S) \in Ledgers /\ Max(S) \in Nat /\ \A x \in S : x <= Max(S)
    BY ONLY <2>1, MaxOfSome
  <2> QED
    BY <2>2 DEF S
<1>7. l.command \in Command
  BY <1>1, <1>3, <1>6 DEF Command, OpData
<1>8. ~l.faulty => loaded /\ readable = Observable(d)
  BY <1>1
<1>9. readable = Observable(d) =>
        \A c \in Observable(d) : LatestBlock(c, Observable(d)) <= Max(Of(readable))
  BY <1>6
<1> HIDE DEF Of
<1> QED
  BY <1>1, <1>6, <1>7, <1>8, <1>9

LEMMA LoadedType ==
  ASSUME linked \subseteq Ops, primary \subseteq Ops, published \subseteq Ops
  PROVE  Loaded \in OpData
BY DEF Loaded, OpData, Listed

\* What a refresh may load: the operations as they are, or as they were loaded
\* last; and only then with every read done.
LEMMA LoadsAre ==
  ASSUME RowsOK, Loaded \in OpData, NEW old \in OpData, NEW l \in Loads(old)
  PROVE  /\ l.op_data \in OpData /\ l.op_data \in {Loaded, old}
         /\ l.command \in Command
         /\ l.command.observed = Observable(l.op_data) /\ l.command.ops = l.op_data.known
         /\ l.command.latest \in {0, StartLedger} \cup {r.event.ledger : r \in rows}
         /\ l.faulty \in BOOLEAN
         /\ ~l.faulty =>
              /\ l.op_data = Loaded
              /\ \A c \in Observable(Loaded) :
                   LatestBlock(c, Observable(Loaded)) <= l.command.latest
<1>1. CASE l \in Reads(Loaded, TRUE)
  BY ZenonT(30), <1>1, ReadsAre
<1>2. CASE l \in Reads(old, FALSE)
  BY ZenonT(30), <1>2, ReadsAre
<1> QED
  BY <1>1, <1>2 DEF Loads

-----------------------------------------------------------------------------
\* Types, one lemma per group of steps.
HandlerInv == HandlerTypeOK /\ ChannelsTypeOK /\ IsFiniteSet(rows)

LEMMA HandlerInvRows == HandlerInv => RowsOK /\ Loaded \in OpData
BY LoadedType DEF HandlerInv, HandlerTypeOK, RowsOK

\* The message in hand, between two receptions.
LEMMA HeldIs ==
  ASSUME HandlerTypeOK, hpc # "recv"
  PROVE  Held \in Message /\ batch = <<Held>> /\ batch \in Seq(Message) /\ Len(batch) = 1
<1>1. batch \in Seq(Message) /\ Len(batch) = 1
  BY DEF HandlerTypeOK
<1>2. batch # <<>> /\ batch[1] \in Message
  BY <1>1
<1>3. batch = <<batch[1]>>
  BY <1>1
<1> QED
  BY <1>1, <1>2, <1>3 DEF Held

LEMMA GoToType ==
  ASSUME HandlerTypeOK, hpc # "recv", NEW step \in HandlerSteps, GoTo(step)
  PROVE  /\ hpc' \in HandlerSteps /\ batch' \in Seq(Message)
         /\ Len(batch') = IF hpc' = "recv" THEN 0 ELSE 1
<1>1. hpc' = step /\ batch' = IF step = "recv" THEN <<>> ELSE batch
  BY DEF GoTo
<1>2. Len(batch) = 1 /\ batch \in Seq(Message)
  BY HeldIs
<1>3. CASE step = "recv"
  BY <1>1, <1>3
<1>4. CASE step # "recv"
  BY <1>1, <1>2, <1>4
<1> QED
  BY <1>3, <1>4

LEMMA ReceiveInv == HandlerInv /\ Receive => HandlerInv'
<1> SUFFICES ASSUME HandlerInv, Receive PROVE HandlerInv'
  OBVIOUS
<1>1. Head(evQ) \in Message /\ Tail(evQ) \in Seq(Message)
  BY DEF HandlerInv, ChannelsTypeOK, Receive
<1> QED
  BY <1>1 DEF HandlerInv, HandlerTypeOK, ChannelsTypeOK, Receive, HandlerSteps, dbVars,
              progressVars, othersVars

LEMMA InsertInv == HandlerInv /\ Insert => HandlerInv'
<1> SUFFICES ASSUME HandlerInv, Insert PROVE HandlerInv'
  OBVIOUS
<1>1. Held \in Message
  BY HeldIs DEF HandlerInv, Insert
<1>2. rows' = rows \/ rows' = rows \cup {Held}
  BY DEF Insert
<1>3. rows' \subseteq Message /\ IsFiniteSet(rows')
  <2>1. rows \subseteq Message /\ IsFiniteSet(rows)
    BY DEF HandlerInv, HandlerTypeOK
  <2>2. IsFiniteSet(rows \cup {Held})
    BY <2>1, FS_AddElement
  <2> QED
    BY <1>1, <1>2, <2>1, <2>2
<1>4. /\ hpc' \in HandlerSteps /\ batch' \in Seq(Message)
      /\ Len(batch') = IF hpc' = "recv" THEN 0 ELSE 1
      /\ hpc' # "send"
  <2>1. GoTo("progress") \/ GoTo("recv")
    BY DEF Insert
  <2> QED
    BY <2>1, GoToType DEF HandlerInv, HandlerSteps, Insert, GoTo
<1>5. dbFaults' \in Nat
  BY DEF HandlerInv, HandlerTypeOK, Insert, DbFault
<1>6. hpc # "send"
  BY DEF Insert
<1> QED
  BY <1>3, <1>4, <1>5, <1>6 DEF HandlerInv, HandlerTypeOK, ChannelsTypeOK, Insert, chanVars,
     progressVars, othersVars

LEMMA ReadTotalsInv == HandlerInv /\ ReadTotals => HandlerInv'
<1> SUFFICES ASSUME HandlerInv, ReadTotals PROVE HandlerInv'
  OBVIOUS
<1>1. DOMAIN totals' \subseteq Ops /\ \A o \in DOMAIN totals' : totals'[o] \in [all : Nat, here : Nat]
  <2>1. CASE totals' = totals
    BY <2>1 DEF HandlerInv, HandlerTypeOK
  <2>2. CASE totals' = NoTotals
    BY <2>2 DEF NoTotals
  <2>3. CASE totals' = [o \in Ongoing |-> TotalsOf(o)]
    <3>1. Ongoing \subseteq Ops
      BY DEF HandlerInv, HandlerTypeOK, Ongoing, Listed
    <3>2. \A o \in Ops : evmSold[o] \in Nat
      BY DEF HandlerInv, HandlerTypeOK
    <3>3. \A o \in Ops : TotalsOf(o) \in [all : Nat, here : Nat]
      BY <3>2, HandlerInvRows, NetFundedIs DEF TotalsOf
    <3> HIDE DEF TotalsOf
    <3> QED
      BY <2>3, <3>1, <3>3
  <2> QED
    BY <2>1, <2>2, <2>3 DEF ReadTotals
<1>2. /\ hpc' \in HandlerSteps /\ batch' \in Seq(Message)
      /\ Len(batch') = IF hpc' = "recv" THEN 0 ELSE 1
      /\ hpc' # "send" /\ hpc # "send"
  BY GoToType DEF HandlerInv, HandlerSteps, ReadTotals, GoTo
<1>3. dbFaults' \in Nat
  BY DEF HandlerInv, HandlerTypeOK, ReadTotals, DbFault
<1> QED
  BY <1>1, <1>2, <1>3 DEF HandlerInv, HandlerTypeOK, ChannelsTypeOK, ReadTotals, chanVars, dbVars,
     progressVars, othersVars

LEMMA SaveTotalsInv == HandlerInv /\ SaveTotals => HandlerInv'
<1> SUFFICES ASSUME HandlerInv, SaveTotals PROVE HandlerInv'
  OBVIOUS
<1>1. sold' \in [Ops -> Nat] /\ soldHere' \in [Ops -> Nat]
  <2>1. \A o \in DOMAIN totals : totals[o].all \in Nat /\ totals[o].here \in Nat
    BY DEF HandlerInv, HandlerTypeOK
  <2> QED
    BY <2>1 DEF HandlerInv, HandlerTypeOK, SaveTotals, progressVars
<1>2. /\ hpc' \in HandlerSteps /\ batch' \in Seq(Message)
      /\ Len(batch') = IF hpc' = "recv" THEN 0 ELSE 1
      /\ hpc' # "send" /\ hpc # "send"
  BY GoToType DEF HandlerInv, HandlerSteps, SaveTotals, GoTo
<1>3. dbFaults' \in Nat /\ DOMAIN totals' = {}
  BY DEF HandlerInv, HandlerTypeOK, SaveTotals, MayFail, DbFault, NoTotals
<1> QED
  BY <1>1, <1>2, <1>3 DEF HandlerInv, HandlerTypeOK, ChannelsTypeOK, SaveTotals, chanVars, othersVars

\* The status a row of the activity table leads to is one of the column's.
LEMMA UpdatedType ==
  ASSUME status \in [Ops -> FundingStatus], NEW o \in Ops, NEW history \in SUBSET StatusEvents
  PROVE  Updated(o, history) \in FundingStatus
<1> DEFINE new == {FundingStatusOf[k] : k \in history}
           applies == {s \in new : s = "finished" => sold[o] = Total[o]}
<1>1. \A k \in StatusEvents : FundingStatusOf[k] \in FundingStatus
  BY DEF StatusEvents, Priority, FundingStatusOf, FundingStatus
<1>2. new \subseteq FundingStatus
  BY <1>1
<1> HIDE DEF new
<1>3. applies # {} => (CHOOSE s \in applies : TRUE) \in FundingStatus
  BY <1>2
<1>4. \/ Updated(o, history) = status[o]
      \/ applies # {} /\ Updated(o, history) = CHOOSE s \in applies : TRUE
  BY DEF Updated, new
<1> QED
  BY <1>3, <1>4

LEMMA StatusHistoryType ==
  ASSUME elsewhere \in [Ops -> SUBSET StatusEvents], NEW o \in Ops
  PROVE  StatusHistory(o) \in SUBSET StatusEvents
BY DEF StatusHistory, Highest, OfOp

LEMMA StatusHistoryTypePrime ==
  ASSUME elsewhere' \in [Ops -> SUBSET StatusEvents], NEW o \in Ops
  PROVE  StatusHistory(o)' \in SUBSET StatusEvents
BY DEF StatusHistory, Highest, OfOp

LEMMA StatusUpdateType ==
  ASSUME status \in [Ops -> FundingStatus], elsewhere \in [Ops -> SUBSET StatusEvents],
         NEW o \in Ops
  PROVE  StatusUpdate(o) \in FundingStatus
BY UpdatedType, StatusHistoryType DEF StatusUpdate

LEMMA SyncStatusInv == HandlerInv /\ SyncStatus => HandlerInv'
<1> SUFFICES ASSUME HandlerInv, SyncStatus PROVE HandlerInv'
  OBVIOUS
<1>1. status' \in [Ops -> FundingStatus]
  <2>1. status' = status \/ status' = [o \in Ops |-> StatusUpdate(o)]
    BY DEF SyncStatus
  <2> QED
    BY <2>1, StatusUpdateType DEF HandlerInv, HandlerTypeOK
<1>2. /\ hpc' \in HandlerSteps /\ batch' \in Seq(Message)
      /\ Len(batch') = IF hpc' = "recv" THEN 0 ELSE 1
      /\ hpc' # "send" /\ hpc # "send"
  <2>1. GoTo("effects") \/ GoTo("recv")
    BY DEF SyncStatus
  <2> QED
    BY <2>1, GoToType DEF HandlerInv, HandlerSteps, SyncStatus, GoTo
<1>3. dbFaults' \in Nat
  BY DEF HandlerInv, HandlerTypeOK, SyncStatus, MayFail, DbFault
<1> QED
  BY <1>1, <1>2, <1>3 DEF HandlerInv, HandlerTypeOK, ChannelsTypeOK, SyncStatus, chanVars,
     progressVars, othersVars

LEMMA EffectsInv ==
  HandlerInv /\ (AddFirstChain \/ RecordHolding \/ NoEffects) => HandlerInv'
<1> SUFFICES ASSUME HandlerInv, AddFirstChain \/ RecordHolding \/ NoEffects PROVE HandlerInv'
  OBVIOUS
<1>1. hpc = "effects" /\ (GoTo("reload") \/ GoTo("recv")) /\ UNCHANGED <<rows, chanVars, totals>>
  BY DEF AddFirstChain, RecordHolding, NoEffects, dbVars
<1>2. /\ hpc' \in HandlerSteps /\ batch' \in Seq(Message)
      /\ Len(batch') = IF hpc' = "recv" THEN 0 ELSE 1
      /\ hpc' # "send"
  BY <1>1, GoToType DEF HandlerInv, HandlerSteps, GoTo
<1>3. dbFaults' \in Nat
  BY DEF HandlerInv, HandlerTypeOK, AddFirstChain, RecordHolding, NoEffects, MayFail, DbFault
<1>4. linked' \subseteq Ops /\ primary' \subseteq linked'
  <2>1. Held.event.op \in Ops
    BY <1>1, HeldIs, MessageIs DEF HandlerInv
  <2> QED
    BY <2>1 DEF HandlerInv, HandlerTypeOK, AddFirstChain, RecordHolding, NoEffects, dbVars
<1>5. holdings' \in [Events -> Nat]
  BY DEF HandlerInv, HandlerTypeOK, AddFirstChain, RecordHolding, NoEffects, dbVars
<1>6. UNCHANGED <<status, sold, soldHere, evmSold, elsewhere, published, registered, op_data,
                  command>>
  BY DEF AddFirstChain, RecordHolding, NoEffects, dbVars, progressVars, othersVars
<1> QED
  BY <1>1, <1>2, <1>3, <1>4, <1>5, <1>6 DEF HandlerInv, HandlerTypeOK, ChannelsTypeOK, chanVars

LEMMA ReloadInv == HandlerInv /\ Reload => HandlerInv'
<1> SUFFICES ASSUME HandlerInv, Reload PROVE HandlerInv'
  OBVIOUS
<1>1. PICK l \in Loads(op_data) :
        /\ op_data' = l.op_data /\ command' = <<l.command>>
        /\ IF l.faulty THEN DbFault ELSE UNCHANGED dbFaults
  BY DEF Reload
<1>2. l.op_data \in OpData /\ l.command \in Command
  BY HandlerInvRows, LoadsAre DEF HandlerInv, HandlerTypeOK
<1>3. op_data' \in OpData /\ command' \in Seq(Command) /\ Len(command') = 1
  BY <1>1, <1>2
<1>4. dbFaults' \in Nat
  BY <1>1 DEF HandlerInv, HandlerTypeOK, DbFault
<1>5. hpc' = "send" /\ batch' \in Seq(Message) /\ Len(batch') = 1
  BY GoToType DEF HandlerInv, HandlerSteps, Reload, GoTo
<1> QED
  BY <1>3, <1>4, <1>5 DEF HandlerInv, HandlerTypeOK, ChannelsTypeOK, Reload, chanVars, dbVars,
     progressVars, othersVars, HandlerSteps

LEMMA SendCommandInv == HandlerInv /\ SendCommand => HandlerInv'
<1> SUFFICES ASSUME HandlerInv, SendCommand PROVE HandlerInv'
  OBVIOUS
<1>1. Head(command) \in Command
  <2>1. command \in Seq(Command) /\ Len(command) = 1
    BY DEF HandlerInv, HandlerTypeOK, SendCommand
  <2>2. command # <<>>
    BY <2>1
  <2> QED
    BY <2>1, <2>2
<1>2. cmdQ' \in Seq(Command)
  BY <1>1 DEF HandlerInv, ChannelsTypeOK, SendCommand, Send
<1>3. hpc' = "recv" /\ batch' = <<>>
  BY DEF SendCommand, GoTo
<1> QED
  BY <1>2, <1>3 DEF HandlerInv, HandlerTypeOK, ChannelsTypeOK, SendCommand, dbVars,
     progressVars, othersVars, HandlerSteps

LEMMA HandlerStepInv == HandlerInv /\ HandlerStep => HandlerInv'
BY ReceiveInv, InsertInv, ReadTotalsInv, SaveTotalsInv, SyncStatusInv, EffectsInv, ReloadInv,
   SendCommandInv DEF HandlerStep

LEMMA OthersStepInv == HandlerInv /\ OthersStep => HandlerInv'
<1> SUFFICES ASSUME HandlerInv, OthersStep PROVE HandlerInv'
  OBVIOUS
<1>1. UNCHANGED <<rows, soldHere, linked, primary, holdings, taskVars, dbFaults, chanVars>>
  BY DEF OthersStep, Publish, Register, EvmSale, EvmStatus, progressVars
<1>2. published' \subseteq Ops /\ registered' \subseteq Ops
  BY DEF OthersStep, Publish, Register, EvmSale, EvmStatus, HandlerInv, HandlerTypeOK
<1>3. sold' \in [Ops -> Nat] /\ evmSold' \in [Ops -> Nat]
  <2>1. ASSUME NEW o \in published, EvmSale(o) PROVE sold' \in [Ops -> Nat] /\ evmSold' \in [Ops -> Nat]
    <3>1. o \in Ops /\ evmSold[o] + 1 \in Nat
      BY DEF HandlerInv, HandlerTypeOK
    <3>2. NetFunded(o, evmSold[o] + 1) \in Nat
      BY <3>1, HandlerInvRows, NetFundedIs
    <3> QED
      BY <2>1, <3>1, <3>2 DEF HandlerInv, HandlerTypeOK, EvmSale
  <2>2. ASSUME NEW o, NEW k, Publish(o) \/ Register(o) \/ EvmStatus(o, k)
        PROVE  sold' \in [Ops -> Nat] /\ evmSold' \in [Ops -> Nat]
    BY <2>2 DEF HandlerInv, HandlerTypeOK, Publish, Register, EvmStatus, progressVars
  <2> QED
    BY <2>1, <2>2 DEF OthersStep
<1>4. status' \in [Ops -> FundingStatus] /\ elsewhere' \in [Ops -> SUBSET StatusEvents]
  <2>1. ASSUME NEW o \in Ops, NEW k \in StatusEvents, EvmStatus(o, k)
        PROVE  status' \in [Ops -> FundingStatus] /\ elsewhere' \in [Ops -> SUBSET StatusEvents]
    <3>1. status \in [Ops -> FundingStatus] /\ elsewhere' \in [Ops -> SUBSET StatusEvents]
      BY <2>1 DEF HandlerInv, HandlerTypeOK, EvmStatus
    <3>2. Updated(o, StatusHistory(o)') \in FundingStatus
      BY <3>1, StatusHistoryTypePrime, UpdatedType
    <3> QED
      BY <2>1, <3>1, <3>2 DEF EvmStatus
  <2>2. ASSUME NEW o, Publish(o) \/ Register(o) \/ EvmSale(o)
        PROVE  status' \in [Ops -> FundingStatus] /\ elsewhere' \in [Ops -> SUBSET StatusEvents]
    BY <2>2 DEF HandlerInv, HandlerTypeOK, Publish, Register, EvmSale
  <2> QED
    BY <2>1, <2>2 DEF OthersStep
<1> QED
  BY <1>1, <1>2, <1>3, <1>4 DEF HandlerInv, HandlerTypeOK, ChannelsTypeOK, chanVars, taskVars

=============================================================================
