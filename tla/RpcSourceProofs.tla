--------------------------- MODULE RpcSourceProofs ---------------------------
(***************************************************************************)
(* Theorems about one call of the RPC source, live or replaying, for every  *)
(* history, contract set, batch and page size, retry budget and span, and   *)
(* whichever nodes answer its requests: a batch is one answer, the result   *)
(* is in chain order, and the call keeps the promise of the trait.          *)
(***************************************************************************)
EXTENDS RpcSource, FiniteSetTheorems, SequenceTheorems, WellFoundedInduction, TLAPS

-----------------------------------------------------------------------------
\* The order of events is a total one.
LEMMA EventTypes ==
  ASSUME NEW e \in Events
  PROVE  e.ledger \in Nat /\ e.pos \in Nat /\ e.contract \in Contracts
BY NetworkAssumption DEF Event

LEMMA BeforeIsOrder ==
  ASSUME NEW e \in Events, NEW f \in Events, NEW g \in Events
  PROVE  /\ ~Before(e, e)
         /\ Before(e, f) => ~Before(f, e)
         /\ Before(e, f) /\ Before(f, g) => Before(e, g)
         /\ Before(e, f) /\ ~Before(g, f) => Before(e, g)
         /\ ~Before(f, e) /\ Before(f, g) => Before(e, g)
         /\ ~Before(e, f) => f.ledger <= e.ledger
         /\ PlacesDistinct /\ ~Before(e, f) /\ ~Before(f, e) => e = f
<1>1. /\ e.ledger \in Nat /\ e.pos \in Nat /\ f.ledger \in Nat /\ f.pos \in Nat
      /\ g.ledger \in Nat /\ g.pos \in Nat
  BY EventTypes
<1>2. PlacesDistinct /\ ~Before(e, f) /\ ~Before(f, e) => e = f
  BY <1>1 DEF Before, PlacesDistinct
<1> QED
  BY <1>1, <1>2 DEF Before

\* The last ledger of a set of events that the chain has reached.
LEMMA LastLedger ==
  ASSUME NEW S \in SUBSET Events, S # {}, NEW h \in Nat, \A e \in S : e.ledger <= h
  PROVE  LET m == Max({e.ledger : e \in S}) IN
         m \in Nat /\ m <= h /\ (\E e \in S : e.ledger = m) /\ \A e \in S : e.ledger <= m
<1> DEFINE N == {h - e.ledger : e \in S}
           R == OpToRel(<, Nat)
<1>1. \A e \in S : e.ledger \in Nat /\ e.ledger <= h
  BY EventTypes
<1>2. N \subseteq Nat /\ N # {}
  BY <1>1
<1>3. IsWellFoundedOn(R, Nat)
  BY NatLessThanWellFounded
<1>4. \E n \in N : \A m \in N : ~(<<m, n>> \in R)
  <2> HIDE DEF N, R
  <2> QED
    BY <1>2, <1>3, WFMin
<1>5. PICK e \in S : \A f \in S : ~(<<h - f.ledger, h - e.ledger>> \in R)
  <2> HIDE DEF R
  <2> QED
    BY <1>4
<1>6. \A f \in S : f.ledger <= e.ledger
  <2> SUFFICES ASSUME NEW f \in S PROVE f.ledger <= e.ledger
    OBVIOUS
  <2>1. h - f.ledger \in Nat /\ h - e.ledger \in Nat
    BY <1>1
  <2>2. ~(h - f.ledger < h - e.ledger)
    BY <1>5, <2>1 DEF OpToRel
  <2> QED
    BY <1>1, <2>2
<1>7. \E m \in {f.ledger : f \in S} : \A y \in {f.ledger : f \in S} : m >= y
  BY <1>1, <1>6
<1>8. DEFINE m == Max({f.ledger : f \in S})
<1>9. m \in {f.ledger : f \in S} /\ \A y \in {f.ledger : f \in S} : m >= y
  BY <1>7 DEF Max
<1> QED
  BY <1>1, <1>9

LEMMA Extremes ==
  ASSUME NEW a \in Int, NEW b \in Int
  PROVE  /\ Max({a, b}) \in {a, b} /\ Max({a, b}) >= a /\ Max({a, b}) >= b
         /\ Min({a, b}) \in {a, b} /\ Min({a, b}) <= a /\ Min({a, b}) <= b
<1>1. \E m \in {a, b} : \A y \in {a, b} : m >= y
  OBVIOUS
<1>2. \E m \in {a, b} : \A y \in {a, b} : m <= y
  OBVIOUS
<1> QED
  BY <1>1, <1>2 DEF Max, Min

\* The ledger a batch resumes from is one ...
LEMMA ResumeType ==
  ASSUME NEW S \in SUBSET Events, NEW h \in Nat, NEW t \in Nat, start \in Nat,
         \A e \in S : e.ledger <= t
  PROVE  ResumeAfter(S, h) \in Nat
<1>1. CASE S = {}
  <2>1. h + 1 \in Int /\ start \in Int
    OBVIOUS
  <2>2. Max({h + 1, start}) \in {h + 1, start}
    BY <2>1, Extremes
  <2> QED
    BY <1>1, <2>2 DEF ResumeAfter
<1>2. CASE S # {}
  <2> DEFINE m == Max({e.ledger : e \in S})
  <2>1. m \in Nat
    BY <1>2, LastLedger
  <2>2. ResumeAfter(S, h) = m + 1
    BY <1>2 DEF ResumeAfter
  <2> QED
    BY <2>1, <2>2
<1> QED
  BY <1>1, <1>2

\* ... past its events, not past the node's tip.
LEMMA ResumeIs ==
  ASSUME NEW S \in SUBSET Events, NEW h \in Nat, start \in Nat,
         \A e \in S : start <= e.ledger /\ e.ledger <= h
  PROVE  /\ ResumeAfter(S, h) \in Nat /\ start <= ResumeAfter(S, h)
         /\ ResumeAfter(S, h) <= h + 1 \/ ResumeAfter(S, h) = start
<1>1. CASE S = {}
  <2>1. h + 1 \in Int /\ start \in Int
    OBVIOUS
  <2> QED
    BY <1>1, <2>1, Extremes DEF ResumeAfter
<1>2. CASE S # {}
  <2> DEFINE m == Max({e.ledger : e \in S})
  <2>1. m \in Nat /\ m <= h /\ \E e \in S : e.ledger = m
    BY <1>2, LastLedger
  <2>2. ResumeAfter(S, h) = m + 1
    BY <1>2 DEF ResumeAfter
  <2> QED
    BY <2>1, <2>2
<1> QED
  BY <1>1, <1>2
-----------------------------------------------------------------------------
\* A listing of a set has each of its elements, once.
LEMMA ListingIs ==
  ASSUME NEW S, IsFiniteSet(S), NEW s \in SetToSeqs(S)
  PROVE  /\ s \in Seq(S) /\ Len(s) = Cardinality(S) /\ DOMAIN s = 1 .. Len(s)
         /\ IsInjective(s) /\ ToSet(s) = S
<1> DEFINE D == 1 .. Cardinality(S)
<1>1. Cardinality(S) \in Nat
  BY FS_CardinalityType
<1>2. s \in [D -> S] /\ \A i, j \in D : i # j => s[i] # s[j]
  BY DEF SetToSeqs
<1>3. IsInjective(s) /\ s \in Injection(D, S)
  BY <1>2 DEF IsInjective, Injection
<1>4. IsFiniteSet(D) /\ Cardinality(D) = Cardinality(S)
  BY <1>1, FS_Interval
<1>5. s \in Surjection(D, S)
  BY <1>3, <1>4, FS_Injection
<1>6. ToSet(s) = S
  BY <1>2, <1>5 DEF ToSet, Surjection
<1>7. s \in Seq(S) /\ Len(s) = Cardinality(S)
  BY <1>1, <1>2
<1> QED
  BY <1>2, <1>3, <1>6, <1>7

\* The first n events of a sequence in chain order are the earliest.
LEMMA PrefixIs ==
  ASSUME NEW s \in Seq(Events), NEW n \in 0 .. Len(s)
  PROVE  LET t == SubSeq(s, 1, n) IN
         /\ t \in Seq(Events) /\ Len(t) = n
         /\ IsInjective(s) => IsInjective(t)
         /\ InOrder(s) => InOrder(t)
         /\ \A i \in 1 .. n : t[i] = s[i]
         /\ ToSet(t) = {s[i] : i \in 1 .. n}
<1> DEFINE t == SubSeq(s, 1, n)
<1>1. \A i \in 1 .. n : i \in DOMAIN s /\ s[i] \in Events
  OBVIOUS
<1>2. t \in Seq(Events) /\ Len(t) = n /\ \A i \in 1 .. n : t[i] = s[i]
  BY <1>1, SubSeqProperties
<1>3. DOMAIN t = 1 .. n
  BY <1>2
<1> HIDE DEF t
<1>4. IsInjective(s) => IsInjective(t)
  BY <1>1, <1>2, <1>3 DEF IsInjective
<1>5. InOrder(s) => InOrder(t)
  BY <1>1, <1>2, <1>3 DEF InOrder
<1>6. ToSet(t) = {s[i] : i \in 1 .. n}
  BY <1>2, <1>3 DEF ToSet
<1> QED
  BY <1>2, <1>4, <1>5, <1>6 DEF t

\* Events in chain order, each once: one comes strictly before the next.
LEMMA StrictlyBefore ==
  ASSUME PlacesDistinct, NEW s \in Seq(Events), IsInjective(s), InOrder(s),
         NEW i \in DOMAIN s, NEW j \in DOMAIN s, i < j
  PROVE  Before(s[i], s[j])
<1>1. s[i] \in Events /\ s[j] \in Events /\ ~Before(s[j], s[i])
  BY DEF InOrder
<1>2. s[i] # s[j]
  BY DEF IsInjective
<1> QED
  BY <1>1, <1>2, BeforeIsOrder

\* What fetch returns of the events it has merged.
LEMMA OrderedIs ==
  ASSUME NEW s \in Seq(Events), NEW t \in Ordered(s)
  PROVE  /\ t \in Seq(Events) /\ InOrder(t) /\ ToSet(t) = ToSet(s)
         /\ IsInjective(s) => IsInjective(t)
<1> DEFINE D == DOMAIN s
<1>1. D = 1 .. Len(s) /\ Len(s) \in Nat /\ IsFiniteSet(D)
  BY FS_Interval
<1>2. PICK p \in SetToSeqs(D) : t = [i \in D |-> s[p[i]]]
  BY DEF Ordered
<1>3. InOrder(t)
  BY DEF Ordered
<1>4. /\ p \in Seq(D) /\ Len(p) = Cardinality(D) /\ DOMAIN p = 1 .. Len(p)
      /\ IsInjective(p) /\ ToSet(p) = D
  <2> HIDE DEF D
  <2> QED
    BY <1>1, <1>2, ListingIs
<1>5. DOMAIN p = D
  <2>1. Cardinality(1 .. Len(s)) = Len(s)
    BY SMTT(30), <1>1, FS_Interval
  <2> QED
    BY <1>1, <1>4, <2>1
<1>6. \A i \in D : p[i] \in D
  BY <1>4, <1>5
<1>7. t \in [1 .. Len(s) -> Events]
  BY <1>1, <1>2, <1>6
<1>8. t \in Seq(Events)
  BY <1>1, <1>7
<1> HIDE DEF D
<1>9. IsInjective(s) => IsInjective(t)
  <2> SUFFICES ASSUME IsInjective(s), NEW i \in D, NEW j \in D, t[i] = t[j] PROVE i = j
    BY <1>2 DEF IsInjective
  <2>1. s[p[i]] = s[p[j]] /\ p[i] \in D /\ p[j] \in D
    BY <1>2, <1>6
  <2>2. p[i] = p[j]
    BY <2>1 DEF IsInjective, D
  <2> QED
    BY <1>4, <1>5, <2>2 DEF IsInjective
<1>10. ToSet(t) = ToSet(s)
  <2>1. \A k \in D : \E i \in D : p[i] = k
    BY <1>4, <1>5 DEF ToSet
  <2>2. ToSet(t) = {s[p[i]] : i \in D}
    BY <1>2 DEF ToSet
  <2>3. ToSet(s) = {s[k] : k \in D}
    BY DEF ToSet, D
  <2> QED
    BY <1>6, <2>1, <2>2, <2>3
<1> QED
  BY <1>3, <1>8, <1>9, <1>10

\* ... and what a replay retains of them.
LEMMA RetainedIs ==
  ASSUME NEW s \in Seq(Events), NEW t \in Retained(s)
  PROVE  /\ t \in Seq(Events)
         /\ IsInjective(s) => IsInjective(t)
         /\ InOrder(s) => InOrder(t)
         /\ ToSet(t) = {e \in ToSet(s) : e.ledger <= Ceiling}
<1>1. PICK n \in 0 .. Len(s) : /\ t = SubSeq(s, 1, n)
                               /\ \A i \in DOMAIN s : i <= n <=> s[i].ledger <= Ceiling
  BY DEF Retained
<1>2. /\ t \in Seq(Events) /\ ToSet(t) = {s[i] : i \in 1 .. n}
      /\ IsInjective(s) => IsInjective(t)
      /\ InOrder(s) => InOrder(t)
  BY <1>1, PrefixIs
<1>3. \A i : i \in 1 .. n <=> i \in DOMAIN s /\ s[i].ledger <= Ceiling
  BY <1>1
<1>4. ToSet(s) = {s[i] : i \in DOMAIN s}
  BY DEF ToSet
<1> QED
  BY <1>2, <1>3, <1>4

\* What a node has left of the batch.
LEMMA RestIs ==
  ASSUME NEW h
  PROVE  Rest(h) \subseteq Events /\ IsFiniteSet(Rest(h))
BY NetworkAssumption, FS_Subset DEF Rest, Visible

\* A page: the earliest of the rest; all of it, unless the page is full.
LEMMA PageIs ==
  ASSUME NEW h, NEW page \in PagesAt(h), NEW cursorless \in Cursorless(h, page)
  PROVE  /\ page \in Seq(Events) /\ IsInjective(page) /\ ToSet(page) \subseteq Rest(h)
         /\ Exhausted(page, cursorless) => ToSet(page) = Rest(h)
         /\ ~Exhausted(page, cursorless) =>
              /\ Last(page) \in Rest(h)
              /\ PlacesDistinct =>
                   ToSet(page) = {f \in Rest(h) : ~Before(Last(page), f)}
<1> DEFINE S == Rest(h)
<1>1. PICK s \in SetToSeqs(S) : InOrder(s) /\ page = SubSeq(s, 1, Min({PageLimit, Len(s)}))
  BY DEF PagesAt
<1> DEFINE n == Min({PageLimit, Len(s)})
<1>2. S \subseteq Events /\ IsFiniteSet(S)
  BY RestIs
<1> HIDE DEF S
<1>3. /\ s \in Seq(S) /\ DOMAIN s = 1 .. Len(s) /\ Len(s) \in Nat
      /\ IsInjective(s) /\ ToSet(s) = S
  BY <1>2, ListingIs
<1>4. PageLimit \in Nat \ {0}
  BY RpcSourceAssumption
<1>5. /\ Len(s) \in Nat /\ n \in Nat /\ n <= Len(s) /\ n \in 0 .. Len(s)
      /\ n <= PageLimit /\ (n = PageLimit \/ n = Len(s))
  <2>1. PageLimit \in Int /\ Len(s) \in Int
    BY <1>3, <1>4
  <2>2. n \in {PageLimit, Len(s)} /\ n <= PageLimit /\ n <= Len(s)
    BY <2>1, Extremes
  <2> QED
    BY <1>3, <1>4, <2>2
<1>6. s \in Seq(Events)
  BY <1>2, <1>3
<1> HIDE DEF n
<1>7. /\ page \in Seq(Events) /\ Len(page) = n /\ IsInjective(page)
      /\ \A i \in 1 .. n : page[i] = s[i]
      /\ ToSet(page) = {s[i] : i \in 1 .. n}
  <2>1. page = SubSeq(s, 1, n)
    BY <1>1 DEF n
  <2> QED
    BY <1>1, <1>3, <1>5, <1>6, <2>1, PrefixIs
<1>8. \A i \in 1 .. n : i \in DOMAIN s /\ s[i] \in S
  <2> SUFFICES ASSUME NEW i \in 1 .. n PROVE i \in DOMAIN s /\ s[i] \in S
    OBVIOUS
  <2>1. i \in 1 .. Len(s)
    BY ONLY <1>5, i \in 1 .. n
  <2> QED
    BY <1>3, <2>1
<1>9. ToSet(page) \subseteq S
  BY <1>7, <1>8
<1>10. ASSUME Exhausted(page, cursorless) PROVE ToSet(page) = S
  <2>1. CASE cursorless = TRUE
    BY <2>1 DEF Cursorless, S
  <2>2. CASE Len(page) < PageLimit
    <3>1. n = Len(s)
      BY <1>4, <1>5, <1>7, <2>2
    <3> QED
      BY <1>3, <1>7, <3>1 DEF ToSet
  <2> QED
    BY <1>10, <2>1, <2>2 DEF Exhausted
<1>11. ASSUME ~Exhausted(page, cursorless)
       PROVE  /\ Last(page) \in S
              /\ PlacesDistinct => ToSet(page) = {f \in S : ~Before(Last(page), f)}
  <2>1. n = PageLimit /\ n \in 1 .. n
    BY <1>4, <1>5, <1>7, <1>11 DEF Exhausted
  <2>2. Last(page) = s[n] /\ s[n] \in S /\ n \in DOMAIN s
    BY <1>7, <1>8, <2>1 DEF Last
  <2>3. ASSUME NEW i \in 1 .. n PROVE ~Before(s[n], s[i])
    <3>1. CASE i = n
      BY <1>2, <2>2, <3>1, BeforeIsOrder
    <3>2. CASE i < n
      BY <1>1, <1>8, <2>2, <3>2 DEF InOrder
    <3> QED
      BY <3>1, <3>2, <1>5
  <2>4. ASSUME PlacesDistinct, NEW f \in S, ~Before(s[n], f) PROVE f \in ToSet(page)
    <3>1. PICK j \in DOMAIN s : f = s[j]
      BY <1>3 DEF ToSet
    <3>2. CASE j \in 1 .. n
      BY <1>7, <3>1, <3>2
    <3>3. CASE n < j
      BY <1>1, <1>3, <1>6, <2>2, <2>4, <3>1, <3>3, StrictlyBefore
    <3> QED
      <4>0. j \in 1 .. Len(s)
        BY ONLY <1>3, j \in DOMAIN s
      <4>1. j \in Nat /\ n \in Nat /\ 1 <= j
        BY <4>0, <1>5
      <4>2. j <= n \/ n < j
        BY <4>1
      <4> QED
        BY <3>2, <3>3, <4>1, <4>2
  <2> QED
    BY <1>7, <1>9, <2>2, <2>3, <2>4
<1> QED
  BY <1>7, <1>9, <1>10, <1>11 DEF S

-----------------------------------------------------------------------------
\* The inductive invariant.  What has been fetched is visible, can be decoded
\* and is there once; of the batch in hand it is all up to the position; of the
\* batches before it, all before the ledger to resume from.
Merged(B) == {e \in ToSet(merged) : e.contract \in B}

Done == ids \ (todo \cup batch)

UpTo(B, e) == {f \in Visible(start, e.ledger, B) : ~Before(e, f)}

MergedInv ==
  /\ IsInjective(merged)
  /\ ToSet(merged) \subseteq Visible(start, tip, ids \ todo) \ Garbled

BatchInv ==
  /\ batch = {} => position = <<>>
  /\ position = <<>> => Merged(batch) = {}
  /\ position # <<>> =>
       /\ position[1] \in Visible(start, tip, batch)
       /\ Merged(batch) = UpTo(batch, position[1])

NextInv ==
  /\ next # <<>> =>
       /\ start <= next[1]
       /\ next[1] <= tip + 1 \/ next[1] = start
       /\ Visible(start, next[1] - 1, Done) \subseteq ToSet(merged)

\* Types, and what they rest on: a batch that is done has said where to resume.
TypeInv ==
  /\ TypeOK
  /\ ids # {} /\ (next = <<>> <=> Done = {})
  /\ \A e \in ToSet(merged) : e.ledger <= tip

FetchInv ==
  /\ TypeInv
  /\ start \in Starts
  /\ MergedInv /\ BatchInv /\ NextInv
  /\ InChainOrder

-----------------------------------------------------------------------------

LEMMA OnlyOne ==
  ASSUME NEW S, NEW s \in Seq(S), Len(s) <= 1, s # <<>>
  PROVE  s[1] \in S /\ s = <<s[1]>>
<1>1. Len(s) = 1
  <2>1. Len(s) # 0 /\ Len(s) \in Nat
    BY EmptySeq
  <2> QED
    BY SMTT(30), <2>1
<1>2. 1 \in DOMAIN s /\ s[1] \in S
  BY <1>1
<1> QED
  BY <1>1, <1>2

LEMMA SequenceTypes ==
  ASSUME TypeOK
  PROVE  /\ \A i \in DOMAIN merged : merged[i] \in Events
         /\ ToSet(merged) \subseteq Events
         /\ next # <<>> => next[1] \in Nat /\ next = <<next[1]>>
         /\ position # <<>> => position[1] \in Events /\ position = <<position[1]>>
<1>1. \A i \in DOMAIN merged : merged[i] \in Events
  BY DEF TypeOK
<1>2. next # <<>> => next[1] \in Nat /\ next = <<next[1]>>
  BY OnlyOne DEF TypeOK
<1>3. position # <<>> => position[1] \in Events /\ position = <<position[1]>>
  BY OnlyOne DEF TypeOK
<1> QED
  BY <1>1, <1>2, <1>3 DEF ToSet

\* Concatenation.
LEMMA Joined ==
  ASSUME NEW s \in Seq(Events), NEW t \in Seq(Events)
  PROVE  /\ s \o t \in Seq(Events) /\ ToSet(s \o t) = ToSet(s) \cup ToSet(t)
         /\ IsInjective(s) /\ IsInjective(t) /\ ToSet(s) \cap ToSet(t) = {} =>
              IsInjective(s \o t)
<1> DEFINE u == s \o t
<1>1. /\ u \in Seq(Events) /\ Len(u) = Len(s) + Len(t)
      /\ \A i \in 1 .. Len(u) :
           u[i] = IF i <= Len(s) THEN s[i] ELSE t[i - Len(s)]
  OBVIOUS
<1>2. /\ Len(s) \in Nat /\ Len(t) \in Nat /\ DOMAIN u = 1 .. (Len(s) + Len(t))
      /\ DOMAIN s = 1 .. Len(s) /\ DOMAIN t = 1 .. Len(t)
  BY <1>1
<1> HIDE DEF u
<1>3. \A i \in DOMAIN s : i \in DOMAIN u /\ u[i] = s[i]
  BY <1>1, <1>2
<1>4. \A i \in DOMAIN t : i + Len(s) \in DOMAIN u /\ u[i + Len(s)] = t[i]
  BY <1>1, <1>2
<1>5. \A i \in DOMAIN u : \/ i \in DOMAIN s /\ u[i] = s[i]
                          \/ i - Len(s) \in DOMAIN t /\ u[i] = t[i - Len(s)]
  BY <1>1, <1>2
<1>6. ToSet(u) = ToSet(s) \cup ToSet(t)
  BY <1>3, <1>4, <1>5 DEF ToSet
<1>7. ASSUME IsInjective(s), IsInjective(t), ToSet(s) \cap ToSet(t) = {}
      PROVE  IsInjective(u)
  <2> SUFFICES ASSUME NEW i \in DOMAIN u, NEW j \in DOMAIN u, u[i] = u[j]
               PROVE  i = j
    BY DEF IsInjective
  <2>1. i \in Int /\ j \in Int /\ Len(s) \in Int
    BY <1>2
  <2>2. CASE /\ i \in DOMAIN s /\ u[i] = s[i] /\ j \in DOMAIN s /\ u[j] = s[j]
    BY <1>7, <2>2 DEF IsInjective
  <2>3. CASE /\ i - Len(s) \in DOMAIN t /\ u[i] = t[i - Len(s)]
             /\ j - Len(s) \in DOMAIN t /\ u[j] = t[j - Len(s)]
    <3>1. i - Len(s) = j - Len(s)
      BY <1>7, <2>3 DEF IsInjective
    <3> QED
      BY <2>1, <3>1
  <2>4. CASE /\ i \in DOMAIN s /\ u[i] = s[i]
             /\ j - Len(s) \in DOMAIN t /\ u[j] = t[j - Len(s)]
    BY <1>7, <2>4 DEF ToSet
  <2>5. CASE /\ j \in DOMAIN s /\ u[j] = s[j]
             /\ i - Len(s) \in DOMAIN t /\ u[i] = t[i - Len(s)]
    BY <1>7, <2>5 DEF ToSet
  <2> QED
    BY <1>5, <2>2, <2>3, <2>4, <2>5
<1> QED
  BY <1>1, <1>6, <1>7 DEF u

LEMMA EndTypes ==
  ASSUME TypeOK, NEW n \in Nat, EndBatch(n)
  PROVE  /\ next' \in Seq(Nat) /\ Len(next') = 1 /\ next' # <<>>
         /\ next = <<>> => next'[1] = n
         /\ next # <<>> => /\ next'[1] \in {next[1], n}
                           /\ next'[1] <= next[1] /\ next'[1] <= n
         /\ batch' = {} /\ position' = <<>> /\ retries' = 0
<1>1. CASE next = <<>>
  BY <1>1 DEF EndBatch
<1>2. CASE next # <<>>
  <2>1. next[1] \in Nat /\ next[1] \in Int /\ n \in Int
    BY <1>2, SequenceTypes
  <2>2. /\ Min({next[1], n}) \in {next[1], n}
        /\ Min({next[1], n}) <= next[1] /\ Min({next[1], n}) <= n
    BY <2>1, Extremes
  <2>3. next' = <<Min({next[1], n})>>
    BY <1>2 DEF EndBatch
  <2> QED
    BY <1>2, <2>1, <2>2, <2>3 DEF EndBatch
<1> QED
  BY <1>1, <1>2

-----------------------------------------------------------------------------
LEMMA InitTypes == Init => TypeInv
<1> SUFFICES ASSUME Init PROVE TypeInv
  OBVIOUS
<1>1. NetworkTypeOK
  BY NetworkAssumption DEF Init, NetworkInit, NetworkTypeOK
<1>2. start \in Nat /\ RetryBudget \in Nat
  BY RpcSourceAssumption DEF Init
<1>3. /\ merged = <<>> /\ next = <<>> /\ position = <<>> /\ retries = 0 /\ height = 0
      /\ answer = Source!Pending /\ todo = ids /\ batch = {} /\ ids \subseteq Contracts
      /\ endpoint \in Endpoints
  BY DEF Init
<1>4. ToSet(merged) = {}
  BY <1>3 DEF ToSet
<1>5. ids # {} /\ Done = {}
  BY <1>3 DEF Init, Done
<1> QED
  BY <1>1, <1>2, <1>3, <1>4, <1>5 DEF TypeInv, TypeOK, Source!Pending

\* The chain grows, the nodes prune.
LEMMA NetworkTypes ==
  ASSUME NetworkTypeOK, CloseLedger \/ Prune(endpoint), endpoint \in Endpoints
  PROVE  NetworkTypeOK' /\ tip <= tip'
BY DEF NetworkTypeOK, CloseLedger, Prune, Endpoints

\* The last ledger of a node is one of the chain's.
LEMMA NodeTips ==
  ASSUME NetworkTypeOK, endpoint \in Endpoints, NEW h \in Nodes
  PROVE  h \in Nat /\ h <= tip
BY DEF NetworkTypeOK, Nodes

\* A page adds events the chain has reached.
LEMMA PageTypes ==
  ASSUME TypeInv, NEW h \in Nodes, NEW page \in PagesAt(h),
         NEW cursorless \in Cursorless(h, page), Page(h, page, cursorless)
  PROVE  TypeInv'
<1>1. /\ h \in Nat /\ h <= tip /\ tip \in Nat /\ start \in Nat
      /\ merged \in Seq(Events) /\ ToSet(merged) \subseteq Events
      /\ UNCHANGED <<netVars, callVars, todo, answer>> /\ height' = h
      /\ merged' = merged \o page
  BY NodeTips, SequenceTypes DEF TypeInv, TypeOK, NetworkTypeOK, Page
<1>2. /\ page \in Seq(Events) /\ ToSet(page) \subseteq Rest(h)
      /\ ~Exhausted(page, cursorless) => Last(page) \in Rest(h)
  BY PageIs
<1>3. \A e \in Rest(h) : e \in Events /\ e.ledger <= tip
  <2> SUFFICES ASSUME NEW e \in Rest(h) PROVE e \in Events /\ e.ledger <= tip
    OBVIOUS
  <2>1. e \in Events /\ e.ledger <= h /\ e.ledger \in Nat
    BY EventTypes DEF Rest, Visible
  <2> QED
    BY <1>1, <2>1
<1>4. /\ merged' \in Seq(Events) /\ ToSet(merged') = ToSet(merged) \cup ToSet(page)
      /\ \A e \in ToSet(merged') : e \in Events /\ e.ledger <= tip
  BY <1>1, <1>2, <1>3, Joined DEF TypeInv
<1>5. /\ next' \in Seq(Nat) /\ Len(next') <= 1 /\ retries' \in 0 .. RetryBudget
      /\ position' \in Seq(Events) /\ Len(position') <= 1
      /\ batch' \subseteq ids \ todo
      /\ next' = <<>> <=> Done' = {}
  <2>1. RetryBudget \in Nat
    BY RpcSourceAssumption
  <2>2. CASE Exhausted(page, cursorless)
    <3> DEFINE received == {e \in ToSet(merged) \cup ToSet(page) : e.contract \in batch}
               n == ResumeAfter(received, h)
    <3>1. received \in SUBSET Events /\ \A e \in received : e.ledger <= tip
      BY <1>4
    <3>2. EndBatch(n)
      BY <2>2 DEF Page
    <3> HIDE DEF received
    <3>3. n \in Nat
      BY <1>1, <3>1, ResumeType
    <3> HIDE DEF n
    <3> QED
      <4>1. /\ next' \in Seq(Nat) /\ Len(next') = 1 /\ next' # <<>>
            /\ batch' = {} /\ position' = <<>> /\ retries' = 0
        BY <3>2, <3>3, EndTypes DEF TypeInv
      <4>2. Done' # {}
        BY <1>1, <4>1 DEF Done, Page, Fetching, TypeInv, TypeOK, callVars
      <4> QED
        BY <2>1, <4>1, <4>2
  <2>3. CASE ~Exhausted(page, cursorless)
    <3>1. position' = <<Last(page)>> /\ retries' = 0 /\ UNCHANGED <<batch, next>>
      BY <2>3 DEF Page
    <3>2. Last(page) \in Events
      BY <1>2, <1>3, <2>3
    <3> QED
      BY <1>1, <2>1, <3>1, <3>2 DEF TypeInv, TypeOK, Done, callVars
  <2> QED
    BY <2>2, <2>3
<1> QED
  BY <1>1, <1>4, <1>5 DEF TypeInv, TypeOK, NetworkTypeOK, netVars, callVars


\* What is returned has been fetched.
LEMMA ReturnTypes ==
  ASSUME TypeInv, Return
  PROVE  TypeInv'
<1>1. /\ UNCHANGED <<netVars, callVars, todo, batch, position, retries, merged, next, height>>
      /\ batch = {} /\ todo = {}
  BY DEF Return
<1>2. PICK sorted \in Ordered(merged) :
        \/ answer' = Source!Ok(sorted, next[1])
        \/ \E kept \in Retained(sorted) :
             answer' = Source!Ok(kept, Min({next[1], PastCeiling}))
  BY DEF Return
<1>3. sorted \in Seq(Events)
  BY OrderedIs DEF TypeInv, TypeOK
<1>4. next[1] \in Int
  <2>1. next # <<>>
    BY <1>1 DEF TypeInv, Done
  <2> QED
    BY <2>1, SequenceTypes DEF TypeInv
<1>5. PastCeiling \in Int
  <2>1. MaxInt \in Int /\ MaxSpan \in Int /\ start \in Int
    BY RpcSourceAssumption DEF TypeInv, TypeOK
  <2>2. Ceiling \in Int
    <3>1. start + MaxSpan \in Int
      BY <2>1
    <3> QED
      BY <2>1, <3>1, Extremes DEF Ceiling
  <2> QED
    BY <2>1, <2>2 DEF PastCeiling, Wrap
<1>6. /\ answer'.kind = "ok" /\ answer'.events \in Seq(Events) /\ answer'.next \in Int
  <2>1. CASE answer' = Source!Ok(sorted, next[1])
    BY <1>3, <1>4, <2>1 DEF Source!Ok
  <2>2. CASE \E kept \in Retained(sorted) :
               answer' = Source!Ok(kept, Min({next[1], PastCeiling}))
    <3>1. PICK kept \in Retained(sorted) :
                 answer' = Source!Ok(kept, Min({next[1], PastCeiling}))
      BY <2>2
    <3>2. kept \in Seq(Events)
      BY <1>3, RetainedIs
    <3>3. Min({next[1], PastCeiling}) \in Int
      BY <1>4, <1>5, Extremes
    <3> QED
      BY <3>1, <3>2, <3>3 DEF Source!Ok
  <2> QED
    BY <1>2, <2>1, <2>2
<1> QED
  BY <1>1, <1>6 DEF TypeInv, TypeOK, NetworkTypeOK, netVars, callVars, Done

LEMMA NextTypes == TypeInv /\ [Next]_vars => TypeInv'
<1> SUFFICES ASSUME TypeInv, [Next]_vars PROVE TypeInv'
  OBVIOUS
<1>0. endpoint \in Endpoints /\ NetworkTypeOK /\ retries \in Nat /\ RetryBudget \in Nat
  BY RpcSourceAssumption DEF TypeInv, TypeOK
<1>1. ASSUME NEW B \in (SUBSET todo) \ {{}}, TakeBatch(B) PROVE TypeInv'
  <2>1. batch' = B /\ todo' = todo \ B /\ batch = {}
        /\ UNCHANGED <<netVars, callVars, position, retries, merged, next, answer, height>>
    BY <1>1 DEF TakeBatch
  <2>2. Done' = Done
    BY <2>1 DEF Done, TypeInv, TypeOK, callVars
  <2> QED
    BY <2>1, <2>2 DEF TypeInv, TypeOK, NetworkTypeOK, netVars, callVars
<1>2. ASSUME NEW h \in Nodes, NEW page \in PagesAt(h),
             NEW cursorless \in Cursorless(h, page), Page(h, page, cursorless)
      PROVE  TypeInv'
  BY <1>2, PageTypes
<1>3. ASSUME NEW h \in Nodes, AboveTip(h) PROVE TypeInv'
  <2>1. EndBatch(start) /\ height' = h /\ UNCHANGED <<netVars, callVars, todo, merged, answer>>
    BY <1>3 DEF AboveTip
  <2>2. /\ next' \in Seq(Nat) /\ Len(next') = 1 /\ next' # <<>>
        /\ batch' = {} /\ position' = <<>> /\ retries' = 0
    BY <2>1, EndTypes DEF TypeInv, TypeOK
  <2>3. Done' # {}
    BY <1>3, <2>1, <2>2 DEF Done, AboveTip, Fetching, TypeInv, TypeOK, callVars
  <2>4. h \in Nat
    BY <1>0, NodeTips
  <2> QED
    BY <1>0, <2>1, <2>2, <2>3, <2>4 DEF TypeInv, TypeOK, NetworkTypeOK, netVars, callVars
<1>4. CASE Retry
  <2>1. /\ retries < RetryBudget /\ retries' = retries + 1
        /\ UNCHANGED <<netVars, callVars, todo, batch, position, merged, next, answer, height>>
    BY <1>4 DEF Retry, RetryLeft
  <2>2. retries' \in 0 .. RetryBudget
    BY <1>0, <2>1
  <2> QED
    BY <2>1, <2>2 DEF TypeInv, TypeOK, NetworkTypeOK, netVars, callVars, Done
<1>5. CASE Fails
  BY <1>5 DEF Fails, TypeInv, TypeOK, NetworkTypeOK, netVars, callVars, Done, Source!Failed
<1>6. CASE Return
  BY <1>6, ReturnTypes
<1>7. CASE (CloseLedger \/ Prune(endpoint)) /\ UNCHANGED <<callVars, fetchVars>>
  <2>1. NetworkTypeOK' /\ tip <= tip' /\ tip \in Nat /\ tip' \in Nat
    BY <1>0, <1>7, NetworkTypes DEF NetworkTypeOK
  <2>2. \A e \in ToSet(merged) : e.ledger \in Nat
    BY SequenceTypes, EventTypes DEF TypeInv
  <2>3. UNCHANGED <<endpoint, start, ids, todo, batch, position, retries, merged, next,
                    answer, height>>
    BY <1>7 DEF callVars, fetchVars
  <2>4. \A e \in ToSet(merged') : e.ledger <= tip'
    BY <2>1, <2>2, <2>3 DEF TypeInv
  <2> QED
    BY <2>1, <2>3, <2>4 DEF TypeInv, TypeOK, Done
<1>8. CASE UNCHANGED vars
  BY <1>8 DEF vars, netVars, callVars, fetchVars, TypeInv, TypeOK, NetworkTypeOK, Done
<1> QED
  BY <1>1, <1>2, <1>3, <1>4, <1>5, <1>6, <1>7, <1>8 DEF Next

-----------------------------------------------------------------------------
\* What each step does to the events of the batch in hand.
LEMMA VisibleIs ==
  ASSUME NEW s, NEW h, NEW B, NEW e
  PROVE  e \in Visible(s, h, B) <=>
           e \in Events /\ s <= e.ledger /\ e.ledger <= h /\ e.contract \in B
BY DEF Visible

LEMMA UpToIs ==
  ASSUME NEW B, NEW e, NEW f
  PROVE  f \in UpTo(B, e) <=> f \in Visible(start, e.ledger, B) /\ ~Before(e, f)
BY DEF UpTo

\* A page goes on where the one before it stopped.
LEMMA PageExtends ==
  ASSUME TypeInv, MergedInv, BatchInv, NEW h \in Nodes, NEW page \in PagesAt(h),
         NEW cursorless \in Cursorless(h, page), Page(h, page, cursorless)
  PROVE  /\ ToSet(page) \subseteq Visible(start, tip, ids \ todo) \ Garbled
         /\ ToSet(page) \subseteq Visible(start, h, batch)
         /\ ToSet(merged) \cap ToSet(page) = {}
         /\ ToSet(merged') = ToSet(merged) \cup ToSet(page) /\ IsInjective(merged')
<1>1. /\ h \in Nat /\ h <= tip /\ tip \in Nat /\ batch \subseteq ids \ todo
      /\ merged \in Seq(Events) /\ ToSet(page) \cap Garbled = {}
      /\ merged' = merged \o page
  BY NodeTips DEF TypeInv, TypeOK, NetworkTypeOK, Page
<1>2. page \in Seq(Events) /\ IsInjective(page) /\ ToSet(page) \subseteq Rest(h)
  BY PageIs
<1>3. ToSet(page) \subseteq Visible(start, h, batch)
  BY <1>2 DEF Rest
<1>4. Visible(start, h, batch) \subseteq Visible(start, tip, ids \ todo)
  <2> SUFFICES ASSUME NEW e \in Visible(start, h, batch)
               PROVE  e \in Visible(start, tip, ids \ todo)
    OBVIOUS
  <2>1. e.ledger \in Nat /\ e \in Events
    BY VisibleIs, EventTypes
  <2>2. start <= e.ledger /\ e.ledger <= h /\ e.contract \in ids \ todo
    BY <1>1, VisibleIs
  <2>3. e.ledger <= tip
    BY <1>1, <2>1, <2>2
  <2> QED
    BY <2>1, <2>2, <2>3, VisibleIs
<1>5. ASSUME NEW e \in ToSet(merged), e \in ToSet(page) PROVE FALSE
  <2>1. e \in Merged(batch)
    BY <1>3, <1>5, VisibleIs DEF Merged
  <2>2. position # <<>> /\ ~Before(position[1], e)
    BY <2>1, UpToIs DEF BatchInv
  <2>3. Before(position[1], e)
    BY <1>2, <1>5, <2>2 DEF Rest
  <2> QED
    BY <2>2, <2>3
<1>6. ToSet(merged) \cap ToSet(page) = {}
  BY <1>5
<1> QED
  BY <1>1, <1>2, <1>3, <1>4, <1>6, Joined DEF MergedInv

\* The last page ends the batch with what its node alone would have answered ...
LEMMA LastPage ==
  ASSUME TypeInv, MergedInv, BatchInv, NEW h \in Nodes, NEW page \in PagesAt(h),
         NEW cursorless \in Cursorless(h, page), Page(h, page, cursorless), Exhausted(page, cursorless)
  PROVE  {e \in ToSet(merged) \cup ToSet(page) : e.contract \in batch} =
           Visible(start, h, batch)
<1>1. /\ h \in Nat /\ tip \in Nat /\ InRange(h) /\ start \in Nat
  BY NodeTips DEF TypeInv, TypeOK, NetworkTypeOK, Page
<1>2. ToSet(page) = Rest(h)
  BY PageIs
<1>3. \A e \in Rest(h) : e.contract \in batch
  BY VisibleIs DEF Rest
<1>4. {e \in ToSet(merged) \cup ToSet(page) : e.contract \in batch} = Merged(batch) \cup Rest(h)
  BY <1>2, <1>3 DEF Merged
<1>5. CASE position = <<>>
  BY <1>4, <1>5 DEF Rest, BatchInv
<1>6. CASE position # <<>>
  <2> DEFINE p == position[1]
  <2>1. Merged(batch) = UpTo(batch, p) /\ p \in Events /\ p.ledger \in Nat /\ p.ledger <= h
    BY <1>1, <1>6, SequenceTypes, EventTypes DEF BatchInv, InRange, From, TypeInv
  <2>2. \A e : e \in Rest(h) <=> e \in Visible(start, h, batch) /\ Before(p, e)
    BY <1>6 DEF Rest
  <2> HIDE DEF p
  <2>3. ASSUME NEW e \in UpTo(batch, p) PROVE e \in Visible(start, h, batch)
    <3>1. e \in Visible(start, p.ledger, batch)
      BY UpToIs
    <3>2. e \in Events /\ e.ledger \in Nat /\ start <= e.ledger /\ e.ledger <= p.ledger
          /\ e.contract \in batch
      BY <3>1, VisibleIs, EventTypes
    <3>3. e.ledger <= h
      BY <1>1, <2>1, <3>2
    <3> QED
      BY <3>2, <3>3, VisibleIs
  <2>4. ASSUME NEW e \in Visible(start, h, batch), ~Before(p, e) PROVE e \in UpTo(batch, p)
    <3>1. e \in Events /\ start <= e.ledger /\ e.contract \in batch
      BY VisibleIs
    <3>2. e.ledger <= p.ledger
      BY <2>1, <2>4, <3>1, BeforeIsOrder
    <3> QED
      BY <2>4, <3>1, <3>2, VisibleIs, UpToIs
  <2> QED
    BY <1>4, <2>1, <2>2, <2>3, <2>4
<1> QED
  BY <1>5, <1>6

\* ... and a full one leaves the batch complete up to its last event.
LEMMA FullPage ==
  ASSUME PlacesDistinct, TypeInv, MergedInv, BatchInv, NEW h \in Nodes,
         NEW page \in PagesAt(h),
         NEW cursorless \in Cursorless(h, page), Page(h, page, cursorless), ~Exhausted(page, cursorless)
  PROVE  /\ Last(page) \in Visible(start, tip, batch)
         /\ {e \in ToSet(merged) \cup ToSet(page) : e.contract \in batch} =
              UpTo(batch, Last(page))
<1> DEFINE l == Last(page)
<1>1. /\ h \in Nat /\ tip \in Nat /\ h <= tip /\ InRange(h) /\ start \in Nat
  BY NodeTips DEF TypeInv, TypeOK, NetworkTypeOK, Page
<1>2. l \in Rest(h) /\ ToSet(page) = {f \in Rest(h) : ~Before(l, f)}
  BY PageIs
<1>3. \A e \in Rest(h) : e \in Visible(start, h, batch)
  BY DEF Rest
<1>4. /\ l \in Events /\ l.ledger \in Nat /\ start <= l.ledger /\ l.ledger <= h
      /\ l.contract \in batch
  BY <1>2, <1>3, VisibleIs, EventTypes
<1> HIDE DEF l
<1>5. l \in Visible(start, tip, batch)
  <2>1. l.ledger <= tip
    BY <1>1, <1>4
  <2> QED
    BY <1>4, <2>1, VisibleIs
<1>6. {e \in ToSet(merged) \cup ToSet(page) : e.contract \in batch} =
        Merged(batch) \cup ToSet(page)
  BY <1>2, <1>3, VisibleIs DEF Merged
<1>7. ASSUME NEW e \in Visible(start, l.ledger, batch) PROVE e \in Visible(start, h, batch)
  <2>1. e \in Events /\ e.ledger \in Nat /\ start <= e.ledger /\ e.ledger <= l.ledger
        /\ e.contract \in batch
    BY VisibleIs, EventTypes
  <2>2. e.ledger <= h
    BY <1>1, <1>4, <2>1
  <2> QED
    BY <2>1, <2>2, VisibleIs
<1>8. ASSUME NEW e \in Visible(start, h, batch), ~Before(l, e) PROVE e \in UpTo(batch, l)
  <2>1. e \in Events /\ start <= e.ledger /\ e.contract \in batch
    BY VisibleIs
  <2>2. e.ledger <= l.ledger
    BY <1>4, <1>8, <2>1, BeforeIsOrder
  <2> QED
    BY <1>8, <2>1, <2>2, VisibleIs, UpToIs
<1>9. CASE position = <<>>
  <2>1. Rest(h) = Visible(start, h, batch) /\ Merged(batch) = {}
    BY <1>9 DEF Rest, BatchInv
  <2> QED
    BY <1>2, <1>5, <1>6, <1>7, <1>8, <2>1, UpToIs DEF l
<1>10. CASE position # <<>>
  <2> DEFINE p == position[1]
  <2>1. Merged(batch) = UpTo(batch, p) /\ p \in Events /\ p.ledger \in Nat /\ p.ledger <= h
    BY <1>1, <1>10, SequenceTypes, EventTypes DEF BatchInv, InRange, From, TypeInv
  <2>2. \A e : e \in Rest(h) <=> e \in Visible(start, h, batch) /\ Before(p, e)
    BY <1>10 DEF Rest
  <2> HIDE DEF p
  <2>3. Before(p, l) /\ p.ledger <= l.ledger
    BY <1>2, <1>4, <2>1, <2>2, BeforeIsOrder
  <2>4. ASSUME NEW e \in UpTo(batch, p) PROVE e \in UpTo(batch, l)
    <3>1. e \in Visible(start, p.ledger, batch) /\ ~Before(p, e)
      BY UpToIs
    <3>2. e \in Events /\ e.ledger \in Nat /\ start <= e.ledger /\ e.ledger <= p.ledger
          /\ e.contract \in batch
      BY <3>1, VisibleIs, EventTypes
    <3>3. ~Before(l, e)
      BY <1>4, <2>1, <2>3, <3>1, <3>2, BeforeIsOrder
    <3>4. e.ledger <= h
      BY <1>1, <2>1, <3>2
    <3> QED
      BY <1>8, <3>2, <3>3, <3>4, VisibleIs
  <2>5. ASSUME NEW e \in UpTo(batch, l), ~Before(p, e) PROVE e \in UpTo(batch, p)
    <3>1. e \in Events /\ start <= e.ledger /\ e.contract \in batch
      BY UpToIs, VisibleIs
    <3>2. e.ledger <= p.ledger
      BY <2>1, <2>5, <3>1, BeforeIsOrder
    <3> QED
      BY <2>5, <3>1, <3>2, VisibleIs, UpToIs
  <2>6. ASSUME NEW e \in UpTo(batch, l), Before(p, e) PROVE e \in ToSet(page)
    BY <1>2, <1>7, <2>2, <2>6, UpToIs
  <2>7. ASSUME NEW e \in ToSet(page) PROVE e \in UpTo(batch, l)
    BY <1>2, <1>3, <1>8
  <2> QED
    BY <1>5, <1>6, <2>1, <2>4, <2>5, <2>6, <2>7 DEF l
<1> QED
  BY <1>9, <1>10

-----------------------------------------------------------------------------
\* The invariant is kept while the chain grows ...
LEMMA FetchKept ==
  ASSUME TypeInv, MergedInv, BatchInv, NextInv, tip' \in Nat, tip <= tip',
         UNCHANGED <<start, ids, todo, batch, position, merged, next>>
  PROVE  MergedInv' /\ BatchInv' /\ NextInv'
<1>1. tip \in Nat /\ \A B : \A e \in Visible(start, tip, B) : e \in Visible(start, tip', B)
  <2>1. tip \in Nat
    BY DEF TypeInv, TypeOK, NetworkTypeOK
  <2> SUFFICES ASSUME NEW B, NEW e \in Visible(start, tip, B)
               PROVE  e \in Visible(start, tip', B)
    BY <2>1
  <2>2. e \in Events /\ e.ledger \in Nat /\ start <= e.ledger /\ e.ledger <= tip
        /\ e.contract \in B
    BY VisibleIs, EventTypes
  <2>3. e.ledger <= tip'
    BY <2>1, <2>2
  <2> QED
    BY <2>2, <2>3, VisibleIs
<1>2. MergedInv'
  <2>1. Visible(start, tip, ids \ todo) \subseteq Visible(start, tip', ids \ todo)
    BY <1>1
  <2> QED
    BY <2>1 DEF MergedInv, Visible
<1>3. Merged(batch)' = Merged(batch) /\ Done' = Done
  BY DEF Merged, Done
<1>4. BatchInv'
  <2>1. CASE position = <<>>
    BY <1>3, <2>1 DEF BatchInv
  <2>2. CASE position # <<>>
    <3>1. position[1] \in Visible(start, tip', batch)
      BY <1>1, <2>2 DEF BatchInv
    <3>2. UpTo(batch, position[1])' = UpTo(batch, position[1])
      BY DEF UpTo, Visible
    <3> QED
      BY <1>3, <2>2, <3>1, <3>2 DEF BatchInv, Visible
  <2> QED
    BY <2>1, <2>2
<1>5. NextInv'
  <2> SUFFICES ASSUME next # <<>> PROVE NextInv'
    BY DEF NextInv
  <2>1. next[1] \in Nat
    BY SequenceTypes DEF TypeInv
  <2>2. next[1] <= tip' + 1 \/ next[1] = start
    BY <1>1, <2>1 DEF NextInv
  <2> QED
    BY <1>3, <2>2 DEF NextInv, Visible
<1> QED
  BY <1>2, <1>4, <1>5

\* ... and when a batch ends with all it has before the ledger it names.
LEMMA BatchEnds ==
  ASSUME TypeInv, NextInv, NEW n \in Nat, EndBatch(n),
         start <= n, n <= tip + 1 \/ n = start,
         ToSet(merged) \subseteq ToSet(merged'),
         Visible(start, n - 1, batch) \subseteq ToSet(merged'),
         UNCHANGED <<tip, start, ids, todo>>
  PROVE  BatchInv' /\ NextInv'
<1>1. tip \in Nat /\ start \in Nat /\ batch \subseteq ids \ todo /\ (next = <<>> <=> Done = {})
  BY DEF TypeInv, TypeOK, NetworkTypeOK
<1>2. /\ next' # <<>> /\ batch' = {} /\ position' = <<>>
      /\ next = <<>> => next'[1] = n
      /\ next # <<>> => /\ next'[1] \in {next[1], n}
                        /\ next'[1] <= next[1] /\ next'[1] <= n
  BY EndTypes DEF TypeInv
<1>3. next # <<>> => next[1] \in Nat
  BY SequenceTypes DEF TypeInv
<1>4. Done' = Done \cup batch
  BY <1>1, <1>2 DEF Done
<1>5. BatchInv'
  BY <1>2 DEF BatchInv, Merged
<1>6. start <= next'[1] /\ (next'[1] <= tip + 1 \/ next'[1] = start) /\ next'[1] \in Nat
  BY <1>1, <1>2, <1>3 DEF NextInv
<1>7. ASSUME NEW e \in Visible(start, next'[1] - 1, Done') PROVE e \in ToSet(merged')
  <2>1. e \in Events /\ e.ledger \in Nat /\ start <= e.ledger /\ e.ledger <= next'[1] - 1
        /\ e.contract \in Done \cup batch
    BY <1>4, <1>7, VisibleIs, EventTypes
  <2>2. CASE e.contract \in Done
    <3>1. next # <<>>
      BY <1>1, <2>2
    <3>2. e.ledger <= next[1] - 1
      BY <1>2, <1>3, <1>6, <2>1, <3>1
    <3> QED
      BY <2>1, <2>2, <3>1, <3>2, VisibleIs DEF NextInv
  <2>3. CASE e.contract \in batch
    <3>1. e.ledger <= n - 1
      BY <1>2, <1>3, <1>6, <2>1
    <3> QED
      BY <2>1, <2>3, <3>1, VisibleIs
  <2> QED
    BY <2>1, <2>2, <2>3
<1>8. Visible(start', next'[1] - 1, Done') \subseteq ToSet(merged')
  BY <1>7
<1>9. Visible(start, next[1] - 1, Done)' = Visible(start', next'[1] - 1, Done')
  BY DEF Visible
<1>10. NextInv'
  BY <1>2, <1>6, <1>8, <1>9 DEF NextInv
<1> QED
  BY <1>5, <1>10

LEMMA PageKeeps ==
  ASSUME PlacesDistinct, FetchInv, NEW h \in Nodes, NEW page \in PagesAt(h),
         NEW cursorless \in Cursorless(h, page), Page(h, page, cursorless)
  PROVE  MergedInv' /\ BatchInv' /\ NextInv'
<1>1. /\ h \in Nat /\ h <= tip /\ tip \in Nat /\ start \in Nat
      /\ tip' = tip /\ start' = start /\ ids' = ids /\ todo' = todo
  BY NodeTips DEF FetchInv, TypeInv, TypeOK, NetworkTypeOK, Page, netVars, callVars
<1>2. /\ ToSet(page) \subseteq Visible(start, tip, ids \ todo) \ Garbled
      /\ ToSet(merged') = ToSet(merged) \cup ToSet(page) /\ IsInjective(merged')
  BY PageExtends DEF FetchInv
<1>3. MergedInv'
  <2>1. ToSet(merged)' \subseteq Visible(start, tip, ids \ todo) \ Garbled
    BY <1>2 DEF FetchInv, MergedInv, ToSet
  <2>2. Visible(start, tip, ids \ todo)' = Visible(start, tip, ids \ todo)
    BY <1>1 DEF Visible
  <2> QED
    BY <1>2, <2>1, <2>2 DEF MergedInv
<1>4. CASE Exhausted(page, cursorless)
  <2> DEFINE received == {e \in ToSet(merged) \cup ToSet(page) : e.contract \in batch}
             n == ResumeAfter(received, h)
  <2>1. EndBatch(n)
    BY <1>4 DEF Page
  <2>2. received = Visible(start, h, batch)
    BY <1>4, LastPage DEF FetchInv
  <2> HIDE DEF received
  <2>3. received \in SUBSET Events /\ \A e \in received : start <= e.ledger /\ e.ledger <= h
    BY <2>2, VisibleIs
  <2>4. n \in Nat /\ start <= n /\ (n <= h + 1 \/ n = start)
    BY <1>1, <2>3, ResumeIs
  <2> HIDE DEF n
  <2>5. n <= tip + 1 \/ n = start
    BY <1>1, <2>4
  <2>6. received \subseteq ToSet(merged')
    BY <1>2 DEF received
  <2>7. ASSUME NEW e \in Visible(start, n - 1, batch) PROVE e \in ToSet(merged')
    <3>1. e \in Events /\ e.ledger \in Nat /\ start <= e.ledger /\ e.ledger <= n - 1
          /\ e.contract \in batch
      BY VisibleIs, EventTypes
    <3>2. e.ledger <= h
      BY <1>1, <2>4, <3>1
    <3> QED
      BY <2>2, <2>6, <3>1, <3>2, VisibleIs
  <2>8. ToSet(merged) \subseteq ToSet(merged') /\ Visible(start, n - 1, batch) \subseteq ToSet(merged')
    BY <1>2, <2>7
  <2> QED
    BY <1>1, <1>3, <2>1, <2>4, <2>5, <2>8, BatchEnds DEF FetchInv
<1>5. CASE ~Exhausted(page, cursorless)
  <2> DEFINE l == Last(page)
  <2>1. position' = <<l>> /\ batch' = batch /\ next' = next
    BY <1>5 DEF Page
  <2>2. /\ l \in Visible(start, tip, batch)
        /\ {e \in ToSet(merged) \cup ToSet(page) : e.contract \in batch} = UpTo(batch, l)
    BY <1>5, FullPage DEF FetchInv
  <2> HIDE DEF l
  <2>3. Merged(batch)' = UpTo(batch, l)
    BY <1>2, <2>1, <2>2 DEF Merged
  <2>4. position'[1] = l /\ position' # <<>>
    BY <2>1
  <2>5. UpTo(batch, position[1])' = UpTo(batch, l)
    BY <1>1, <2>1, <2>4 DEF UpTo, Visible
  <2>6. Visible(start, tip, batch)' = Visible(start, tip, batch)
    BY <1>1, <2>1 DEF Visible
  <2>7. batch # {}
    BY DEF Page, Fetching
  <2>8. BatchInv'
    BY <2>1, <2>2, <2>3, <2>4, <2>5, <2>6, <2>7 DEF BatchInv
  <2>9. NextInv'
    <3>1. Done' = Done
      BY <1>1, <2>1 DEF Done
    <3>2. Visible(start, next[1] - 1, Done)' = Visible(start, next[1] - 1, Done)
      BY <1>1, <2>1, <3>1 DEF Visible
    <3> QED
      BY <1>1, <1>2, <2>1, <3>2 DEF NextInv, FetchInv
  <2> QED
    BY <1>3, <2>8, <2>9
<1> QED
  BY <1>4, <1>5

\* What a call returns: what it fetched, and for a replay what of it lies up to
\* the ceiling.
LEMMA ReturnIs ==
  ASSUME PlacesDistinct, FetchInv, Return
  PROVE  /\ answer = Source!Pending /\ answer'.kind = "ok"
         /\ next # <<>> /\ Done = ids
         /\ answer'.events \in Seq(Events) /\ IsInjective(answer'.events)
         /\ InOrder(answer'.events)
         /\ \/ /\ answer'.next = next[1] /\ ToSet(answer'.events) = ToSet(merged)
            \/ /\ answer'.next = Min({next[1], PastCeiling})
               /\ ToSet(answer'.events) = {e \in ToSet(merged) : e.ledger <= Ceiling}
<1>1. answer = Source!Pending /\ batch = {} /\ todo = {}
  BY DEF Return
<1>2. Done = ids /\ next # <<>>
  BY <1>1 DEF Done, FetchInv, TypeInv
<1>3. PICK sorted \in Ordered(merged) :
        \/ answer' = Source!Ok(sorted, next[1])
        \/ \E kept \in Retained(sorted) :
             answer' = Source!Ok(kept, Min({next[1], PastCeiling}))
  BY DEF Return
<1>4. /\ sorted \in Seq(Events) /\ InOrder(sorted) /\ ToSet(sorted) = ToSet(merged)
      /\ IsInjective(sorted)
  BY OrderedIs DEF FetchInv, MergedInv, TypeInv, TypeOK
<1>5. CASE answer' = Source!Ok(sorted, next[1])
  BY <1>1, <1>2, <1>4, <1>5 DEF Source!Ok
<1>6. CASE \E kept \in Retained(sorted) :
             answer' = Source!Ok(kept, Min({next[1], PastCeiling}))
  <2>1. PICK kept \in Retained(sorted) :
               answer' = Source!Ok(kept, Min({next[1], PastCeiling}))
    BY <1>6
  <2>2. /\ kept \in Seq(Events) /\ IsInjective(kept) /\ InOrder(kept)
        /\ ToSet(kept) = {e \in ToSet(merged) : e.ledger <= Ceiling}
    BY <1>4, RetainedIs
  <2> QED
    BY <1>1, <1>2, <2>1, <2>2 DEF Source!Ok
<1> QED
  BY <1>3, <1>5, <1>6

LEMMA InitFetch == Init => FetchInv
<1> SUFFICES ASSUME Init PROVE FetchInv
  OBVIOUS
<1>1. TypeInv
  BY InitTypes
<1>2. merged = <<>> /\ position = <<>> /\ next = <<>> /\ batch = {} /\ start \in Starts
      /\ answer.events = <<>>
  BY DEF Init, Source!Pending
<1>3. ToSet(merged) = {} /\ IsInjective(merged)
  BY <1>2 DEF ToSet, IsInjective
<1> QED
  BY <1>1, <1>2, <1>3 DEF FetchInv, MergedInv, BatchInv, NextInv, InChainOrder, Merged

LEMMA NextFetch ==
  ASSUME PlacesDistinct, FetchInv, [Next]_vars
  PROVE  FetchInv'
<1>1. TypeInv' /\ TypeInv
  BY NextTypes DEF FetchInv
<1>2. start' \in Starts
  BY DEF FetchInv, Next, TakeBatch, Page, AboveTip, Retry, Fails, Return, vars, callVars
<1>3. tip \in Nat /\ tip' \in Nat /\ endpoint \in Endpoints /\ start \in Nat
  BY <1>1 DEF TypeInv, TypeOK, NetworkTypeOK
<1>4. InChainOrder'
  <2>1. CASE UNCHANGED answer
    BY <2>1 DEF FetchInv, InChainOrder
  <2>2. CASE Fails
    BY <2>2 DEF Fails, Source!Failed, InChainOrder
  <2>3. CASE Return
    <3>1. answer'.events \in Seq(Events) /\ IsInjective(answer'.events) /\ InOrder(answer'.events)
      BY <2>3, ReturnIs
    <3>2. ASSUME NEW i \in DOMAIN answer'.events, NEW j \in DOMAIN answer'.events, i < j
          PROVE  Before(answer'.events[i], answer'.events[j])
      BY <3>1, <3>2, StrictlyBefore
    <3> QED
      BY <3>2 DEF InChainOrder, Before
  <2> QED
    BY <2>1, <2>2, <2>3 DEF Next, TakeBatch, Page, AboveTip, Retry, vars, fetchVars
<1>5. MergedInv' /\ BatchInv' /\ NextInv'
  <2>1. ASSUME NEW B \in (SUBSET todo) \ {{}}, TakeBatch(B) PROVE MergedInv' /\ BatchInv' /\ NextInv'
    <3>1. /\ batch = {} /\ batch' = B /\ todo' = todo \ B
          /\ UNCHANGED <<tip, start, ids, position, merged, next>>
      BY <2>1 DEF TakeBatch, netVars, callVars
    <3>2. position = <<>> /\ position' = <<>> /\ merged' = merged
      BY <3>1 DEF FetchInv, BatchInv
    <3>3. Done' = Done
      BY <1>1, <3>1 DEF Done, TypeInv, TypeOK
    <3>4. \A e \in ToSet(merged) : e \in Visible(start, tip, ids \ todo) /\ e \notin Garbled
      BY DEF FetchInv, MergedInv
    <3>5. MergedInv'
      <4>1. Visible(start, tip, ids \ todo) \subseteq Visible(start, tip, ids \ todo)'
        BY <3>1 DEF Visible
      <4> QED
        BY <3>1, <3>4, <4>1 DEF FetchInv, MergedInv
    <3>6. Merged(batch)' = {}
      BY <3>1, <3>4, VisibleIs DEF Merged
    <3>7. BatchInv'
      BY <3>2, <3>6 DEF BatchInv
    <3>8. NextInv'
      <4>1. Visible(start, next[1] - 1, Done)' = Visible(start, next[1] - 1, Done)
        BY <3>1, <3>3 DEF Visible
      <4> QED
        BY <3>1, <4>1 DEF FetchInv, NextInv
    <3> QED
      BY <3>5, <3>7, <3>8
  <2>2. ASSUME NEW h \in Nodes, NEW page \in PagesAt(h),
               NEW cursorless \in Cursorless(h, page), Page(h, page, cursorless)
        PROVE  MergedInv' /\ BatchInv' /\ NextInv'
    BY <2>2, PageKeeps
  <2>3. ASSUME NEW h \in Nodes, AboveTip(h) PROVE MergedInv' /\ BatchInv' /\ NextInv'
    <3>1. EndBatch(start) /\ UNCHANGED <<tip, start, ids, todo, merged>>
      BY <2>3 DEF AboveTip, netVars, callVars
    <3>2. ASSUME NEW e \in Visible(start, start - 1, batch) PROVE FALSE
      <4>1. e.ledger \in Nat /\ start <= e.ledger /\ e.ledger <= start - 1
        BY VisibleIs, EventTypes
      <4> QED
        BY <1>3, <4>1
    <3>3. ToSet(merged') = ToSet(merged) /\ Visible(start, start - 1, batch) \subseteq ToSet(merged')
      BY <3>1, <3>2
    <3>4. BatchInv' /\ NextInv'
      BY <1>3, <3>1, <3>3, BatchEnds DEF FetchInv
    <3>5. MergedInv'
      BY <3>1 DEF FetchInv, MergedInv, Visible
    <3> QED
      BY <3>4, <3>5
  <2>4. CASE UNCHANGED <<tip, start, ids, todo, batch, position, merged, next>>
    BY <1>1, <1>3, <2>4, FetchKept DEF FetchInv
  <2>5. CASE (CloseLedger \/ Prune(endpoint)) /\ UNCHANGED <<callVars, fetchVars>>
    <3>1. tip <= tip'
      BY <1>1, <1>3, <2>5, NetworkTypes DEF TypeInv, TypeOK
    <3> QED
      BY <1>1, <1>3, <2>5, <3>1, FetchKept DEF FetchInv, callVars, fetchVars
  <2> QED
    BY <2>1, <2>2, <2>3, <2>4, <2>5
       DEF Next, Retry, Fails, Return, vars, netVars, callVars, fetchVars
<1> QED
  BY <1>1, <1>2, <1>4, <1>5 DEF FetchInv

-----------------------------------------------------------------------------
(***************************************************************************)
(* Types: every state of the call is one fetch_batch or fetch can be in; in *)
(* particular no request is retried past the budget                         *)
(* (event_source.rs:201-203) and every batch has said where to resume when  *)
(* the call returns (event_source.rs:312-330).                              *)
(***************************************************************************)
THEOREM TypeCorrect == Spec => []TypeOK
<1>1. Init => TypeInv
  BY InitTypes
<1>2. TypeInv /\ [Next]_vars => TypeInv'
  BY NextTypes
<1>3. TypeInv => TypeOK
  BY DEF TypeInv
<1> QED
  BY <1>1, <1>2, <1>3, PTL DEF Spec

(***************************************************************************)
(* The events of a call are handed on in chain order, whatever the batches  *)
(* and pages they came in (event_source.rs:83-84, 321-326).                 *)
(***************************************************************************)
THEOREM ReturnsInChainOrder ==
  ASSUME PlacesDistinct
  PROVE  Spec => []InChainOrder
<1>1. Init => FetchInv
  BY InitFetch
<1>2. FetchInv /\ [Next]_vars => FetchInv'
  BY NextFetch
<1>3. FetchInv => InChainOrder
  BY DEF FetchInv
<1> QED
  BY <1>1, <1>2, <1>3, PTL DEF Spec

\* The answer of a batch: the last page's node alone would have given it.
LEMMA AnswerStep ==
  ASSUME FetchInv, [Next]_vars, batch # {}, batch' = {}
  PROVE  {e \in ToSet(merged') : e.contract \in batch} = Visible(start, height', batch)
<1>1. CASE \E h \in Nodes : \E page \in PagesAt(h) : \E cursorless \in Cursorless(h, page) :
             Page(h, page, cursorless)
  <2>0. PICK h \in Nodes : \E page \in PagesAt(h) : \E cursorless \in Cursorless(h, page) :
             Page(h, page, cursorless)
    BY <1>1
  <2>1. PICK page \in PagesAt(h) : \E cursorless \in Cursorless(h, page) :
             Page(h, page, cursorless)
    BY <2>0
  <2>2. PICK cursorless \in Cursorless(h, page) : Page(h, page, cursorless)
    BY <2>1
  <2>3. Exhausted(page, cursorless) /\ height' = h
    BY <2>2 DEF Page
  <2>4. ToSet(merged') = ToSet(merged) \cup ToSet(page)
    BY <2>2, PageExtends DEF FetchInv
  <2> QED
    BY <2>2, <2>3, <2>4, LastPage DEF FetchInv
<1>2. CASE \E h \in Nodes : AboveTip(h)
  <2>1. PICK h \in Nodes : AboveTip(h)
    BY <1>2
  <2>2. position = <<>> /\ h < start /\ height' = h /\ merged' = merged
    BY <2>1 DEF AboveTip, HoldsAboveTip
  <2>3. h \in Nat /\ start \in Nat
    BY NodeTips DEF FetchInv, TypeInv, TypeOK
  <2>4. Merged(batch) = {}
    BY <2>2 DEF FetchInv, BatchInv
  <2>5. ASSUME NEW e \in Visible(start, h, batch) PROVE FALSE
    <3>1. e.ledger \in Nat /\ start <= e.ledger /\ e.ledger <= h
      BY VisibleIs, EventTypes
    <3> QED
      BY <2>2, <2>3, <3>1
  <2> QED
    BY <2>2, <2>4, <2>5 DEF Merged
<1> QED
  BY <1>1, <1>2 DEF Next, TakeBatch, Retry, Fails, Return, vars, fetchVars

(***************************************************************************)
(* A batch of any number of pages, served by nodes of any heights, ends     *)
(* with what the last of them alone would have answered: a page goes on     *)
(* from a cursor its node has reached, and sees all that lies before it     *)
(* (event_source.rs:219-299).                                               *)
(***************************************************************************)
THEOREM BatchesAreAnswers ==
  ASSUME PlacesDistinct
  PROVE  Spec => BatchIsOneAnswer
<1>1. Init => FetchInv
  BY InitFetch
<1>2. FetchInv /\ [Next]_vars => FetchInv'
  BY NextFetch
<1>3. FetchInv /\ [Next]_vars =>
        [batch # {} /\ batch' = {} =>
           {e \in ToSet(merged') : e.contract \in batch} = Visible(start, height', batch)]_vars
  BY AnswerStep
<1> QED
  BY <1>1, <1>2, <1>3, PTL DEF Spec, BatchIsOneAnswer

\* A step of the call is one of the trait, or none.
LEMMA SourceStep ==
  ASSUME PlacesDistinct, RoomForSpan, FetchInv, FetchInv', [Next]_vars
  PROVE  [Source!Next]_(Source!sourceVars)
<1>1. CASE UNCHANGED <<start, ids, answer>>
  BY <1>1 DEF Source!sourceVars
<1>2. CASE Fails
  BY <1>2 DEF Fails, Fetching, Source!Next, Source!Fail, callVars
<1>3. CASE Return
  <2>1. /\ answer = Source!Pending /\ answer'.kind = "ok"
        /\ next # <<>> /\ Done = ids
        /\ answer'.events \in Seq(Events) /\ IsInjective(answer'.events)
        /\ InOrder(answer'.events)
        /\ \/ /\ answer'.next = next[1] /\ ToSet(answer'.events) = ToSet(merged)
           \/ /\ answer'.next = Min({next[1], PastCeiling})
              /\ ToSet(answer'.events) = {e \in ToSet(merged) : e.ledger <= Ceiling}
    BY <1>3, ReturnIs
  <2>2. tip' = tip /\ start' = start /\ ids' = ids
    BY <1>3 DEF Return, netVars, callVars
  <2>3. /\ next[1] \in Nat /\ start \in Nat /\ tip \in Nat /\ start <= next[1]
        /\ next[1] <= tip + 1 \/ next[1] = start
        /\ Visible(start, next[1] - 1, ids) \subseteq ToSet(merged)
        /\ \A e \in ToSet(merged) : e \in Visible(start, tip, ids \ todo) /\ e \notin Garbled
    BY <2>1, SequenceTypes DEF FetchInv, TypeInv, TypeOK, NetworkTypeOK, NextInv, MergedInv
  <2>4. Ceiling = start + MaxSpan /\ PastCeiling = Ceiling + 1 /\ Ceiling \in Nat
    <3>1. start + MaxSpan < MaxInt /\ MaxSpan \in Nat /\ MaxInt \in Nat
      BY RpcSourceAssumption DEF FetchInv, RoomForSpan
    <3>2. start + MaxSpan \in Int /\ MaxInt \in Int
      BY <2>3, <3>1
    <3>3. Ceiling = start + MaxSpan
      <4>1. /\ Min({start + MaxSpan, MaxInt}) \in {start + MaxSpan, MaxInt}
            /\ Min({start + MaxSpan, MaxInt}) <= start + MaxSpan
        BY <3>2, Extremes
      <4> QED
        BY <3>1, <3>2, <4>1 DEF Ceiling
    <3> QED
      BY <2>3, <3>1, <3>2, <3>3 DEF PastCeiling, Wrap
  <2> DEFINE n == answer'.next
  <2>5. /\ n \in Nat /\ start <= n /\ (n <= tip + 1 \/ n = start) /\ n <= next[1]
        /\ \/ ToSet(answer'.events) = ToSet(merged)
           \/ /\ ToSet(answer'.events) = {e \in ToSet(merged) : e.ledger <= Ceiling}
              /\ n <= Ceiling + 1
    <3>1. CASE n = next[1] /\ ToSet(answer'.events) = ToSet(merged)
      BY <2>3, <3>1
    <3>2. CASE /\ n = Min({next[1], PastCeiling})
               /\ ToSet(answer'.events) = {e \in ToSet(merged) : e.ledger <= Ceiling}
      <4>1. next[1] \in Int /\ PastCeiling \in Int /\ PastCeiling \in Nat /\ start <= PastCeiling
        <5>1. MaxSpan \in Nat
          BY RpcSourceAssumption
        <5> QED
          BY <2>3, <2>4, <5>1
      <4>2. n \in {next[1], PastCeiling} /\ n <= next[1] /\ n <= PastCeiling
        BY ZenonT(30), <3>2, <4>1, Extremes
      <4> HIDE DEF n
      <4>3. n \in Nat /\ start <= n
        BY <2>3, <4>1, <4>2
      <4>4. n <= tip + 1 \/ n = start
        BY <2>3, <4>2, <4>3
      <4> QED
        BY <2>4, <3>2, <4>2, <4>3, <4>4
    <3> QED
      BY <2>1, <3>1, <3>2
  <2> HIDE DEF n
  <2>6. ASSUME NEW e \in Visible(start, n - 1, ids) \ Garbled PROVE e \in ToSet(answer'.events)
    <3>1. e \in Events /\ e.ledger \in Nat /\ start <= e.ledger /\ e.ledger <= n - 1
          /\ e.contract \in ids
      BY VisibleIs, EventTypes
    <3>2. e.ledger <= next[1] - 1
      BY <2>3, <2>5, <3>1
    <3>3. e \in ToSet(merged)
      BY <2>3, <3>1, <3>2, VisibleIs
    <3>4. n <= Ceiling + 1 => e.ledger <= Ceiling
      BY <2>4, <2>5, <3>1
    <3> QED
      BY <2>5, <3>3, <3>4
  <2>7. ToSet(answer'.events) \subseteq Visible(start, tip, ids) \ Garbled
    <3>1. \A e \in ToSet(merged) : e \in Visible(start, tip, ids) /\ e \notin Garbled
      BY <2>3, VisibleIs
    <3> QED
      BY <2>5, <3>1
  <2>8. ASSUME NEW i \in DOMAIN answer'.events, NEW j \in DOMAIN answer'.events, i < j
        PROVE  ~Source!Before(answer'.events[j], answer'.events[i])
    <3>1. ~Before(answer'.events[j], answer'.events[i])
      BY <2>1, <2>8 DEF InOrder
    <3> QED
      BY <3>1 DEF Before, Source!Before
  <2>9. Source!Answered'
    <3>1. Visible(start, answer.next - 1, ids)' = Visible(start, n - 1, ids)
      BY <2>2 DEF Visible, n
    <3>2. Visible(start, tip, ids)' = Visible(start, tip, ids)
      BY <2>2 DEF Visible
    <3>3. /\ (Visible(start, answer.next - 1, ids) \ Garbled)' \subseteq ToSet(answer'.events)
          /\ ToSet(answer'.events) \subseteq (Visible(start, tip, ids) \ Garbled)'
      BY <2>6, <2>7, <3>1, <3>2
    <3>4. /\ start' <= answer'.next
          /\ answer'.next <= tip' + 1 \/ answer'.next = start'
      BY <2>2, <2>5 DEF n
    <3>5. /\ Source!ToSet(answer'.events) = ToSet(answer'.events)
          /\ Source!IsInjective(answer'.events)
          /\ Source!Visible(start', answer'.next - 1, ids') =
               Visible(start, answer.next - 1, ids)'
          /\ Source!Visible(start', tip', ids') = Visible(start, tip, ids)'
      BY <2>1 DEF Source!ToSet, Source!IsInjective, Source!Visible, ToSet, IsInjective, Visible
    <3> QED
      BY <2>1, <3>3, <3>4, <3>5 DEF Source!Answered
  <2>10. Source!ChainOrdered'
    BY <2>8 DEF Source!ChainOrdered
  <2> QED
    BY <2>1, <2>2, <2>9, <2>10 DEF Source!Next, Source!Return
<1> QED
  BY <1>1, <1>2, <1>3
     DEF Next, TakeBatch, Page, AboveTip, Retry, vars, callVars, fetchVars

(***************************************************************************)
(* The RPC source, live or bounded to a span, implements the trait: every   *)
(* event before the ledger to resume from, each once, in chain order, and a *)
(* ledger neither behind the request nor beyond the chain                   *)
(* (event_source.rs:77-90, 302-333, 354-367).                               *)
(***************************************************************************)
THEOREM RpcImplementsTrait ==
  ASSUME PlacesDistinct, RoomForSpan
  PROVE  Spec => HonoursTrait
<1>1. Init => FetchInv /\ Source!Init
  <2>1. Init => Source!Init
    BY RpcSourceAssumption DEF Init, Source!Init
  <2> QED
    BY <2>1, InitFetch
<1>2. FetchInv /\ [Next]_vars => FetchInv'
  BY NextFetch
<1>3. FetchInv /\ FetchInv' /\ [Next]_vars => [Source!Next]_(Source!sourceVars)
  BY SourceStep
<1> QED
  BY <1>1, <1>2, <1>3, PTL DEF Spec, HonoursTrait, Source!Spec

=============================================================================
