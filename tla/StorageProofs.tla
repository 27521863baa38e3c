-------------------------------- MODULE StorageProofs --------------------------------
(***************************************************************************)
(* What the store keeps, for any users, amounts, deployments and programs.  *)
(* The supported_chains column stays well formed, only grows, and behaves   *)
(* as the atomic list of ChainList.  The activity table accounts for the    *)
(* tokens, the USDC and the custody of the contracts: by induction over     *)
(* finite sets of rows, with the minimal subset in place of the induction   *)
(* theorems, since Sum is the recursion of MapThenSumSet.                   *)
(***************************************************************************)
EXTENDS SupportedChains, Activities, FiniteSetTheorems, WellFoundedInduction, TLAPS

\* The list one append away.
LEMMA Appending ==
  ASSUME NEW list \in Seq(Listing), NEW d \in Deployments
  PROVE  LET new == WithEntry(list, d) IN
         /\ new \in Seq(Listing)
         /\ Len(new) = Len(list) + 1
         /\ \A i \in 1 .. Len(list) : new[i] = list[i]
         /\ new[Len(list) + 1].of = d
         /\ new[Len(list) + 1].primary <=> ~HasPrimary(list)
<1> DEFINE entry == [of |-> d, primary |-> ~HasPrimary(list)]
<1>1. entry \in Listing /\ entry.of = d
  BY DEF Listing, HasPrimary
<1>2. entry.primary <=> ~HasPrimary(list)
  BY Zenon DEF HasPrimary
<1> HIDE DEF entry
<1>3. LET new == Append(list, entry) IN
      /\ new \in Seq(Listing)
      /\ Len(new) = Len(list) + 1
      /\ \A i \in 1 .. Len(list) : new[i] = list[i]
      /\ new[Len(list) + 1] = entry
  BY <1>1
<1> QED
  BY <1>1, <1>2, <1>3, Zenon DEF WithEntry, entry

\* The SET clause keeps a list well formed when the WHERE clause let it run.
LEMMA AppendKeepsOrder ==
  ASSUME NEW list \in Seq(Listing), NEW d \in Deployments,
         OnePrimary(list), NoRepeat(list), ~Holds(list, d)
  PROVE  LET new == WithEntry(list, d) IN
         /\ OnePrimary(new) /\ NoRepeat(new)
         /\ HasPrimary(new) /\ Holds(new, d)
<1> DEFINE new == WithEntry(list, d)
           n == Len(list)
<1> HIDE DEF new
<1>1. /\ n \in Nat /\ Len(new) = n + 1
      /\ \A i \in 1 .. n : new[i] = list[i]
      /\ new[n + 1].of = d
      /\ new[n + 1].primary <=> ~HasPrimary(list)
  BY Appending DEF new
<1>2. NoRepeat(new)
  <2> SUFFICES ASSUME NEW i \in 1 .. n + 1, NEW j \in 1 .. n + 1, new[i].of = new[j].of
               PROVE  i = j
    BY <1>1 DEF NoRepeat
  <2>1. CASE i = n + 1 \/ j = n + 1
    BY <1>1, <2>1 DEF Holds
  <2>2. CASE i # n + 1 /\ j # n + 1
    BY <1>1, <2>2 DEF NoRepeat
  <2> QED
    BY <2>1, <2>2
<1>3. OnePrimary(new)
  <2> SUFFICES ASSUME NEW i \in 1 .. n + 1, NEW j \in 1 .. n + 1,
                      new[i].primary, new[j].primary
               PROVE  i = j
    BY <1>1 DEF OnePrimary
  <2>1. CASE HasPrimary(list)
    BY <1>1, <2>1 DEF OnePrimary
  <2>2. CASE ~HasPrimary(list)
    BY <1>1, <2>2 DEF HasPrimary
  <2> QED
    BY <2>1, <2>2
<1>4. HasPrimary(new)
  <2>1. CASE HasPrimary(list)
    BY <1>1, <2>1 DEF HasPrimary
  <2>2. CASE ~HasPrimary(list)
    <3>1. new[n + 1].primary
      BY <1>1, <2>2
    <3> QED
      BY <1>1, <3>1 DEF HasPrimary
  <2> QED
    BY <2>1, <2>2
<1>5. Holds(new, d)
  <2>1. n + 1 \in 1 .. Len(new) /\ new[n + 1].of = d
    BY <1>1
  <2> QED
    BY <2>1 DEF Holds
<1> QED
  BY <1>2, <1>3, <1>4, <1>5 DEF new

\* A list holds what its beginning held.
LEMMA HoldsAfter ==
  ASSUME NEW list, NEW longer, NEW d,
         Len(list) \in Nat, Len(longer) \in Nat, Len(list) <= Len(longer),
         \A i \in 1 .. Len(list) : longer[i] = list[i],
         Holds(list, d)
  PROVE  Holds(longer, d)
BY DEF Holds

-----------------------------------------------------------------------------
\* What the holder of the lock is about to commit was made from the row as it
\* is committed now.
Staged ==
  /\ \A w \in Writers : at[w] = "writing" <=> lock = <<w>>
  /\ \A s \in Statements :
       lock = <<s>> => ~Holds(chains, DeploymentOf[s]) /\ dirty = WithEntry(chains, DeploymentOf[s])
  /\ \A t \in Others : lock = <<t>> => chains = <<>> /\ dirty \in Seeds

IInv == TypeOK /\ Staged /\ OneOfEach /\ RecordedWhenDone

Prefix ==
  /\ Len(chains) <= Len(chains')
  /\ \A i \in 1 .. Len(chains) : chains'[i] = chains[i]

LEMMA InitIInv == SCInit => IInv
<1> SUFFICES ASSUME SCInit PROVE IInv
  OBVIOUS
<1> USE DEF SCInit, Init
<1>1. TypeOK
  BY DEF TypeOK
<1>2. Staged
  <2>1. \A w : <<>> # <<w>>
    OBVIOUS
  <2> QED
    BY <2>1 DEF Staged, Writers
<1>3. OneOfEach
  BY DEF OneOfEach, OnePrimary, NoRepeat
<1>4. RecordedWhenDone
  BY DEF RecordedWhenDone, Writers
<1> QED
  BY <1>1, <1>2, <1>3, <1>4 DEF IInv

-----------------------------------------------------------------------------
\* A commit replaces the row by one that extends it.
LEMMA CommitExtends ==
  ASSUME IInv, NEW w \in Writers, Commit(w)
  PROVE  /\ Prefix /\ chains' \in Seq(Listing)
         /\ OneOfEach'
         /\ w \in Statements => Add(DeploymentOf[w]) /\ Holds(chains', DeploymentOf[w])
         /\ w \in Others => Seed(chains') /\ chains' \in Seeds
<1>1. lock = <<w>> /\ chains' = dirty
  BY DEF IInv, Staged, Commit
<1>2. chains \in Seq(Listing)
  BY DEF IInv, TypeOK
<1>3. CASE w \in Statements
  <2> DEFINE d == DeploymentOf[w]
  <2>1. /\ d \in Deployments /\ ~Holds(chains, d)
        /\ chains' = WithEntry(chains, d)
        /\ w \notin Others
    BY <1>1, <1>3, SupportedChainsAssumption DEF IInv, Staged
  <2>2. OnePrimary(chains) /\ NoRepeat(chains)
    BY DEF IInv, OneOfEach
  <2>3. /\ OnePrimary(chains') /\ NoRepeat(chains')
        /\ HasPrimary(chains') /\ Holds(chains', d)
    BY <1>2, <2>1, <2>2, AppendKeepsOrder
  <2>4. Prefix /\ chains' \in Seq(Listing)
    <3>1. /\ chains' \in Seq(Listing) /\ Len(chains') = Len(chains) + 1
          /\ \A i \in 1 .. Len(chains) : chains'[i] = chains[i]
      BY <1>2, <2>1, Appending, Zenon
    <3> QED
      BY <1>2, <3>1 DEF Prefix
  <2> QED
    BY <1>3, <2>1, <2>3, <2>4 DEF OneOfEach, Add
<1>4. CASE w \in Others
  <2>1. chains = <<>> /\ chains' \in Seeds /\ w \notin Statements
    BY <1>1, <1>4, SupportedChainsAssumption DEF IInv, Staged
  <2>2. chains' \in Seq(Listing) /\ OnePrimary(chains') /\ NoRepeat(chains')
    BY <2>1, ChainListAssumption
  <2> QED
    BY <2>1, <2>2 DEF Prefix, OneOfEach, Seed
<1> QED
  BY <1>3, <1>4 DEF Writers

\* Every other step leaves the committed row alone.
LEMMA OthersKeepRow ==
  ASSUME SCNext, ~\E w \in Writers : Commit(w)
  PROVE  chains' = chains
BY DEF SCNext, Scan, Lock, Stage, Rollback

LEMMA NextStaged ==
  ASSUME IInv, SCNext
  PROVE  TypeOK' /\ Staged' /\ RecordedWhenDone'
<1> USE DEF Writers
<1>0. /\ \A v, w : <<v>> = <<w>> => v = w
      /\ \A w : <<>> # <<w>>
  OBVIOUS
<1>1. ASSUME NEW s \in Statements, Scan(s)
      PROVE  TypeOK' /\ Staged' /\ RecordedWhenDone'
  <2>1. TypeOK'
    BY <1>1 DEF IInv, TypeOK, Scan
  <2>2. Staged'
    BY <1>0, <1>1 DEF IInv, TypeOK, Staged, Scan
  <2>3. RecordedWhenDone'
    BY <1>1 DEF IInv, TypeOK, RecordedWhenDone, Scan
  <2> QED
    BY <2>1, <2>2, <2>3
<1>2. ASSUME NEW s \in Statements, Lock(s)
      PROVE  TypeOK' /\ Staged' /\ RecordedWhenDone'
  <2> DEFINE d == DeploymentOf[s]
  <2>0. /\ d \in Deployments /\ s \notin Others
        /\ chains \in Seq(Listing) /\ WithEntry(chains, d) \in Seq(Listing)
    BY SupportedChainsAssumption, Appending DEF IInv, TypeOK
  <2>1. CASE /\ dirty' \in Rewritten(s)
             /\ lock' = <<s>> /\ at' = [at EXCEPT ![s] = "writing"]
    <3>1. ~Holds(chains, d) /\ dirty' = WithEntry(chains, d)
      BY <2>1 DEF Rewritten
    <3>2. TypeOK'
      BY <1>2, <2>0, <2>1, <3>1 DEF IInv, TypeOK, Lock
    <3>3. Staged'
      BY <1>0, <1>2, <2>0, <2>1, <3>1 DEF IInv, TypeOK, Staged, Lock
    <3>4. RecordedWhenDone'
      BY <1>2, <2>1 DEF IInv, TypeOK, RecordedWhenDone, Lock
    <3> QED
      BY <3>2, <3>3, <3>4
  <2>2. CASE /\ Rewritten(s) = {}
             /\ at' = [at EXCEPT ![s] = "done"]
             /\ UNCHANGED <<lock, dirty>>
    <3>1. Holds(chains, d)
      BY <2>2 DEF Rewritten
    <3>2. TypeOK'
      BY <1>2, <2>2 DEF IInv, TypeOK, Lock
    <3>3. Staged'
      BY <1>0, <1>2, <2>2 DEF IInv, TypeOK, Staged, Lock
    <3>4. RecordedWhenDone'
      BY <1>2, <2>2, <3>1 DEF IInv, TypeOK, RecordedWhenDone, Lock
    <3> QED
      BY <3>2, <3>3, <3>4
  <2> QED
    BY <1>2, <2>1, <2>2 DEF Lock
<1>3. ASSUME NEW t \in Others, Stage(t)
      PROVE  TypeOK' /\ Staged' /\ RecordedWhenDone'
  <2>1. t \notin Statements /\ dirty' \in Seq(Listing)
    BY <1>3, SupportedChainsAssumption, ChainListAssumption DEF Stage
  <2>2. TypeOK'
    BY <1>3, <2>1 DEF IInv, TypeOK, Stage
  <2>3. Staged'
    BY <1>0, <1>3, <2>1 DEF IInv, TypeOK, Staged, Stage
  <2>4. RecordedWhenDone'
    BY <1>3, <2>1 DEF IInv, TypeOK, RecordedWhenDone, Stage
  <2> QED
    BY <2>2, <2>3, <2>4
<1>4. ASSUME NEW w \in Writers, Commit(w)
      PROVE  TypeOK' /\ Staged' /\ RecordedWhenDone'
  <2>1. /\ Prefix /\ chains' \in Seq(Listing) /\ chains \in Seq(Listing)
        /\ w \in Statements => Holds(chains', DeploymentOf[w])
    BY <1>4, CommitExtends DEF IInv, TypeOK
  <2>2. TypeOK'
    BY <1>4, <2>1 DEF IInv, TypeOK, Commit
  <2>3. Staged'
    BY <1>0, <1>4 DEF IInv, TypeOK, Staged, Commit
  <2>4. \A s \in Statements : Holds(chains, DeploymentOf[s]) => Holds(chains', DeploymentOf[s])
    BY <2>1, HoldsAfter DEF Prefix
  <2>5. RecordedWhenDone'
    BY <1>4, <2>1, <2>4 DEF IInv, TypeOK, RecordedWhenDone, Commit
  <2> QED
    BY <2>2, <2>3, <2>5
<1>5. ASSUME NEW w \in Writers, Rollback(w)
      PROVE  TypeOK' /\ Staged' /\ RecordedWhenDone'
  <2>1. TypeOK'
    BY <1>5 DEF IInv, TypeOK, Rollback
  <2>2. Staged'
    BY <1>0, <1>5 DEF IInv, TypeOK, Staged, Rollback
  <2>3. RecordedWhenDone'
    BY <1>5 DEF IInv, TypeOK, RecordedWhenDone, Rollback
  <2> QED
    BY <2>1, <2>2, <2>3
<1> QED
  BY <1>1, <1>2, <1>3, <1>4, <1>5 DEF SCNext

LEMMA NextIInv == IInv /\ [SCNext]_vars => IInv'
<1> SUFFICES ASSUME IInv, [SCNext]_vars PROVE IInv'
  OBVIOUS
<1>1. CASE SCNext
  <2>1. OneOfEach'
    <3>1. CASE \E w \in Writers : Commit(w)
      BY <3>1, CommitExtends
    <3>2. CASE ~\E w \in Writers : Commit(w)
      BY <1>1, <3>2, OthersKeepRow DEF IInv, OneOfEach
    <3> QED
      BY <3>1, <3>2
  <2> QED
    BY <1>1, <2>1, NextStaged DEF IInv
<1>2. CASE UNCHANGED vars
  BY <1>2 DEF vars, IInv, TypeOK, Staged, OneOfEach, RecordedWhenDone, Writers
<1> QED
  BY <1>1, <1>2

LEMMA Invariant == SCSpec => []IInv
  BY InitIInv, NextIInv, PTL DEF SCSpec

\* A step of the table is a step of ChainList or leaves the list alone.
LEMMA StepExtends == IInv /\ [SCNext]_vars => [Next]_chains /\ Prefix
<1> SUFFICES ASSUME IInv, [SCNext]_vars PROVE [Next]_chains /\ Prefix
  OBVIOUS
<1>1. CASE \E w \in Writers : Commit(w)
  <2>1. PICK w \in Writers : Commit(w)
    BY <1>1
  <2>2. CASE w \in Statements
    BY <2>1, <2>2, CommitExtends, SupportedChainsAssumption DEF Next
  <2>3. CASE w \in Others
    BY <2>1, <2>3, CommitExtends DEF Next
  <2> QED
    BY <2>1, <2>2, <2>3, CommitExtends DEF Writers
<1>2. CASE ~\E w \in Writers : Commit(w)
  <2>1. chains' = chains
    BY <1>2, OthersKeepRow DEF vars
  <2> QED
    BY <2>1 DEF Prefix, IInv, TypeOK
<1> QED
  BY <1>1, <1>2

-----------------------------------------------------------------------------
(***************************************************************************)
(* The row, its uncommitted copy and the lock keep their types.             *)
(***************************************************************************)
THEOREM ChainsTypeCorrect == SCSpec => []TypeOK
  BY Invariant, PTL DEF IInv

(***************************************************************************)
(* One primary chain and one entry per deployment, however many statements  *)
(* race (op_repository.rs:290-309).                                         *)
(***************************************************************************)
THEOREM ChainsWellFormed == SCSpec => []OneOfEach
  BY Invariant, PTL DEF IInv

(***************************************************************************)
(* A call that returned has recorded its deployment.                        *)
(***************************************************************************)
THEOREM CallsRecord == SCSpec => []RecordedWhenDone
  BY Invariant, PTL DEF IInv

(***************************************************************************)
(* No entry is lost or rewritten.                                           *)
(***************************************************************************)
THEOREM NothingLost == SCSpec => OnlyGrows
<1>1. IInv /\ [SCNext]_vars => [Prefix]_vars
  BY StepExtends
<1> QED
  BY <1>1, Invariant, PTL DEF SCSpec, OnlyGrows, Prefix

(***************************************************************************)
(* The column under row locks implements the atomic list.                   *)
(***************************************************************************)
THEOREM ImplementsList == SCSpec => ActsAtomically
<1>1. SCInit => Init
  BY DEF SCInit
<1>2. IInv /\ [SCNext]_vars => [Next]_chains
  BY StepExtends
<1> QED
  BY <1>1, <1>2, Invariant, PTL DEF SCSpec, ActsAtomically, Spec

-----------------------------------------------------------------------------
(***************************************************************************)
(* Sums over the rows.                                                      *)
(***************************************************************************)
\* A non-empty family of finite sets has a minimal member, ...
LEMMA MinimalSubset ==
  ASSUME NEW S, IsFiniteSet(S), NEW F \in SUBSET SUBSET S, F # {}
  PROVE  \E T \in F : \A U \in F : U \subseteq T => U = T
<1>1. IsWellFoundedOn(StrictSubsetOrdering(S), SUBSET S)
  BY FS_StrictSubsetOrderingWellFounded, FS_FiniteSubsetsOfFinite
<1>2. PICK T \in F : \A U \in F : ~(<<U, T>> \in StrictSubsetOrdering(S))
  <2> HIDE DEF StrictSubsetOrdering
  <2> QED
    BY <1>1, WFMin
<1> QED
  BY <1>2 DEF StrictSubsetOrdering

\* ... and a non-empty set of naturals a least element.
LEMMA LeastNatural ==
  ASSUME NEW N \in SUBSET Nat, N # {}
  PROVE  \E n \in N : \A m \in N : n <= m
<1>1. PICK n \in N : \A m \in N : ~(<<m, n>> \in OpToRel(<, Nat))
  <2>1. IsWellFoundedOn(OpToRel(<, Nat), Nat)
    BY NatLessThanWellFounded
  <2> HIDE DEF OpToRel
  <2> DEFINE R == OpToRel(<, Nat)
  <2> HIDE DEF R
  <2> QED
    BY <2>1, WFMin DEF R
<1>2. \A m \in N : ~(m < n)
  BY <1>1 DEF OpToRel
<1> QED
  BY <1>2

\* The recursion that Sum stands for: Iter(field, S) is defined on the subsets of
\* S, each of which adds the element that CHOOSE takes from it to the rest.
Taken(s) == CHOOSE x \in s : TRUE
AddUp(field, g, s) == IF s = {} THEN 0 ELSE Taken(s)[field] + g[s \ {Taken(s)}]
Iter(field, S) == CHOOSE g : g = [s \in SUBSET S |-> AddUp(field, g, s)]

LEMMA TakenIs ==
  ASSUME NEW S, IsFiniteSet(S), NEW s \in SUBSET S
  PROVE  /\ IsFiniteSet(s) /\ Cardinality(s) \in Nat /\ Cardinality(s) <= Cardinality(S)
         /\ s # {} => /\ Taken(s) \in s /\ s \ {Taken(s)} \in SUBSET S
                      /\ Cardinality(s \ {Taken(s)}) = Cardinality(s) - 1
<1>1. IsFiniteSet(s) /\ Cardinality(s) \in Nat /\ Cardinality(s) <= Cardinality(S)
  BY FS_Subset, FS_CardinalityType
<1>2. s # {} => Taken(s) \in s
  BY DEF Taken
<1> QED
  BY <1>1, <1>2, FS_RemoveElement

LEMMA SumIsIter == ASSUME NEW field, NEW S PROVE Sum(field, S) = Iter(field, S)[S]
BY DEF Sum, MapThenSumSet, MapThenFoldSet, Iter, AddUp, Taken

\* The recursion has a solution, ...
LEMMA IterSolves ==
  ASSUME NEW field, NEW S, IsFiniteSet(S)
  PROVE  \A s \in SUBSET S : Iter(field, S)[s] = AddUp(field, Iter(field, S), s)
<1> DEFINE Upto(n) == {s \in SUBSET S : Cardinality(s) <= n}
           Solved(n) == \E g : g = [s \in Upto(n) |-> AddUp(field, g, s)]
<1>1. ASSUME NEW n \in Nat, Solved(n) PROVE Solved(n + 1)
  <2>1. PICK g : g = [s \in Upto(n) |-> AddUp(field, g, s)]
    BY <1>1
  <2> DEFINE h == [s \in Upto(n + 1) |-> AddUp(field, g, s)]
  <2>2. ASSUME NEW s \in Upto(n + 1), s # {} PROVE h[s \ {Taken(s)}] = g[s \ {Taken(s)}]
    <3>1. s \ {Taken(s)} \in Upto(n) /\ s \ {Taken(s)} \in Upto(n + 1)
      BY <2>2, TakenIs
    <3> HIDE DEF Upto
    <3>2. g[s \ {Taken(s)}] = AddUp(field, g, s \ {Taken(s)})
      BY <2>1, <3>1
    <3> QED
      BY <3>1, <3>2
  <2> HIDE DEF Upto
  <2>3. h = [s \in Upto(n + 1) |-> AddUp(field, g, s)]
    OBVIOUS
  <2> HIDE DEF h
  <2>4. \A s \in Upto(n + 1) : AddUp(field, h, s) = AddUp(field, g, s)
    BY <2>2 DEF AddUp
  <2>5. h = [s \in Upto(n + 1) |-> AddUp(field, h, s)]
    BY <2>3, <2>4
  <2> QED
    BY <2>5
<1>2. Solved(0)
  <2>1. \A s \in Upto(0) : s = {}
    <3> SUFFICES ASSUME NEW s \in SUBSET S, Cardinality(s) <= 0 PROVE s = {}
      OBVIOUS
    <3>1. IsFiniteSet(s) /\ Cardinality(s) \in Nat
      BY TakenIs
    <3> QED
      BY <3>1, FS_EmptySet
  <2> HIDE DEF Upto
  <2>2. [s \in Upto(0) |-> 0] = [s \in Upto(0) |-> AddUp(field, [t \in Upto(0) |-> 0], s)]
    BY <2>1 DEF AddUp
  <2> QED
    BY <2>2
<1>3. \A n \in Nat : Solved(n)
  <2> HIDE DEF Solved
  <2> DEFINE N == {n \in Nat : ~Solved(n)}
  <2> SUFFICES ASSUME N # {} PROVE FALSE
    OBVIOUS
  <2>1. PICK n \in N : \A m \in N : n <= m
    BY LeastNatural
  <2>2. n - 1 \in Nat /\ ~(n <= n - 1) /\ n = (n - 1) + 1
    BY <1>2, <2>1
  <2> QED
    BY <1>1, <2>1, <2>2
<1>4. Cardinality(S) \in Nat /\ Upto(Cardinality(S)) = SUBSET S
  BY TakenIs
<1>5. \E g : g = [s \in SUBSET S |-> AddUp(field, g, s)]
  BY <1>3, <1>4
<1>6. Iter(field, S) = [s \in SUBSET S |-> AddUp(field, Iter(field, S), s)]
  BY <1>5 DEF Iter
<1> QED
  BY <1>6

\* ... and the same one, whichever set it is started from.
LEMMA IterAgrees ==
  ASSUME NEW field, NEW S, IsFiniteSet(S), NEW T \in SUBSET S
  PROVE  Iter(field, S)[T] = Sum(field, T)
<1> DEFINE g == Iter(field, S)
           h == Iter(field, T)
           F == {s \in SUBSET T : g[s] # h[s]}
<1>1. IsFiniteSet(T)
  BY FS_Subset
<1>2. /\ \A s \in SUBSET S : g[s] = AddUp(field, g, s)
      /\ \A s \in SUBSET T : h[s] = AddUp(field, h, s)
  <2>1. \A s \in SUBSET S : g[s] = AddUp(field, g, s)
    BY IterSolves
  <2>2. \A s \in SUBSET T : h[s] = AddUp(field, h, s)
    BY <1>1, IterSolves
  <2> QED
    BY <2>1, <2>2
<1> HIDE DEF g, h
<1>3. F = {}
  <2> SUFFICES ASSUME F # {} PROVE FALSE
    OBVIOUS
  <2>1. PICK s \in F : \A U \in F : U \subseteq s => U = s
    <3>1. F \in SUBSET SUBSET T
      OBVIOUS
    <3> HIDE DEF F
    <3>2. \E s \in F : \A U \in F : U \subseteq s => U = s
      BY ONLY <1>1, <3>1, F # {}, MinimalSubset
    <3> QED
      BY <3>2
  <2>2. g[s] = AddUp(field, g, s) /\ h[s] = AddUp(field, h, s)
    BY <1>2, <2>1
  <2>3. s # {} => g[s \ {Taken(s)}] = h[s \ {Taken(s)}]
    <3>1. s # {} => Taken(s) \in s /\ s \ {Taken(s)} # s
      BY DEF Taken
    <3> QED
      BY <2>1, <3>1
  <2> QED
    BY <2>1, <2>2, <2>3 DEF AddUp
<1>4. g[T] = h[T]
  BY <1>3
<1> QED
  BY <1>4, SumIsIter DEF g, h

LEMMA SumOfNone == ASSUME NEW field PROVE Sum(field, {}) = 0
<1>1. IsFiniteSet({})
  BY FS_EmptySet
<1>2. Iter(field, {})[{}] = AddUp(field, Iter(field, {}), {})
  <2>1. {} \in SUBSET {}
    OBVIOUS
  <2> QED
    BY <1>1, <2>1, IterSolves
<1> QED
  BY <1>2, SumIsIter DEF AddUp

LEMMA SumTakes ==
  ASSUME NEW field, NEW S, IsFiniteSet(S), S # {}
  PROVE  Sum(field, S) = Taken(S)[field] + Sum(field, S \ {Taken(S)})
<1>1. Iter(field, S)[S] = AddUp(field, Iter(field, S), S)
  <2>1. S \in SUBSET S
    OBVIOUS
  <2> QED
    BY <2>1, IterSolves
<1>2. S \ {Taken(S)} \in SUBSET S
  OBVIOUS
<1>3. Iter(field, S)[S \ {Taken(S)}] = Sum(field, S \ {Taken(S)})
  BY <1>2, IterAgrees
<1> QED
  BY <1>1, <1>3, SumIsIter DEF AddUp

\* Sums of naturals are naturals, ...
LEMMA SumIsNat ==
  ASSUME NEW field, NEW S, IsFiniteSet(S), \A r \in S : r[field] \in Nat
  PROVE  Sum(field, S) \in Nat
<1> DEFINE F == {s \in SUBSET S : Sum(field, s) \notin Nat}
<1> SUFFICES ASSUME F # {} PROVE FALSE
  OBVIOUS
<1>1. PICK s \in F : \A U \in F : U \subseteq s => U = s
  <2>1. F \in SUBSET SUBSET S
    OBVIOUS
  <2> HIDE DEF F
  <2>2. \E s \in F : \A U \in F : U \subseteq s => U = s
    BY ONLY <2>1, F # {}, IsFiniteSet(S), MinimalSubset
  <2> QED
    BY <2>2
<1>2. s # {} /\ s \in SUBSET S /\ IsFiniteSet(s)
  <2>1. Sum(field, {}) \in Nat
    BY SumOfNone
  <2>2. s \in SUBSET S /\ Sum(field, s) \notin Nat
    BY <1>1
  <2> QED
    BY <2>1, <2>2, TakenIs
<1>3. Taken(s) \in s /\ s \ {Taken(s)} # s
  BY <1>2, TakenIs
<1>4. Sum(field, s \ {Taken(s)}) \in Nat
  BY <1>1, <1>3
<1>5. Sum(field, s) = Taken(s)[field] + Sum(field, s \ {Taken(s)})
  BY <1>2, SumTakes
<1> QED
  BY <1>1, <1>2, <1>3, <1>4, <1>5

\* ... and any element may be taken first.
LEMMA SumRemoves ==
  ASSUME NEW field, NEW S, IsFiniteSet(S), \A r \in S : r[field] \in Nat, NEW x \in S
  PROVE  Sum(field, S) = x[field] + Sum(field, S \ {x})
<1> DEFINE Removes(s) == \A y \in s : Sum(field, s) = y[field] + Sum(field, s \ {y})
           F == {s \in SUBSET S : ~Removes(s)}
<1>1. F = {}
  <2> SUFFICES ASSUME F # {} PROVE FALSE
    OBVIOUS
  <2>1. PICK s \in F : \A U \in F : U \subseteq s => U = s
    <3>1. F \in SUBSET SUBSET S
      OBVIOUS
    <3> HIDE DEF F
    <3>2. \E s \in F : \A U \in F : U \subseteq s => U = s
      BY ONLY <3>1, F # {}, IsFiniteSet(S), MinimalSubset
    <3> QED
      BY <3>2
  <2>2. PICK y \in s : Sum(field, s) # y[field] + Sum(field, s \ {y})
    BY <2>1
  <2> DEFINE t == Taken(s)
             rest == s \ {t, y}
  <2>3. IsFiniteSet(s) /\ t \in s /\ s \in SUBSET S
    BY <2>1, <2>2, TakenIs
  <2>4. Sum(field, s) = t[field] + Sum(field, s \ {t})
    BY <2>2, <2>3, SumTakes
  <2>5. t # y
    BY <2>2, <2>4
  <2> HIDE DEF t
  <2>6. Removes(s \ {t}) /\ Removes(s \ {y})
    <3>1. s \ {t} # s /\ s \ {y} # s /\ s \ {t} \in SUBSET S /\ s \ {y} \in SUBSET S
      BY <2>2, <2>3
    <3> HIDE DEF Removes
    <3> QED
      BY <2>1, <3>1
  <2>7. y \in s \ {t} /\ (s \ {t}) \ {y} = rest /\ t \in s \ {y} /\ (s \ {y}) \ {t} = rest
    BY <2>2, <2>3, <2>5
  <2>8. /\ Sum(field, s \ {t}) = y[field] + Sum(field, rest)
        /\ Sum(field, s \ {y}) = t[field] + Sum(field, rest)
    BY <2>6, <2>7
  <2>9. t[field] \in Nat /\ y[field] \in Nat /\ Sum(field, rest) \in Nat
    <3>1. IsFiniteSet(rest) /\ rest \in SUBSET S
      BY <2>3, FS_Subset
    <3> HIDE DEF rest
    <3> QED
      BY <2>2, <2>3, <3>1, SumIsNat
  <2> HIDE DEF rest
  <2> QED
    BY <2>2, <2>4, <2>8, <2>9
<1> QED
  BY <1>1

LEMMA SumOfOne ==
  ASSUME NEW field, NEW x, x[field] \in Nat
  PROVE  Sum(field, {x}) = x[field]
<1>1. IsFiniteSet({x}) /\ \A r \in {x} : r[field] \in Nat
  BY FS_Singleton
<1>2. Sum(field, {x}) = x[field] + Sum(field, {x} \ {x})
  BY <1>1, SumRemoves
<1>3. {x} \ {x} = {}
  OBVIOUS
<1> QED
  BY <1>2, <1>3, SumOfNone

LEMMA SumGrows ==
  ASSUME NEW field, NEW S, IsFiniteSet(S), \A r \in S : r[field] \in Nat,
         NEW x, x \notin S, x[field] \in Nat
  PROVE  Sum(field, S \cup {x}) = Sum(field, S) + x[field]
<1>1. IsFiniteSet(S \cup {x})
  BY FS_AddElement
<1>2. Sum(field, S \cup {x}) = x[field] + Sum(field, (S \cup {x}) \ {x})
  BY <1>1, SumRemoves
<1>3. (S \cup {x}) \ {x} = S
  OBVIOUS
<1> QED
  BY <1>2, <1>3, SumIsNat

-----------------------------------------------------------------------------
(***************************************************************************)
(* A transaction and its rows.                                              *)
(***************************************************************************)
Insert(old, raw) == Stored(old, RowsOf(raw))
InsertAll(old, raws) == FoldLeft(LAMBDA stored, raw : Stored(stored, RowsOf(raw)), old, raws)

\* FoldLeft, over the one or two events of a transaction.
LEMMA FoldOne ==
  ASSUME NEW base, NEW a
  PROVE  InsertAll(base, <<a>>) = Insert(base, a)
<1> DEFINE Step(g, s) == IF s = {} THEN base ELSE Insert(g[s \ {Max(s)}], <<a>>[Max(s)])
           iter == CHOOSE g : g = [s \in SUBSET {1} |-> Step(g, s)]
           sol == [s \in SUBSET {1} |-> IF s = {} THEN base ELSE Insert(base, a)]
<1>1. InsertAll(base, <<a>>) = iter[{1}]
  <2>1. DOMAIN <<a>> = {1}
    OBVIOUS
  <2> QED
    BY <2>1 DEF InsertAll, FoldLeft, MapThenFoldSet, Insert
<1>2. Max({1}) = 1
  BY DEF Max
<1>3. sol = [s \in SUBSET {1} |-> Step(sol, s)]
  <2>1. ASSUME NEW s \in SUBSET {1} PROVE sol[s] = Step(sol, s)
    <3>1. s = {} \/ s = {1}
      OBVIOUS
    <3>2. {1} \ {1} = {} /\ <<a>>[1] = a
      OBVIOUS
    <3> QED
      BY <1>2, <3>1, <3>2
  <2> HIDE DEF Step
  <2> QED
    BY <2>1
<1>4. iter = [s \in SUBSET {1} |-> Step(iter, s)]
  BY <1>3
<1> HIDE DEF iter
<1>5. iter[{}] = base
  BY <1>4
<1>6. iter[{1}] = Insert(iter[{}], a)
  BY <1>2, <1>4
<1> QED
  BY <1>1, <1>5, <1>6

LEMMA FoldTwo ==
  ASSUME NEW base, NEW a, NEW b
  PROVE  InsertAll(base, <<a, b>>) = Insert(Insert(base, a), b)
<1> DEFINE Step(g, s) == IF s = {} THEN base ELSE Insert(g[s \ {Max(s)}], <<a, b>>[Max(s)])
           iter == CHOOSE g : g = [s \in SUBSET {1, 2} |-> Step(g, s)]
           sol == [s \in SUBSET {1, 2} |->
                     IF s = {} THEN base
                     ELSE IF s = {1} THEN Insert(base, a)
                     ELSE IF s = {2} THEN Insert(base, b)
                     ELSE Insert(Insert(base, a), b)]
<1>1. InsertAll(base, <<a, b>>) = iter[{1, 2}]
  <2>1. DOMAIN <<a, b>> = {1, 2}
    OBVIOUS
  <2> QED
    BY <2>1 DEF InsertAll, FoldLeft, MapThenFoldSet, Insert
<1>2. Max({1}) = 1 /\ Max({2}) = 2 /\ Max({1, 2}) = 2
  BY DEF Max
<1>3. sol = [s \in SUBSET {1, 2} |-> Step(sol, s)]
  <2>1. ASSUME NEW s \in SUBSET {1, 2} PROVE sol[s] = Step(sol, s)
    <3>1. s = {} \/ s = {1} \/ s = {2} \/ s = {1, 2}
      OBVIOUS
    <3>2. /\ {1} \ {1} = {} /\ {2} \ {2} = {} /\ {1, 2} \ {2} = {1}
          /\ <<a, b>>[1] = a /\ <<a, b>>[2] = b
          /\ {1} # {2} /\ {1, 2} # {1} /\ {1, 2} # {2} /\ {1} # {} /\ {2} # {} /\ {1, 2} # {}
      OBVIOUS
    <3> HIDE DEF Insert
    <3> QED
      BY <1>2, <3>1, <3>2
  <2> HIDE DEF Step
  <2> QED
    BY <2>1
<1>4. iter = [s \in SUBSET {1, 2} |-> Step(iter, s)]
  BY <1>3
<1> HIDE DEF iter
<1>5. iter[{}] = base
  BY <1>4
<1>6. iter[{1}] = Insert(iter[{}], a)
  <2>1. {1} \ {1} = {} /\ {1} # {} /\ <<a, b>>[1] = a /\ {1} \in SUBSET {1, 2}
    OBVIOUS
  <2> HIDE DEF Step
  <2>2. iter[{1}] = Step(iter, {1})
    BY <1>4, <2>1
  <2> USE DEF Step
  <2> QED
    BY <1>2, <2>1, <2>2
<1>7. iter[{1, 2}] = Insert(iter[{1}], b)
  <2>1. {1, 2} \ {2} = {1} /\ {1, 2} # {} /\ <<a, b>>[2] = b
    OBVIOUS
  <2> QED
    BY <1>2, <1>4, <2>1
<1> QED
  BY <1>1, <1>5, <1>6, <1>7

-----------------------------------------------------------------------------
\* The rows stored so far are of earlier transactions.
Earlier == \A r \in rows : r.hash[1] \in Nat /\ r.hash[1] < txs

ACInv == ACTypeOK /\ IsFiniteSet(rows) /\ Earlier

\* What a transaction with the rows N does to the tables.
Adds(N) ==
  /\ txs < MaxEvents /\ txs' = txs + 1
  /\ rows' = rows \cup N /\ rows \cap N = {}
  /\ holdings' = [u \in Users |->
       holdings[u] + Sum("quantity", {r \in N : Custodial(r) /\ r.user = u})]

LEMMA StoredNone == ASSUME NEW old PROVE Stored(old, {}) = old
<1>1. {r.hash : r \in {}} = {}
  OBVIOUS
<1> QED
  BY <1>1 DEF Stored

LEMMA StoredOne ==
  ASSUME NEW old, NEW r, r.hash \notin {q.hash : q \in old}
  PROVE  Stored(old, {r}) = old \cup {r}
<1>1. {q.hash : q \in {r}} = {r.hash}
  OBVIOUS
<1>2. Cardinality({r.hash}) = 1 /\ Cardinality({r}) = 1
  BY FS_Singleton
<1> QED
  BY <1>1, <1>2 DEF Stored

LEMMA StoredTwo ==
  ASSUME NEW old, NEW r, NEW q, r.hash # q.hash,
         r.hash \notin {p.hash : p \in old}, q.hash \notin {p.hash : p \in old}
  PROVE  Stored(old, {r, q}) = old \cup {r, q}
<1>1. {p.hash : p \in {r, q}} = {r.hash, q.hash} /\ r # q
  OBVIOUS
<1>2. Cardinality({r.hash, q.hash}) = 2 /\ Cardinality({r, q}) = 2
  <2>1. ASSUME NEW x, NEW y, x # y PROVE Cardinality({x, y}) = 2
    <3>1. {x, y} = {x} \cup {y} /\ y \notin {x}
      BY <2>1
    <3>2. IsFiniteSet({x}) /\ Cardinality({x}) = 1
      BY FS_Singleton
    <3>3. Cardinality({x} \cup {y}) = Cardinality({x}) + 1
      BY <3>1, <3>2, FS_AddElement
    <3> QED
      BY <3>1, <3>2, <3>3
  <2> QED
    BY <1>1, <2>1
<1> QED
  BY <1>1, <1>2 DEF Stored

\* A row of this transaction is new.
LEMMA NewHash ==
  ASSUME ACInv, NEW r, r.hash[1] = txs
  PROVE  r.hash \notin {q.hash : q \in rows} /\ r \notin rows
BY DEF ACInv, Earlier, ACTypeOK

LEMMA EmitIs ==
  ASSUME ACInv, NEW raws, Emit(raws), NEW N,
         InsertAll(rows, raws) = rows \cup N,
         \A r \in N : r.hash[1] = txs
  PROVE  Adds(N)
<1>1. rows' = rows \cup N /\ rows \cap N = {}
  BY NewHash DEF Emit, Process, InsertAll
<1>2. rows' \ rows = N
  BY <1>1
<1> QED
  BY <1>1, <1>2 DEF Emit, Process, Adds

LEMMA EmitNone ==
  ASSUME ACInv, NEW raw, Emit(<<raw>>), RowsOf(raw) = {}
  PROVE  Adds({})
<1>1. InsertAll(rows, <<raw>>) = rows \cup {}
  BY FoldOne, StoredNone DEF Insert
<1> QED
  BY <1>1, EmitIs

LEMMA EmitOne ==
  ASSUME ACInv, NEW raw, Emit(<<raw>>), NEW r, RowsOf(raw) = {r}, r.hash[1] = txs
  PROVE  Adds({r})
<1>1. InsertAll(rows, <<raw>>) = rows \cup {r}
  <2>1. Stored(rows, {r}) = rows \cup {r}
    BY StoredOne, NewHash
  <2> QED
    BY <2>1, FoldOne DEF Insert
<1> QED
  BY <1>1, EmitIs

LEMMA EmitTwo ==
  ASSUME ACInv, NEW raw, Emit(<<raw>>), NEW r, NEW q, RowsOf(raw) = {r, q},
         r.hash # q.hash, r.hash[1] = txs, q.hash[1] = txs
  PROVE  Adds({r, q})
<1>1. InsertAll(rows, <<raw>>) = rows \cup {r, q}
  <2>1. Stored(rows, {r, q}) = rows \cup {r, q}
    BY StoredTwo, NewHash
  <2> QED
    BY <2>1, FoldOne DEF Insert
<1>2. \A p \in {r, q} : p.hash[1] = txs
  OBVIOUS
<1> QED
  BY <1>1, <1>2, EmitIs

-----------------------------------------------------------------------------
(***************************************************************************)
(* The rows of each kind of event.                                          *)
(***************************************************************************)
NewRow(type, suffix, user, usdc, quantity, holder) ==
  [type |-> type, hash |-> <<txs, 0, suffix>>, user |-> user,
   usdc |-> usdc, quantity |-> quantity, holder |-> holder]

LEMMA FieldsAre ==
  /\ FieldsOf("invested") = {"usdc", "shares"} /\ FieldsOf("refunded") = {"usdc", "shares"}
  /\ FieldsOf("funding_withdrawn") = {"usdc"} /\ FieldsOf("claimed_rewards") = {"usdc"}
  /\ FieldsOf("rewards_distributed") = {"usdc"}
  /\ FieldsOf("op_created") = {"shares"} /\ FieldsOf("invested_fiat") = {"shares"}
  /\ FieldsOf("op_lend_transfered") = {"amount"} /\ FieldsOf("claimed_op_token") = {"amount"}
  /\ FieldsOf("op_started") = {}
BY DEF FieldsOf

LEMMA TopicsAre ==
  /\ TopicsOf["invested"] = <<"address", "op">> /\ TopicsOf["refunded"] = <<"address", "op">>
  /\ TopicsOf["funding_withdrawn"] = <<"op">> /\ TopicsOf["claimed_rewards"] = <<"op", "address">>
  /\ TopicsOf["rewards_distributed"] = <<"op", "u32">>
  /\ TopicsOf["op_created"] = <<"address", "op">>
  /\ TopicsOf["invested_fiat"] = <<"address", "address", "op">>
  /\ TopicsOf["op_lend_transfered"] = <<"address", "address">>
  /\ TopicsOf["claimed_op_token"] = <<"address", "op">>
  /\ TopicsOf["op_started"] = <<"op">>
  /\ {"invested", "refunded", "funding_withdrawn", "claimed_rewards", "rewards_distributed",
      "op_created", "invested_fiat", "op_lend_transfered", "claimed_op_token", "op_started"}
       \subseteq DOMAIN TopicsOf
  /\ "gifted" \notin DOMAIN TopicsOf
BY DEF TopicsOf

LEMMA ClaimAdds ==
  ASSUME ACInv, NEW u \in Users, Claim(u)
  PROVE  Adds({NewRow("claimed_op_token", "claimed_op_token", u, 0, 1, NoOne)})
<1> DEFINE raw == Raw(0, Factory, "claimed_op_token", <<Address(u), Number>>, [amount |-> 1])
           row == NewRow("claimed_op_token", "claimed_op_token", u, 0, 1, NoOne)
           echo == TransferRaw(1, Factory, u)
<1>1. RowsOf(raw) = {row}
  <2>1. Decodes(raw)
    <3>1. /\ raw.kind = "claimed_op_token" /\ raw.data = [amount |-> 1]
          /\ raw.topics = <<Address(u), Number>>
      BY DEF Raw
    <3>2. TopicsOf["claimed_op_token"] = <<"address", "op">>
      BY TopicsAre
    <3> HIDE DEF raw
    <3> QED
      BY <3>1, <3>2, TopicsAre, FieldsAre DEF Decodes, Address, Number
  <2>2. StoredUsdc(raw) = 0 /\ Quantity(raw) = 1 /\ UserOf(raw) = u
    BY FieldsAre DEF StoredUsdc, Quantity, UserOf, Party, Raw, Address
  <2> QED
    BY <2>1, <2>2 DEF RowsOf, Row, NewRow, Raw
<1>2. RowsOf(echo) = {}
  BY DEF RowsOf, TransferRaw, Raw, Ignored, Party, Address
<1>3. row.hash[1] = txs
  BY DEF NewRow
<1> HIDE DEF raw, row, echo
<1>4. Insert(Insert(rows, raw), echo) = rows \cup {row}
  BY <1>1, <1>2, <1>3, StoredOne, StoredNone, NewHash DEF Insert
<1>5. InsertAll(rows, <<raw, echo>>) = rows \cup {row}
  BY <1>4, FoldTwo
<1>6. Emit(<<raw, echo>>)
  BY DEF Claim, raw, echo
<1>7. Adds({row})
  BY <1>3, <1>5, <1>6, EmitIs
<1> QED
  BY <1>7 DEF row

\* One topic, two topics and data that decode.
LEMMA DecodesTwo ==
  ASSUME NEW raw, NEW s, NEW t, NEW a, NEW b, raw.kind \in DOMAIN TopicsOf,
         raw.topics = <<s, t>>, TopicsOf[raw.kind] = <<a, b>>,
         s.type = (IF a = "address" THEN "address" ELSE "u32"),
         t.type = (IF b = "address" THEN "address" ELSE "u32"),
         FieldsOf(raw.kind) \subseteq DOMAIN raw.data
  PROVE  Decodes(raw)
BY DEF Decodes

LEMMA DecodesFirst ==
  ASSUME NEW raw, NEW s, NEW rest, raw.kind \in DOMAIN TopicsOf,
         raw.topics = <<s>> \/ raw.topics = <<s, rest>>, TopicsOf[raw.kind] = <<"op">>,
         s.type = "u32", FieldsOf(raw.kind) \subseteq DOMAIN raw.data
  PROVE  Decodes(raw)
<1>1. Len(raw.topics) >= 1 /\ raw.topics[1] = s
  <2>1. CASE raw.topics = <<s>>
    BY <2>1
  <2>2. CASE raw.topics = <<s, rest>>
    BY <2>2
  <2> QED
    BY <2>1, <2>2
<1>2. Len(TopicsOf[raw.kind]) = 1 /\ DOMAIN TopicsOf[raw.kind] = {1} /\ TopicsOf[raw.kind][1] = "op"
  OBVIOUS
<1>3. \A i \in DOMAIN TopicsOf[raw.kind] :
        raw.topics[i].type = IF TopicsOf[raw.kind][i] = "address" THEN "address" ELSE "u32"
  BY <1>1, <1>2
<1> QED
  BY <1>1, <1>2, <1>3 DEF Decodes

LEMMA TransferAdds ==
  ASSUME ACInv, NEW u \in Users, NEW v \in Users, Transfer(u, v)
  PROVE  Adds({NewRow("op_lend_transfered", "from", u, 0, 1, NoOne),
               NewRow("op_lend_transfered", "to", v, 0, 1, NoOne)})
<1> DEFINE raw == TransferRaw(0, u, v)
           out == NewRow("op_lend_transfered", "from", u, 0, 1, NoOne)
           in == NewRow("op_lend_transfered", "to", v, 0, 1, NoOne)
<1>1. /\ raw.kind = "op_lend_transfered" /\ raw.contract = Token /\ raw.data = [amount |-> 1]
      /\ raw.topics = <<Address(u), Address(v)>> /\ raw.tx = txs /\ raw.index = 0
  BY DEF Raw, TransferRaw
<1>2. Party(raw, 1) = u /\ Party(raw, 2) = v
  BY <1>1 DEF Party, Address
<1> HIDE DEF raw
<1>3. Decodes(raw)
  BY <1>1, DecodesTwo, TopicsAre, FieldsAre DEF Address
<1>4. ~Ignored(raw)
  BY <1>1, <1>2, ActivitiesAssumption DEF Ignored
<1>5. StoredUsdc(raw) = 0 /\ Quantity(raw) = 1
  BY <1>1, FieldsAre DEF StoredUsdc, Quantity
<1>6. RowsOf(raw) = {out, in}
  BY <1>1, <1>2, <1>3, <1>4, <1>5 DEF RowsOf, TransferRows, Row, NewRow
<1>7. Emit(<<raw>>)
  BY DEF Transfer, raw
<1>8. out.hash # in.hash /\ out.hash[1] = txs /\ in.hash[1] = txs
  BY DEF NewRow
<1> HIDE DEF out, in
<1>9. Adds({out, in})
  BY <1>6, <1>7, <1>8, EmitTwo
<1> QED
  BY <1>9 DEF out, in

LEMMA SendBackAdds ==
  ASSUME ACInv, NEW u \in Users, SendBack(u)
  PROVE  Adds({})
<1> DEFINE raw == TransferRaw(0, u, Factory)
<1>1. RowsOf(raw) = {}
  BY DEF RowsOf, TransferRaw, Raw, Ignored, Party, Address
<1>2. Emit(<<raw>>)
  BY DEF SendBack
<1> HIDE DEF raw
<1> QED
  BY <1>1, <1>2, EmitNone

LEMMA TradeAdds ==
  ASSUME ACInv, NEW kind \in {"invested", "refunded"}, NEW u \in Users,
         NEW amount \in UsdcAmounts, Trade(kind, u, amount)
  PROVE  Adds({NewRow(kind, kind, u, usdc_to_db_units(amount), 1, NoOne)})
<1> DEFINE raw == Raw(0, Factory, kind, <<Address(u), Number>>, [usdc |-> amount, shares |-> 1])
           row == NewRow(kind, kind, u, usdc_to_db_units(amount), 1, NoOne)
<1>1. /\ raw.kind = kind /\ raw.data = [usdc |-> amount, shares |-> 1]
      /\ raw.topics = <<Address(u), Number>> /\ raw.tx = txs /\ raw.index = 0
  BY DEF Raw
<1>2. Emit(<<raw>>)
  BY DEF Trade
<1> HIDE DEF raw
<1>3. Decodes(raw)
  BY <1>1, DecodesTwo, TopicsAre, FieldsAre DEF Address, Number
<1>4. UserOf(raw) = u
  BY <1>1 DEF UserOf, Party, Address
<1>5. StoredUsdc(raw) = usdc_to_db_units(amount) /\ Quantity(raw) = 1
  BY <1>1, FieldsAre DEF StoredUsdc, Quantity
<1>6. RowsOf(raw) = {row}
  BY <1>1, <1>3, <1>4, <1>5 DEF RowsOf, Row, NewRow
<1>7. row.hash[1] = txs
  BY DEF NewRow
<1> HIDE DEF row
<1>8. Adds({row})
  BY <1>2, <1>6, <1>7, EmitOne
<1> QED
  BY <1>8 DEF row

LEMMA PayOutAdds ==
  ASSUME ACInv, NEW kind \in {"funding_withdrawn", "rewards_distributed"},
         NEW amount \in UsdcAmounts, PayOut(kind, amount)
  PROVE  Adds({NewRow(kind, kind, NoOne,
                      IF kind = "funding_withdrawn" THEN amount ELSE usdc_to_db_units(amount),
                      0, NoOne)})
<1> DEFINE raw == Raw(0, Factory, kind, <<Number, Number>>, [usdc |-> amount])
           usdc == IF kind = "funding_withdrawn" THEN amount ELSE usdc_to_db_units(amount)
           row == NewRow(kind, kind, NoOne, usdc, 0, NoOne)
<1>1. /\ raw.kind = kind /\ raw.data = [usdc |-> amount]
      /\ raw.topics = <<Number, Number>> /\ raw.tx = txs /\ raw.index = 0
  BY DEF Raw
<1>2. Emit(<<raw>>)
  BY DEF PayOut
<1> HIDE DEF raw
<1>3. Decodes(raw)
  <2>1. CASE kind = "funding_withdrawn"
    BY <1>1, <2>1, DecodesFirst, TopicsAre, FieldsAre DEF Number
  <2>2. CASE kind = "rewards_distributed"
    BY <1>1, <2>2, DecodesTwo, TopicsAre, FieldsAre DEF Number
  <2> QED
    BY <2>1, <2>2
<1>4. UserOf(raw) = NoOne
  BY <1>1 DEF UserOf
<1>5. StoredUsdc(raw) = usdc /\ Quantity(raw) = 0
  BY <1>1, FieldsAre DEF StoredUsdc, Quantity
<1>6. RowsOf(raw) = {row}
  BY <1>1, <1>3, <1>4, <1>5 DEF RowsOf, Row, NewRow
<1>7. row.hash[1] = txs
  BY DEF NewRow
<1> HIDE DEF row
<1>8. Adds({row})
  BY <1>2, <1>6, <1>7, EmitOne
<1> QED
  BY <1>8 DEF row

LEMMA ClaimRewardsAdds ==
  ASSUME ACInv, NEW u \in Users, NEW amount \in UsdcAmounts, ClaimRewards(u, amount)
  PROVE  Adds({NewRow("claimed_rewards", "claimed_rewards", u, usdc_to_db_units(amount), 0, NoOne)})
<1> DEFINE raw == Raw(0, Factory, "claimed_rewards", <<Number, Address(u)>>, [usdc |-> amount])
           row == NewRow("claimed_rewards", "claimed_rewards", u, usdc_to_db_units(amount), 0, NoOne)
<1>1. /\ raw.kind = "claimed_rewards" /\ raw.data = [usdc |-> amount]
      /\ raw.topics = <<Number, Address(u)>> /\ raw.tx = txs /\ raw.index = 0
  BY DEF Raw
<1>2. Emit(<<raw>>)
  BY DEF ClaimRewards
<1> HIDE DEF raw
<1>3. Decodes(raw)
  BY <1>1, DecodesTwo, TopicsAre, FieldsAre DEF Address, Number
<1>4. UserOf(raw) = u
  BY <1>1 DEF UserOf, Party, Address
<1>5. StoredUsdc(raw) = usdc_to_db_units(amount) /\ Quantity(raw) = 0
  BY <1>1, FieldsAre DEF StoredUsdc, Quantity
<1>6. RowsOf(raw) = {row}
  BY <1>1, <1>3, <1>4, <1>5 DEF RowsOf, Row, NewRow
<1>7. row.hash[1] = txs
  BY DEF NewRow
<1> HIDE DEF row
<1>8. Adds({row})
  BY <1>2, <1>6, <1>7, EmitOne
<1> QED
  BY <1>8 DEF row

LEMMA BuyWithFiatAdds ==
  ASSUME ACInv, NEW u \in Users, NEW holder \in Users, BuyWithFiat(u, holder)
  PROVE  Adds({NewRow("invested_fiat", "invested_fiat", u, 0, 1, holder)})
<1> DEFINE raw == Raw(0, Factory, "invested_fiat", <<Address(u), Address(holder), Number>>,
                      [shares |-> 1])
           row == NewRow("invested_fiat", "invested_fiat", u, 0, 1, holder)
<1>1. /\ raw.kind = "invested_fiat" /\ raw.data = [shares |-> 1]
      /\ raw.topics = <<Address(u), Address(holder), Number>> /\ raw.tx = txs /\ raw.index = 0
  BY DEF Raw
<1>2. Emit(<<raw>>)
  BY DEF BuyWithFiat
<1> HIDE DEF raw
<1>3. Decodes(raw)
  <2>1. TopicsOf["invested_fiat"] = <<"address", "address", "op">>
    BY TopicsAre
  <2>2. \A i \in {1, 2, 3} :
          raw.topics[i].type = IF TopicsOf["invested_fiat"][i] = "address" THEN "address" ELSE "u32"
    BY <1>1, <2>1 DEF Address, Number
  <2>3. Len(raw.topics) = 3 /\ DOMAIN TopicsOf["invested_fiat"] = {1, 2, 3}
        /\ Len(TopicsOf["invested_fiat"]) = 3
    BY <1>1, <2>1
  <2>4. "invested_fiat" \in DOMAIN TopicsOf /\ FieldsOf("invested_fiat") \subseteq DOMAIN raw.data
    BY <1>1, TopicsAre, FieldsAre
  <2> QED
    BY <1>1, <2>2, <2>3, <2>4 DEF Decodes
<1>4. UserOf(raw) = u /\ Party(raw, 2) = holder
  BY <1>1 DEF UserOf, Party, Address
<1>5. StoredUsdc(raw) = 0 /\ Quantity(raw) = 1
  BY <1>1, FieldsAre DEF StoredUsdc, Quantity
<1>6. RowsOf(raw) = {row}
  BY <1>1, <1>3, <1>4, <1>5 DEF RowsOf, Row, NewRow
<1>7. row.hash[1] = txs
  BY DEF NewRow
<1> HIDE DEF row
<1>8. Adds({row})
  BY <1>2, <1>6, <1>7, EmitOne
<1> QED
  BY <1>8 DEF row

LEMMA OtherAdds ==
  ASSUME ACInv, Other
  PROVE  \/ Adds({})
         \/ Adds({NewRow("op_started", "op_started", NoOne, 0, 0, NoOne)})
         \/ Adds({NewRow("op_created", "op_created", NoOne, 0, 1, NoOne)})
<1>1. CASE Emit(<<Raw(0, Factory, "op_started", <<Number>>, <<>>)>>)
  <2> DEFINE raw == Raw(0, Factory, "op_started", <<Number>>, <<>>)
             row == NewRow("op_started", "op_started", NoOne, 0, 0, NoOne)
  <2>1. /\ raw.kind = "op_started" /\ raw.data = <<>>
        /\ raw.topics = <<Number>> /\ raw.tx = txs /\ raw.index = 0
    BY DEF Raw
  <2>2. Emit(<<raw>>)
    BY <1>1
  <2> HIDE DEF raw
  <2>3. Decodes(raw)
    <3>1. raw.topics = <<Number>> /\ Number.type = "u32"
      BY <2>1 DEF Number
    <3>2. TopicsOf[raw.kind] = <<"op">> /\ raw.kind \in DOMAIN TopicsOf /\ FieldsOf(raw.kind) = {}
      BY <2>1, TopicsAre, FieldsAre
    <3> QED
      BY <3>1, <3>2, DecodesFirst
  <2>4. UserOf(raw) = NoOne /\ StoredUsdc(raw) = 0 /\ Quantity(raw) = 0
    BY <2>1, FieldsAre DEF UserOf, StoredUsdc, Quantity
  <2>5. RowsOf(raw) = {row} /\ row.hash[1] = txs
    BY <2>1, <2>3, <2>4 DEF RowsOf, Row, NewRow
  <2> HIDE DEF row
  <2>6. Adds({row})
    BY <2>2, <2>5, EmitOne
  <2> QED
    BY <2>6 DEF row
<1>2. CASE Emit(<<Raw(0, Factory, "op_created", <<Address(Token), Number>>, [shares |-> 1])>>)
  <2> DEFINE raw == Raw(0, Factory, "op_created", <<Address(Token), Number>>, [shares |-> 1])
             row == NewRow("op_created", "op_created", NoOne, 0, 1, NoOne)
  <2>1. /\ raw.kind = "op_created" /\ raw.data = [shares |-> 1]
        /\ raw.topics = <<Address(Token), Number>> /\ raw.tx = txs /\ raw.index = 0
    BY DEF Raw
  <2>2. Emit(<<raw>>)
    BY <1>2
  <2> HIDE DEF raw
  <2>3. Decodes(raw)
    BY <2>1, DecodesTwo, TopicsAre, FieldsAre DEF Address, Number
  <2>4. UserOf(raw) = NoOne /\ StoredUsdc(raw) = 0 /\ Quantity(raw) = 1
    BY <2>1, FieldsAre DEF UserOf, StoredUsdc, Quantity
  <2>5. RowsOf(raw) = {row} /\ row.hash[1] = txs
    BY <2>1, <2>3, <2>4 DEF RowsOf, Row, NewRow
  <2> HIDE DEF row
  <2>6. Adds({row})
    BY <2>2, <2>5, EmitOne
  <2> QED
    BY <2>6 DEF row
<1>3. CASE Emit(<<Raw(0, Factory, "gifted", <<Number>>, [usdc |-> 1])>>)
  <2> DEFINE raw == Raw(0, Factory, "gifted", <<Number>>, [usdc |-> 1])
  <2>1. RowsOf(raw) = {}
    BY TopicsAre DEF RowsOf, Decodes, Raw
  <2> HIDE DEF raw
  <2> QED
    BY <1>3, <2>1, EmitNone DEF raw
<1>4. CASE Emit(<<Raw(0, Token, "op_lend_transfered", <<>>, <<>>)>>)
  <2> DEFINE raw == Raw(0, Token, "op_lend_transfered", <<>>, <<>>)
  <2>1. raw.kind = "op_lend_transfered" /\ raw.topics = <<>>
    BY DEF Raw
  <2>2. Emit(<<raw>>)
    BY <1>4
  <2> HIDE DEF raw
  <2>3. Len(raw.topics) = 0 /\ Len(TopicsOf[raw.kind]) = 2
    BY <2>1, TopicsAre
  <2>4. RowsOf(raw) = {}
    BY <2>3 DEF RowsOf, Decodes
  <2> QED
    BY <2>2, <2>4, EmitNone
<1> QED
  BY <1>1, <1>2, <1>3, <1>4 DEF Other

-----------------------------------------------------------------------------
(***************************************************************************)
(* The invariant.                                                           *)
(***************************************************************************)
RowOK(r) ==
  /\ r.type \in DOMAIN TopicsOf /\ r.user \in Users \cup {NoOne}
  /\ r.usdc \in Nat /\ r.quantity \in Nat /\ r.holder \in Users \cup {NoOne}
  /\ r.hash[1] = txs

LEMMA UnitsAreNat ==
  ASSUME NEW amount \in UsdcAmounts
  PROVE  amount \in Nat /\ usdc_to_db_units(amount) \in Nat
<1>1. amount \in Nat
  BY ActivitiesAssumption
<1> QED
  BY <1>1 DEF usdc_to_db_units

\* What an action does besides its rows.
ChainOK ==
  /\ tokens \in [Users -> Nat] /\ sent \subseteq Users
  /\ moved \in [UsdcKinds -> Nat] /\ custody \in [Users -> Nat]

LEMMA AddsTypes ==
  ASSUME ACInv, ChainOK', NEW N, Adds(N), IsFiniteSet(N), \A r \in N : RowOK(r)
  PROVE  ACInv'
<1>1. txs \in Nat /\ txs' = txs + 1 /\ txs' \in 0 .. MaxEvents
  BY ActivitiesAssumption DEF ACInv, ACTypeOK, Adds
<1>2. IsFiniteSet(rows')
  BY FS_Union DEF ACInv, Adds
<1>3. \A r \in rows' : r.hash[1] \in Nat /\ r.hash[1] < txs'
  BY <1>1 DEF ACInv, Earlier, Adds, RowOK
<1>4. holdings' \in [Users -> Nat]
  <2>1. ASSUME NEW u \in Users
        PROVE  Sum("quantity", {r \in N : Custodial(r) /\ r.user = u}) \in Nat
    <3> DEFINE S == {r \in N : Custodial(r) /\ r.user = u}
    <3>1. IsFiniteSet(S) /\ \A r \in S : r["quantity"] \in Nat
      BY FS_Subset DEF RowOK
    <3> HIDE DEF S
    <3>2. Sum("quantity", S) \in Nat
      BY <3>1, SumIsNat
    <3> QED
      BY <3>2 DEF S
  <2>2. \A u \in Users : holdings[u] \in Nat
    BY DEF ACInv, ACTypeOK
  <2> QED
    BY <2>1, <2>2 DEF Adds
<1>5. \A r \in rows' :
        /\ r.type \in DOMAIN TopicsOf /\ r.user \in Users \cup {NoOne}
        /\ r.usdc \in Nat /\ r.quantity \in Nat /\ r.holder \in Users \cup {NoOne}
  BY DEF ACInv, ACTypeOK, Adds, RowOK
<1> QED
  BY <1>1, <1>2, <1>3, <1>4, <1>5 DEF ACInv, ACTypeOK, Earlier, ChainOK

\* The rows of R about a user that a balance is made of.
Of(R, u, type, suffix) == {r \in R : r.user = u /\ r.type = type /\ r.hash[3] = suffix}

Balance(R, u) ==
  (Sum("quantity", Of(R, u, "claimed_op_token", "claimed_op_token"))
     + Sum("quantity", Of(R, u, "op_lend_transfered", "to")))
    - Sum("quantity", Of(R, u, "op_lend_transfered", "from"))

\* What a row adds to them.
Part(r, u, type, suffix) ==
  IF r.user = u /\ r.type = type /\ r.hash[3] = suffix THEN r.quantity ELSE 0

Grows(R, r, u) ==
  \A type, suffix :
    /\ Sum("quantity", Of(R, u, type, suffix)) \in Nat
    /\ Sum("quantity", Of(R \cup {r}, u, type, suffix))
         = Sum("quantity", Of(R, u, type, suffix)) + Part(r, u, type, suffix)

LEMMA OfGrows ==
  ASSUME NEW R, IsFiniteSet(R), \A q \in R : q.quantity \in Nat,
         NEW r, r \notin R, r.quantity \in Nat, NEW u
  PROVE  Grows(R, r, u)
<1> SUFFICES ASSUME NEW type, NEW suffix
             PROVE  /\ Sum("quantity", Of(R, u, type, suffix)) \in Nat
                    /\ Sum("quantity", Of(R \cup {r}, u, type, suffix))
                         = Sum("quantity", Of(R, u, type, suffix)) + Part(r, u, type, suffix)
  BY DEF Grows
<1> DEFINE S == Of(R, u, type, suffix)
<1>1. IsFiniteSet(S) /\ (\A q \in S : q["quantity"] \in Nat) /\ r \notin S
  BY FS_Subset DEF Of
<1>2. Of(R \cup {r}, u, type, suffix)
        = IF r.user = u /\ r.type = type /\ r.hash[3] = suffix THEN S \cup {r} ELSE S
  BY DEF Of
<1> HIDE DEF S
<1>3. Sum("quantity", S) \in Nat
  BY <1>1, SumIsNat
<1>4. Sum("quantity", S \cup {r}) = Sum("quantity", S) + r["quantity"]
  BY <1>1, SumGrows
<1>5. CASE r.user = u /\ r.type = type /\ r.hash[3] = suffix
  BY <1>2, <1>3, <1>4, <1>5 DEF S, Part
<1>6. CASE ~(r.user = u /\ r.type = type /\ r.hash[3] = suffix)
  BY <1>2, <1>3, <1>6 DEF S, Part
<1> QED
  BY <1>5, <1>6

\* How a row moves the balance of a user.
Effect(r, u) ==
  IF r.user # u THEN 0
  ELSE IF r.type = "claimed_op_token" /\ r.hash[3] = "claimed_op_token" THEN r.quantity
  ELSE IF r.type = "op_lend_transfered" /\ r.hash[3] = "to" THEN r.quantity
  ELSE IF r.type = "op_lend_transfered" /\ r.hash[3] = "from" THEN -r.quantity
  ELSE 0

LEMMA BalanceGrows ==
  ASSUME NEW R, IsFiniteSet(R), \A q \in R : q.quantity \in Nat,
         NEW r, r \notin R, r.quantity \in Nat, NEW u
  PROVE  Balance(R \cup {r}, u) = Balance(R, u) + Effect(r, u) /\ Balance(R, u) \in Int
<1> DEFINE Total(Q, type, suffix) == Sum("quantity", Of(Q, u, type, suffix))
<1>1. \A type, suffix :
        /\ Total(R, type, suffix) \in Nat
        /\ Total(R \cup {r}, type, suffix) = Total(R, type, suffix) + Part(r, u, type, suffix)
  <2>1. Grows(R, r, u)
    BY OfGrows
  <2> QED
    BY <2>1 DEF Grows
<1>2. \A Q : Balance(Q, u) = (Total(Q, "claimed_op_token", "claimed_op_token")
                               + Total(Q, "op_lend_transfered", "to"))
                              - Total(Q, "op_lend_transfered", "from")
  BY DEF Balance
<1>3. /\ Part(r, u, "claimed_op_token", "claimed_op_token") \in Nat
      /\ Part(r, u, "op_lend_transfered", "to") \in Nat
      /\ Part(r, u, "op_lend_transfered", "from") \in Nat
  BY DEF Part
<1>4. Effect(r, u) = (Part(r, u, "claimed_op_token", "claimed_op_token")
                        + Part(r, u, "op_lend_transfered", "to"))
                       - Part(r, u, "op_lend_transfered", "from")
  BY DEF Effect, Part
<1> HIDE DEF Total
<1> QED
  BY <1>1, <1>2, <1>3, <1>4

LEMMA BalancesAre == BalancesRebuilt <=> \A u \in Users \ sent : tokens[u] = Balance(rows, u)
BY DEF BalancesRebuilt, Balance, Of

LEMMA BalancesAreNext ==
  BalancesRebuilt' <=> \A u \in Users \ sent' : tokens'[u] = Balance(rows', u)
BY DEF BalancesRebuilt, Balance, Of

\* What the rows of a kind add up to.
UsdcOf(R, kind) == Sum("usdc", {r \in R : r.type = kind})
CountOf(R, kind) == Cardinality({r \in R : r.type = kind})

LEMMA UsdcGrows ==
  ASSUME NEW R, IsFiniteSet(R), \A q \in R : q.usdc \in Nat,
         NEW r, r \notin R, r.usdc \in Nat, NEW kind
  PROVE  /\ UsdcOf(R, kind) \in Nat /\ CountOf(R, kind) \in Nat
         /\ r.type = kind => /\ UsdcOf(R \cup {r}, kind) = UsdcOf(R, kind) + r.usdc
                             /\ CountOf(R \cup {r}, kind) = CountOf(R, kind) + 1
         /\ r.type # kind => /\ UsdcOf(R \cup {r}, kind) = UsdcOf(R, kind)
                             /\ CountOf(R \cup {r}, kind) = CountOf(R, kind)
<1> DEFINE S == {q \in R : q.type = kind}
           T == {q \in R \cup {r} : q.type = kind}
<1>1. IsFiniteSet(S) /\ (\A q \in S : q["usdc"] \in Nat) /\ r \notin S
  BY FS_Subset
<1>2. T = IF r.type = kind THEN S \cup {r} ELSE S
  OBVIOUS
<1> HIDE DEF S, T
<1>3. Sum("usdc", S) \in Nat /\ Cardinality(S) \in Nat
  BY <1>1, SumIsNat, FS_CardinalityType
<1>4. Sum("usdc", S \cup {r}) = Sum("usdc", S) + r["usdc"]
  BY <1>1, SumGrows
<1>5. Cardinality(S \cup {r}) = Cardinality(S) + 1
  BY <1>1, FS_AddElement
<1> USE DEF UsdcOf, CountOf
<1>6. CASE r.type = kind
  BY <1>2, <1>3, <1>4, <1>5, <1>6 DEF S, T
<1>7. CASE r.type # kind
  BY <1>2, <1>3, <1>7 DEF S, T
<1> QED
  BY <1>6, <1>7

\* A kind of USDC movement is stored truncated, but for withdrawals.
Truncated(R, kind, amount) ==
  kind # "funding_withdrawn" =>
    /\ UsdcUnit * UsdcOf(R, kind) <= amount
    /\ amount <= UsdcUnit * UsdcOf(R, kind) + (UsdcUnit - 1) * CountOf(R, kind)

LEMMA TradesAre == TradesTruncated <=> \A kind \in UsdcKinds : Truncated(rows, kind, moved[kind])
BY DEF TradesTruncated, Truncated, UsdcKinds, UsdcOf, CountOf, StoredOf

LEMMA TradesAreNext ==
  TradesTruncated' <=> \A kind \in UsdcKinds : Truncated(rows', kind, moved'[kind])
BY DEF TradesTruncated, Truncated, UsdcKinds, UsdcOf, CountOf, StoredOf

LEMMA TruncatedGrows ==
  ASSUME NEW R, IsFiniteSet(R), \A q \in R : q.usdc \in Nat,
         NEW r, r \notin R, NEW kind, r.type = kind, NEW amount \in UsdcAmounts,
         r.usdc = IF kind = "funding_withdrawn" THEN amount ELSE usdc_to_db_units(amount),
         NEW total \in Nat, Truncated(R, kind, total)
  PROVE  Truncated(R \cup {r}, kind, total + amount)
<1>1. amount \in Nat /\ usdc_to_db_units(amount) \in Nat /\ r.usdc \in Nat
  BY UnitsAreNat
<1>2. /\ UsdcOf(R, kind) \in Nat /\ CountOf(R, kind) \in Nat
      /\ UsdcOf(R \cup {r}, kind) = UsdcOf(R, kind) + r.usdc
      /\ CountOf(R \cup {r}, kind) = CountOf(R, kind) + 1
  BY <1>1, UsdcGrows
<1>3. CASE kind = "funding_withdrawn"
  BY <1>1, <1>2, <1>3 DEF Truncated
<1>4. CASE kind # "funding_withdrawn" /\ Production
  <2>1. UsdcUnit = 10 /\ 10 * r.usdc <= amount /\ amount <= 10 * r.usdc + 9
    BY <1>1, <1>4 DEF UsdcUnit, usdc_to_db_units
  <2> QED
    BY <1>1, <1>2, <1>4, <2>1 DEF Truncated
<1>5. CASE kind # "funding_withdrawn" /\ ~Production
  <2>1. UsdcUnit = 1 /\ r.usdc = amount
    BY <1>1, <1>5 DEF UsdcUnit, usdc_to_db_units
  <2> QED
    BY <1>1, <1>2, <1>5, <2>1 DEF Truncated
<1> QED
  BY <1>3, <1>4, <1>5

-----------------------------------------------------------------------------
(***************************************************************************)
(* What each action does to the rows and to the chain agrees.               *)
(***************************************************************************)
Accounts == BalancesRebuilt /\ TradesTruncated /\ HeldInCustody

\* A row that is neither a claim nor a transfer.
LEMMA NoRow ==
  ASSUME ACInv, Accounts, Adds({}),
         \A u \in Users \ sent' : tokens'[u] = tokens[u],
         sent \subseteq sent', UNCHANGED <<moved, custody>>
  PROVE  Accounts'
<1>1. rows' = rows
  BY DEF Adds
<1>2. \A u \in Users : Sum("quantity", {r \in {} : Custodial(r) /\ r.user = u}) = 0
  <2>1. \A u \in Users : {r \in {} : Custodial(r) /\ r.user = u} = {}
    OBVIOUS
  <2> QED
    BY <2>1, SumOfNone
<1>3. holdings' = holdings
  BY <1>2 DEF Adds, ACInv, ACTypeOK
<1>4. BalancesRebuilt'
  BY <1>1, BalancesAre, BalancesAreNext DEF Accounts
<1>5. TradesTruncated'
  BY <1>1, TradesAre, TradesAreNext DEF Accounts
<1> QED
  BY <1>3, <1>4, <1>5 DEF Accounts, HeldInCustody

\* The balances after one row, and after two.
LEMMA BalancesAfter ==
  ASSUME ACInv, BalancesRebuilt, NEW r, RowOK(r), Adds({r}),
         \A u \in Users \ sent' : tokens'[u] = tokens[u] + Effect(r, u),
         sent \subseteq sent'
  PROVE  BalancesRebuilt'
<1>1. rows' = rows \cup {r} /\ r \notin rows
  BY DEF Adds
<1>2. IsFiniteSet(rows) /\ (\A q \in rows : q.quantity \in Nat) /\ r.quantity \in Nat
  BY DEF ACInv, ACTypeOK, RowOK
<1>3. ASSUME NEW u \in Users \ sent' PROVE tokens'[u] = Balance(rows', u)
  <2>1. tokens[u] = Balance(rows, u)
    BY BalancesAre
  <2>2. Balance(rows \cup {r}, u) = Balance(rows, u) + Effect(r, u)
    BY <1>1, <1>2, BalanceGrows
  <2> QED
    BY <1>1, <2>1, <2>2
<1> QED
  BY <1>3, BalancesAreNext

LEMMA BalancesAfterTwo ==
  ASSUME ACInv, BalancesRebuilt, NEW r, NEW q, r # q, RowOK(r), RowOK(q), Adds({r, q}),
         \A u \in Users \ sent' : tokens'[u] = (tokens[u] + Effect(r, u)) + Effect(q, u),
         sent \subseteq sent'
  PROVE  BalancesRebuilt'
<1>1. rows' = (rows \cup {r}) \cup {q} /\ r \notin rows /\ q \notin rows \cup {r}
  BY DEF Adds
<1>2. IsFiniteSet(rows) /\ (\A p \in rows : p.quantity \in Nat) /\ r.quantity \in Nat /\ q.quantity \in Nat
  BY DEF ACInv, ACTypeOK, RowOK
<1>3. IsFiniteSet(rows \cup {r}) /\ \A p \in rows \cup {r} : p.quantity \in Nat
  BY <1>2, FS_AddElement
<1>4. ASSUME NEW u \in Users \ sent' PROVE tokens'[u] = Balance(rows', u)
  <2>1. tokens[u] = Balance(rows, u)
    BY BalancesAre
  <2>2. Balance(rows \cup {r}, u) = Balance(rows, u) + Effect(r, u)
    BY <1>1, <1>2, BalanceGrows
  <2>3. Balance((rows \cup {r}) \cup {q}, u) = Balance(rows \cup {r}, u) + Effect(q, u)
    BY <1>1, <1>2, <1>3, BalanceGrows
  <2> QED
    BY <1>1, <2>1, <2>2, <2>3
<1> QED
  BY <1>4, BalancesAreNext

\* The USDC stored after a row without USDC, and after a row of what moved.
LEMMA TradesSame ==
  ASSUME ACInv, TradesTruncated, NEW r, RowOK(r), Adds({r}), r.type \notin UsdcKinds, moved' = moved
  PROVE  TradesTruncated'
<1>1. rows' = rows \cup {r} /\ r \notin rows
  BY DEF Adds
<1>2. IsFiniteSet(rows) /\ (\A q \in rows : q.usdc \in Nat) /\ r.usdc \in Nat
  BY DEF ACInv, ACTypeOK, RowOK
<1>3. ASSUME NEW kind \in UsdcKinds PROVE Truncated(rows', kind, moved'[kind])
  <2>1. UsdcOf(rows', kind) = UsdcOf(rows, kind) /\ CountOf(rows', kind) = CountOf(rows, kind)
    BY <1>1, <1>2, UsdcGrows
  <2>2. Truncated(rows, kind, moved[kind])
    BY TradesAre
  <2> QED
    BY <2>1, <2>2 DEF Truncated
<1> QED
  BY <1>3, TradesAreNext

LEMMA TradesAfter ==
  ASSUME ACInv, TradesTruncated, NEW r, RowOK(r), Adds({r}),
         NEW kind \in UsdcKinds, r.type = kind, NEW amount \in UsdcAmounts,
         r.usdc = IF kind = "funding_withdrawn" THEN amount ELSE usdc_to_db_units(amount),
         Moves(kind, amount)
  PROVE  TradesTruncated'
<1>1. rows' = rows \cup {r} /\ r \notin rows
  BY DEF Adds
<1>2. IsFiniteSet(rows) /\ (\A q \in rows : q.usdc \in Nat) /\ r.usdc \in Nat
  BY DEF ACInv, ACTypeOK, RowOK
<1>3. moved \in [UsdcKinds -> Nat] /\ moved[kind] \in Nat
  BY DEF ACInv, ACTypeOK
<1>4. ASSUME NEW k \in UsdcKinds PROVE Truncated(rows', k, moved'[k])
  <2>1. Truncated(rows, k, moved[k])
    BY TradesAre
  <2>2. CASE k = kind
    <3>1. Truncated(rows \cup {r}, kind, moved[kind] + amount)
      BY <1>1, <1>2, <1>3, <2>1, <2>2, TruncatedGrows
    <3> QED
      BY <1>1, <1>3, <2>2, <3>1 DEF Moves
  <2>3. CASE k # kind
    <3>1. UsdcOf(rows', k) = UsdcOf(rows, k) /\ CountOf(rows', k) = CountOf(rows, k)
      BY <1>1, <1>2, <2>3, UsdcGrows
    <3>2. moved'[k] = moved[k]
      BY <1>3, <2>3 DEF Moves
    <3> QED
      BY <2>1, <3>1, <3>2 DEF Truncated
  <2> QED
    BY <2>2, <2>3
<1> QED
  BY <1>4, TradesAreNext

\* The holdings after a row.
LEMMA CustodyAfter ==
  ASSUME ACInv, HeldInCustody, NEW r, RowOK(r), Adds({r}),
         custody' = [u \in Users |-> custody[u] + IF Custodial(r) /\ r.user = u THEN r.quantity ELSE 0]
  PROVE  HeldInCustody'
<1>1. ASSUME NEW u \in Users
      PROVE  Sum("quantity", {q \in {r} : Custodial(q) /\ q.user = u})
               = IF Custodial(r) /\ r.user = u THEN r.quantity ELSE 0
  <2> DEFINE S == {q \in {r} : Custodial(q) /\ q.user = u}
  <2>1. CASE Custodial(r) /\ r.user = u
    <3>1. S = {r} /\ r["quantity"] \in Nat
      BY <2>1 DEF RowOK
    <3> HIDE DEF S
    <3>2. Sum("quantity", S) = r["quantity"]
      BY <3>1, SumOfOne
    <3> QED
      BY <2>1, <3>2 DEF S
  <2>2. CASE ~(Custodial(r) /\ r.user = u)
    <3>1. S = {}
      BY <2>2
    <3> HIDE DEF S
    <3>2. Sum("quantity", S) = 0
      BY <3>1, SumOfNone
    <3> QED
      BY <2>2, <3>2 DEF S
  <2> QED
    BY <2>1, <2>2
<1> QED
  BY <1>1 DEF Adds, HeldInCustody

\* A row is stored: what it says about each table agrees with the chain.
LEMMA RowAdded ==
  ASSUME ACInv, Accounts, ChainOK', NEW r, RowOK(r), Adds({r}),
         \A u \in Users \ sent' : tokens'[u] = tokens[u] + Effect(r, u),
         sent \subseteq sent', TradesTruncated',
         custody' = [u \in Users |-> custody[u] + IF Custodial(r) /\ r.user = u THEN r.quantity ELSE 0]
  PROVE  ACInv' /\ Accounts'
<1>1. IsFiniteSet({r}) /\ \A q \in {r} : RowOK(q)
  BY FS_Singleton
<1>2. ACInv'
  BY <1>1, AddsTypes
<1>3. BalancesRebuilt'
  BY BalancesAfter DEF Accounts
<1>4. HeldInCustody'
  BY CustodyAfter DEF Accounts
<1> QED
  BY <1>2, <1>3, <1>4 DEF Accounts

\* No row is stored.
LEMMA NothingAdded ==
  ASSUME ACInv, Accounts, ChainOK', Adds({}),
         \A u \in Users \ sent' : tokens'[u] = tokens[u],
         sent \subseteq sent', UNCHANGED <<moved, custody>>
  PROVE  ACInv' /\ Accounts'
<1>1. IsFiniteSet({}) /\ \A q \in {} : RowOK(q)
  BY FS_EmptySet
<1>2. ACInv'
  BY <1>1, AddsTypes
<1> QED
  BY <1>2, NoRow

\* A row of an event that moves neither tokens nor shares of the wallet.
LEMMA RowWithoutTokens ==
  ASSUME ACInv, Accounts, ChainOK', NEW r, RowOK(r), Adds({r}),
         r.type \notin {"claimed_op_token", "op_lend_transfered", "invested_fiat"},
         TradesTruncated', UNCHANGED <<tokens, sent, custody>>
  PROVE  ACInv' /\ Accounts'
<1>1. ~Custodial(r) /\ \A u \in Users : Effect(r, u) = 0
  BY DEF Custodial, Effect
<1>2. \A u \in Users : tokens[u] \in Nat /\ custody[u] \in Nat
  BY DEF ACInv, ACTypeOK
<1>3. custody = [u \in Users |-> custody[u]]
  BY DEF ACInv, ACTypeOK
<1>4. \A u \in Users \ sent' : tokens'[u] = tokens[u] + Effect(r, u)
  BY <1>1, <1>2
<1>5. custody' = [u \in Users |-> custody[u] + IF Custodial(r) /\ r.user = u THEN r.quantity ELSE 0]
  BY <1>1, <1>2, <1>3
<1> QED
  BY <1>4, <1>5, RowAdded

LEMMA NewRowIs ==
  ASSUME ACInv, NEW type \in DOMAIN TopicsOf, NEW suffix, NEW user \in Users \cup {NoOne},
         NEW usdc \in Nat, NEW quantity \in Nat, NEW holder \in Users \cup {NoOne}
  PROVE  RowOK(NewRow(type, suffix, user, usdc, quantity, holder))
BY DEF RowOK, NewRow

LEMMA UsdcKindsAre ==
  /\ "claimed_op_token" \notin UsdcKinds /\ "op_lend_transfered" \notin UsdcKinds
  /\ "invested_fiat" \notin UsdcKinds /\ "op_started" \notin UsdcKinds
  /\ "op_created" \notin UsdcKinds
BY DEF UsdcKinds

LEMMA ClaimKeeps ==
  ASSUME ACInv, Accounts, NEW u \in Users, Claim(u)
  PROVE  ACInv' /\ Accounts'
<1> DEFINE r == NewRow("claimed_op_token", "claimed_op_token", u, 0, 1, NoOne)
<1>1. Adds({r})
  BY ClaimAdds
<1>2. RowOK(r)
  BY TopicsAre, NewRowIs
<1>3. ChainOK'
  BY DEF Claim, ChainOK, ACInv, ACTypeOK
<1>4. /\ r.type = "claimed_op_token" /\ r.hash[3] = "claimed_op_token"
      /\ r.user = u /\ r.quantity = 1
  BY DEF NewRow
<1> HIDE DEF r
<1>5. \A w \in Users : tokens'[w] = tokens[w] + Effect(r, w)
  BY <1>4 DEF Claim, Effect, ACInv, ACTypeOK
<1>6. TradesTruncated'
  BY <1>1, <1>2, <1>4, UsdcKindsAre, TradesSame DEF Accounts, Claim
<1>7. custody' = [w \in Users |-> custody[w] + IF Custodial(r) /\ r.user = w THEN r.quantity ELSE 0]
  BY <1>4 DEF Claim, Custodial, ACInv, ACTypeOK
<1>8. sent \subseteq sent'
  BY DEF Claim
<1> QED
  BY <1>1, <1>2, <1>3, <1>5, <1>6, <1>7, <1>8, RowAdded

LEMMA SendBackKeeps ==
  ASSUME ACInv, Accounts, NEW u \in Users, SendBack(u)
  PROVE  ACInv' /\ Accounts'
<1>1. Adds({})
  BY SendBackAdds
<1>2. ChainOK' /\ sent \subseteq sent' /\ UNCHANGED <<moved, custody>>
  BY DEF SendBack, ChainOK, ACInv, ACTypeOK
<1>3. \A w \in Users \ sent' : tokens'[w] = tokens[w]
  BY DEF SendBack, ACInv, ACTypeOK
<1> QED
  BY <1>1, <1>2, <1>3, NothingAdded

LEMMA TradeKeeps ==
  ASSUME ACInv, Accounts, NEW kind \in {"invested", "refunded"}, NEW u \in Users,
         NEW amount \in UsdcAmounts, Trade(kind, u, amount)
  PROVE  ACInv' /\ Accounts'
<1> DEFINE r == NewRow(kind, kind, u, usdc_to_db_units(amount), 1, NoOne)
<1>1. Adds({r})
  BY TradeAdds
<1>2. RowOK(r)
  BY TopicsAre, UnitsAreNat, NewRowIs
<1>3. amount \in Nat /\ kind \in UsdcKinds /\ Moves(kind, amount) /\ UNCHANGED <<tokens, sent, custody>>
  BY UnitsAreNat DEF Trade, UsdcKinds
<1>4. ChainOK'
  BY <1>3 DEF Moves, ChainOK, ACInv, ACTypeOK
<1>5. r.type = kind /\ r.usdc = usdc_to_db_units(amount) /\ kind # "funding_withdrawn"
  BY DEF NewRow
<1> HIDE DEF r
<1>6. TradesTruncated'
  BY <1>1, <1>2, <1>3, <1>5, TradesAfter DEF Accounts
<1>7. r.type \notin {"claimed_op_token", "op_lend_transfered", "invested_fiat"}
  BY <1>5
<1> QED
  BY <1>1, <1>2, <1>3, <1>4, <1>6, <1>7, RowWithoutTokens

LEMMA PayOutKeeps ==
  ASSUME ACInv, Accounts, NEW kind \in {"funding_withdrawn", "rewards_distributed"},
         NEW amount \in UsdcAmounts, PayOut(kind, amount)
  PROVE  ACInv' /\ Accounts'
<1> DEFINE usdc == IF kind = "funding_withdrawn" THEN amount ELSE usdc_to_db_units(amount)
           r == NewRow(kind, kind, NoOne, usdc, 0, NoOne)
<1>1. Adds({r})
  BY PayOutAdds
<1>2. usdc \in Nat
  BY UnitsAreNat
<1>3. r.type = kind /\ r.usdc = usdc
  BY DEF NewRow
<1> HIDE DEF usdc
<1>4. RowOK(r)
  BY <1>2, TopicsAre, NewRowIs
<1>5. amount \in Nat /\ kind \in UsdcKinds /\ Moves(kind, amount) /\ UNCHANGED <<tokens, sent, custody>>
  BY UnitsAreNat DEF PayOut, UsdcKinds
<1>6. ChainOK'
  BY <1>5 DEF Moves, ChainOK, ACInv, ACTypeOK
<1> HIDE DEF r
<1>7. TradesTruncated'
  BY <1>1, <1>3, <1>4, <1>5, TradesAfter DEF Accounts, usdc
<1>8. r.type \notin {"claimed_op_token", "op_lend_transfered", "invested_fiat"}
  BY <1>3
<1> QED
  BY <1>1, <1>4, <1>5, <1>6, <1>7, <1>8, RowWithoutTokens

LEMMA ClaimRewardsKeeps ==
  ASSUME ACInv, Accounts, NEW u \in Users, NEW amount \in UsdcAmounts, ClaimRewards(u, amount)
  PROVE  ACInv' /\ Accounts'
<1> DEFINE r == NewRow("claimed_rewards", "claimed_rewards", u, usdc_to_db_units(amount), 0, NoOne)
<1>1. Adds({r})
  BY ClaimRewardsAdds
<1>2. RowOK(r)
  BY TopicsAre, UnitsAreNat, NewRowIs
<1>3. /\ amount \in Nat /\ "claimed_rewards" \in UsdcKinds
      /\ Moves("claimed_rewards", amount) /\ UNCHANGED <<tokens, sent, custody>>
  BY UnitsAreNat DEF ClaimRewards, UsdcKinds
<1>4. ChainOK'
  BY <1>3 DEF Moves, ChainOK, ACInv, ACTypeOK
<1>5. r.type = "claimed_rewards" /\ r.usdc = usdc_to_db_units(amount)
  BY DEF NewRow
<1> HIDE DEF r
<1>6. TradesTruncated'
  BY <1>1, <1>2, <1>3, <1>5, TradesAfter DEF Accounts
<1>7. r.type \notin {"claimed_op_token", "op_lend_transfered", "invested_fiat"}
  BY <1>5
<1> QED
  BY <1>1, <1>2, <1>3, <1>4, <1>6, <1>7, RowWithoutTokens

LEMMA BuyWithFiatKeeps ==
  ASSUME ACInv, Accounts, NEW u \in Users, NEW holder \in Users, BuyWithFiat(u, holder)
  PROVE  ACInv' /\ Accounts'
<1> DEFINE r == NewRow("invested_fiat", "invested_fiat", u, 0, 1, holder)
<1>1. Adds({r})
  BY BuyWithFiatAdds
<1>2. RowOK(r)
  BY TopicsAre, NewRowIs
<1>3. ChainOK'
  BY DEF BuyWithFiat, ChainOK, ACInv, ACTypeOK
<1>4. r.type = "invested_fiat" /\ r.user = u /\ r.quantity = 1 /\ r.holder = holder
  BY DEF NewRow
<1> HIDE DEF r
<1>5. UNCHANGED <<tokens, sent, moved>>
  BY DEF BuyWithFiat
<1>6. \A w \in Users : tokens'[w] = tokens[w] + Effect(r, w)
  BY <1>4, <1>5 DEF Effect, ACInv, ACTypeOK
<1>7. TradesTruncated'
  BY <1>1, <1>2, <1>4, <1>5, UsdcKindsAre, TradesSame DEF Accounts
<1>8. Custodial(r) <=> holder = Wallet /\ u # Wallet
  BY <1>4, ActivitiesAssumption DEF Custodial
<1>9. custody' = [w \in Users |-> custody[w] + IF Custodial(r) /\ r.user = w THEN r.quantity ELSE 0]
  <2>1. custody \in [Users -> Nat]
    BY DEF ACInv, ACTypeOK
  <2>2. CASE Custodial(r)
    <3>1. custody' = [custody EXCEPT ![u] = custody[u] + 1]
      BY <1>8, <2>2 DEF BuyWithFiat
    <3>2. \A w \in Users : (IF Custodial(r) /\ r.user = w THEN r.quantity ELSE 0) = IF w = u THEN 1 ELSE 0
      BY <1>4, <2>2
    <3>3. \A w \in Users : custody'[w] = custody[w] + IF w = u THEN 1 ELSE 0
      BY <2>1, <3>1
    <3>4. custody' = [w \in Users |-> custody'[w]]
      BY <2>1, <3>1
    <3> QED
      BY <3>2, <3>3, <3>4
  <2>3. CASE ~Custodial(r)
    <3>1. custody' = custody
      BY <1>8, <2>3 DEF BuyWithFiat
    <3> QED
      BY <2>1, <2>3, <3>1
  <2> QED
    BY <2>2, <2>3
<1>10. sent \subseteq sent'
  BY <1>5
<1> QED
  BY <1>1, <1>2, <1>3, <1>6, <1>7, <1>9, <1>10, RowAdded

LEMMA OtherKeeps ==
  ASSUME ACInv, Accounts, Other
  PROVE  ACInv' /\ Accounts'
<1>1. UNCHANGED <<tokens, sent, moved, custody>>
  BY DEF Other
<1>2. ChainOK'
  BY <1>1 DEF ChainOK, ACInv, ACTypeOK
<1>3. CASE Adds({})
  <2>1. sent \subseteq sent' /\ \A u \in Users \ sent' : tokens'[u] = tokens[u]
    BY <1>1
  <2> QED
    BY <1>1, <1>2, <1>3, <2>1, NothingAdded
<1>4. ASSUME NEW type \in {"op_started", "op_created"}, NEW quantity \in Nat,
             Adds({NewRow(type, type, NoOne, 0, quantity, NoOne)})
      PROVE  ACInv' /\ Accounts'
  <2> DEFINE r == NewRow(type, type, NoOne, 0, quantity, NoOne)
  <2>1. RowOK(r)
    BY TopicsAre, NewRowIs
  <2>2. r.type = type
    BY DEF NewRow
  <2>3. Adds({r})
    BY <1>4
  <2> HIDE DEF r
  <2>4. TradesTruncated'
    BY <1>1, <2>1, <2>2, <2>3, UsdcKindsAre, TradesSame DEF Accounts
  <2>5. r.type \notin {"claimed_op_token", "op_lend_transfered", "invested_fiat"}
    BY <2>2
  <2> QED
    BY <1>1, <1>2, <2>1, <2>3, <2>4, <2>5, RowWithoutTokens
<1> QED
  BY <1>3, <1>4, OtherAdds

\* A transfer: two rows, told apart by the suffix of their hashes.
LEMMA TransferKeeps ==
  ASSUME ACInv, Accounts, NEW u \in Users, NEW v \in Users, Transfer(u, v)
  PROVE  ACInv' /\ Accounts'
<1> DEFINE out == NewRow("op_lend_transfered", "from", u, 0, 1, NoOne)
           in == NewRow("op_lend_transfered", "to", v, 0, 1, NoOne)
<1>1. Adds({out, in})
  BY TransferAdds
<1>2. RowOK(out) /\ RowOK(in)
  BY TopicsAre, NewRowIs
<1>3. /\ out.type = "op_lend_transfered" /\ out.hash[3] = "from" /\ out.user = u /\ out.quantity = 1
      /\ in.type = "op_lend_transfered" /\ in.hash[3] = "to" /\ in.user = v /\ in.quantity = 1
      /\ out # in
  BY DEF NewRow
<1> HIDE DEF out, in
<1>4. UNCHANGED <<sent, moved, custody>>
  BY DEF Transfer
<1>5. \A w \in Users :
        /\ tokens[w] \in Nat
        /\ tokens'[w] = (tokens[w] + IF w = v THEN 1 ELSE 0) - IF w = u THEN 1 ELSE 0
  BY DEF Transfer, ACInv, ACTypeOK
<1>6. ChainOK'
  <2>1. tokens' \in [Users -> Nat]
    <3>1. tokens[u] > 0
      BY DEF Transfer
    <3>2. \A w \in Users : tokens'[w] \in Nat
      BY <1>5, <3>1
    <3> QED
      BY <3>2 DEF Transfer
  <2> QED
    BY <1>4, <2>1 DEF ChainOK, ACInv, ACTypeOK
<1>7. ACInv'
  <2>1. IsFiniteSet({out, in})
    <3>1. {out, in} = {out} \cup {in}
      OBVIOUS
    <3>2. IsFiniteSet({out})
      BY FS_Singleton
    <3>3. IsFiniteSet({out} \cup {in})
      BY <3>2, FS_AddElement
    <3> QED
      BY <3>1, <3>3
  <2>2. \A r \in {out, in} : RowOK(r)
    BY <1>2
  <2> QED
    BY <1>1, <1>6, <2>1, <2>2, AddsTypes
<1>8. BalancesRebuilt'
  <2>1. \A w \in Users : tokens'[w] = (tokens[w] + Effect(out, w)) + Effect(in, w)
    <3>1. \A w \in Users : /\ Effect(out, w) = IF w = u THEN -1 ELSE 0
                           /\ Effect(in, w) = IF w = v THEN 1 ELSE 0
      BY <1>3 DEF Effect
    <3> QED
      BY <1>5, <3>1
  <2> QED
    BY <1>1, <1>2, <1>3, <1>4, <2>1, BalancesAfterTwo DEF Accounts
<1>9. TradesTruncated'
  <2>1. rows' = rows \cup {out, in}
    BY <1>1 DEF Adds
  <2>2. ASSUME NEW kind \in UsdcKinds
        PROVE  UsdcOf(rows', kind) = UsdcOf(rows, kind) /\ CountOf(rows', kind) = CountOf(rows, kind)
    <3>1. {r \in rows' : r.type = kind} = {r \in rows : r.type = kind}
      BY <1>3, <2>1, UsdcKindsAre
    <3> QED
      BY <3>1 DEF UsdcOf, CountOf
  <2>3. \A kind \in UsdcKinds : Truncated(rows, kind, moved[kind])
    BY TradesAre DEF Accounts
  <2>4. \A kind \in UsdcKinds : Truncated(rows', kind, moved'[kind])
    BY <1>4, <2>2, <2>3 DEF Truncated
  <2> QED
    BY <2>4, TradesAreNext
<1>10. HeldInCustody'
  <2>1. ASSUME NEW w \in Users
        PROVE  Sum("quantity", {r \in {out, in} : Custodial(r) /\ r.user = w}) = 0
    <3>1. {r \in {out, in} : Custodial(r) /\ r.user = w} = {}
      BY <1>3 DEF Custodial
    <3> QED
      BY <3>1, SumOfNone
  <2>2. holdings' = holdings
    BY <1>1, <2>1 DEF Adds, ACInv, ACTypeOK
  <2> QED
    BY <1>4, <2>2 DEF HeldInCustody, Accounts
<1> QED
  BY <1>7, <1>8, <1>9, <1>10 DEF Accounts

-----------------------------------------------------------------------------
LEMMA AccountsInit == ACInit => ACInv /\ Accounts
<1> SUFFICES ASSUME ACInit PROVE ACInv /\ Accounts
  OBVIOUS
<1>1. ACInv
  BY ActivitiesAssumption, FS_EmptySet DEF ACInit, ACInv, ACTypeOK, Earlier
<1>2. BalancesRebuilt
  <2>1. \A u, type, suffix : Of({}, u, type, suffix) = {}
    BY DEF Of
  <2>2. Sum("quantity", {}) = 0
    BY SumOfNone
  <2>3. \A u : Balance({}, u) = 0
    <3> TAKE u
    <3>1. Balance({}, u) = (Sum("quantity", {}) + Sum("quantity", {})) - Sum("quantity", {})
      BY <2>1 DEF Balance
    <3> QED
      BY <2>2, <3>1
  <2> QED
    BY <2>3, BalancesAre DEF ACInit
<1>3. TradesTruncated
  <2>1. \A kind : {r \in {} : r.type = kind} = {}
    OBVIOUS
  <2>2. \A kind : UsdcOf({}, kind) = 0 /\ CountOf({}, kind) = 0
    BY <2>1, SumOfNone, FS_EmptySet DEF UsdcOf, CountOf
  <2>3. UsdcUnit \in Nat
    BY DEF UsdcUnit
  <2>4. \A kind \in UsdcKinds : moved[kind] = 0
    BY DEF ACInit
  <2>5. \A kind \in UsdcKinds : Truncated({}, kind, 0)
    BY <2>2, <2>3 DEF Truncated
  <2> QED
    BY <2>4, <2>5, TradesAre DEF ACInit
<1> QED
  BY <1>1, <1>2, <1>3 DEF Accounts, HeldInCustody, ACInit

LEMMA AccountsStep == ACInv /\ Accounts /\ [ACNext]_acVars => ACInv' /\ Accounts'
<1> SUFFICES ASSUME ACInv, Accounts, [ACNext]_acVars PROVE ACInv' /\ Accounts'
  OBVIOUS
<1>1. CASE UNCHANGED acVars
  <2>1. ACInv'
    BY <1>1 DEF acVars, ACInv, ACTypeOK, Earlier
  <2>2. BalancesRebuilt'
    BY <1>1, BalancesAre, BalancesAreNext DEF acVars, Accounts
  <2>3. TradesTruncated'
    BY <1>1, TradesAre, TradesAreNext DEF acVars, Accounts
  <2> QED
    BY <1>1, <2>1, <2>2, <2>3 DEF acVars, Accounts, HeldInCustody
<1>2. ASSUME NEW u \in Users, NEW v \in Users, Transfer(u, v) PROVE ACInv' /\ Accounts'
  BY <1>2, TransferKeeps
<1>3. ASSUME NEW u \in Users, NEW v \in Users, BuyWithFiat(u, v) PROVE ACInv' /\ Accounts'
  BY <1>3, BuyWithFiatKeeps
<1>4. ASSUME NEW u \in Users, Claim(u) PROVE ACInv' /\ Accounts'
  BY <1>4, ClaimKeeps
<1>5. ASSUME NEW u \in Users, SendBack(u) PROVE ACInv' /\ Accounts'
  BY <1>5, SendBackKeeps
<1>6. ASSUME NEW amount \in UsdcAmounts, NEW kind \in {"invested", "refunded"}, NEW u \in Users,
             Trade(kind, u, amount)
      PROVE  ACInv' /\ Accounts'
  BY <1>6, TradeKeeps
<1>7. ASSUME NEW amount \in UsdcAmounts, NEW kind \in {"funding_withdrawn", "rewards_distributed"},
             PayOut(kind, amount)
      PROVE  ACInv' /\ Accounts'
  BY <1>7, PayOutKeeps
<1>8. ASSUME NEW amount \in UsdcAmounts, NEW u \in Users, ClaimRewards(u, amount)
      PROVE  ACInv' /\ Accounts'
  BY <1>8, ClaimRewardsKeeps
<1>9. CASE Other
  BY <1>9, OtherKeeps
<1> QED
  BY <1>1, <1>2, <1>3, <1>4, <1>5, <1>6, <1>7, <1>8, <1>9 DEF ACNext

LEMMA AccountsAlways == ACSpec => [](ACInv /\ Accounts)
BY AccountsInit, AccountsStep, PTL DEF ACSpec

\* The rows keep their types, and the factory is never the user of one; so do the
\* holdings and what the contracts know.
THEOREM ActivitiesTypeCorrect == ACSpec => []ACTypeOK
<1>1. ACInv /\ Accounts => ACTypeOK
  BY DEF ACInv
<1> QED
  BY <1>1, AccountsAlways, PTL

\* Whatever claims, transfers and other events there are, and however many, the
\* tokens of a user who sent none to the factory are the quantities of their rows:
\* handle_event tells every movement of a token exactly once.
THEOREM BalancesCanBeRebuilt == ACSpec => []BalancesRebuilt
<1>1. ACInv /\ Accounts => BalancesRebuilt
  BY DEF Accounts
<1> QED
  BY <1>1, AccountsAlways, PTL

\* The USDC stored for a kind of trade or reward never exceeds what moved, and stays
\* within one unit of it per row, in production and outside it (usdc_to_db_units).
\* Nothing is said of withdrawals, which the code does not convert.
THEOREM TradesNeverExceedMoved == ACSpec => []TradesTruncated
<1>1. ACInv /\ Accounts => TradesTruncated
  BY DEF Accounts
<1> QED
  BY <1>1, AccountsAlways, PTL

\* The fiat holdings of every user are the shares the wallet received for them.
THEOREM HoldingsAreCustody == ACSpec => []HeldInCustody
<1>1. ACInv /\ Accounts => HeldInCustody
  BY DEF Accounts
<1> QED
  BY <1>1, AccountsAlways, PTL

=============================================================================
