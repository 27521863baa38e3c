--------------------------- MODULE SupportedChains ---------------------------
(***************************************************************************)
(* The supported_chains column of one operation under the statements that   *)
(* write it: OpRepository::add_first_chain, of this worker and of what it   *)
(* replays after a restart, and the transactions of other programs.         *)
(* Postgres at READ COMMITTED: an UPDATE picks its row from a snapshot,     *)
(* waits for the row lock, and then looks at the row as last committed.     *)
(***************************************************************************)
EXTENDS ChainList

CONSTANTS
  Statements,   \* calls of add_first_chain
  DeploymentOf, \* the deployment each of them records
  Others        \* transactions of other programs that seed the list

ASSUME SupportedChainsAssumption ==
  /\ DeploymentOf \in [Statements -> Deployments]
  /\ Statements \cap Others = {}

VARIABLES
  at,    \* where each statement and transaction is
  seen,  \* the row in a statement's snapshot
  lock,  \* the holder of the row lock: <<>> or <<w>>
  dirty  \* the row as its holder has written it, not committed yet

vars == <<chains, at, seen, lock, dirty>>

Writers == Statements \cup Others

SCInit ==
  /\ Init
  /\ at = [w \in Writers |-> "idle"]
  /\ seen = [s \in Statements |-> <<>>]
  /\ lock = <<>> /\ dirty = <<>>

\* The snapshot: a row that already holds the deployment is not a row to update.
Scan(s) ==
  /\ at[s] = "idle"
  /\ seen' = [seen EXCEPT ![s] = chains]
  /\ at' = [at EXCEPT ![s] = IF Holds(chains, DeploymentOf[s]) THEN "done" ELSE "waiting"]
  /\ UNCHANGED <<chains, lock, dirty>>

\* Mutants of Rewritten: the array is read before the lock and written back
\* after it; the WHERE clause is not looked at again.
RewrittenFromSnapshot(s) == {WithEntry(seen[s], DeploymentOf[s])}
RewrittenUnchecked(s) == {WithEntry(chains, DeploymentOf[s])}

\* With the lock, WHERE and SET are evaluated on the row as last committed.
Rewritten(s) ==
  {WithEntry(list, DeploymentOf[s]) :
     list \in {l \in {chains} : ~Holds(l, DeploymentOf[s])}}

Lock(s) ==
  /\ at[s] = "waiting" /\ lock = <<>>
  /\ \/ /\ dirty' \in Rewritten(s)
        /\ lock' = <<s>> /\ at' = [at EXCEPT ![s] = "writing"]
     \/ /\ Rewritten(s) = {}
        /\ at' = [at EXCEPT ![s] = "done"]
        /\ UNCHANGED <<lock, dirty>>
  /\ UNCHANGED <<chains, seen>>

\* Another program seeds a list that is still empty, and keeps the lock.
Stage(t) ==
  /\ at[t] = "idle" /\ lock = <<>> /\ chains = <<>>
  /\ dirty' \in Seeds
  /\ lock' = <<t>> /\ at' = [at EXCEPT ![t] = "writing"]
  /\ UNCHANGED <<chains, seen>>

Commit(w) ==
  /\ at[w] = "writing"
  /\ chains' = dirty
  /\ lock' = <<>> /\ dirty' = <<>> /\ at' = [at EXCEPT ![w] = "done"]
  /\ UNCHANGED seen

\* The connection is lost or the transaction is rolled back: the error is logged,
\* and a creation read again under another hash calls once more.
Rollback(w) ==
  /\ at[w] = "writing"
  /\ lock' = <<>> /\ dirty' = <<>> /\ at' = [at EXCEPT ![w] = "idle"]
  /\ UNCHANGED <<chains, seen>>

SCNext ==
  \/ \E s \in Statements : Scan(s) \/ Lock(s)
  \/ \E t \in Others : Stage(t)
  \/ \E w \in Writers : Commit(w) \/ Rollback(w)

SCSpec == SCInit /\ [][SCNext]_vars

-----------------------------------------------------------------------------
TypeOK ==
  /\ chains \in Seq(Listing) /\ dirty \in Seq(Listing)
  /\ at \in [Writers -> {"idle", "waiting", "writing", "done"}]
  /\ seen \in [Statements -> Seq(Listing)]
  /\ lock \in {<<>>} \cup {<<w>> : w \in Writers}

(***************************************************************************)
(* However the statements interleave, an operation has one primary chain,   *)
(* once a statement added to it, and one entry per deployment: a replayed   *)
(* call does not claim a primary role that another program                  *)
(* committed while it waited (op_repository.rs:290-309).                    *)
(***************************************************************************)
OneOfEach ==
  /\ NoRepeat(chains) /\ OnePrimary(chains)
  /\ chains \notin {<<>>} \cup Seeds => HasPrimary(chains)

(***************************************************************************)
(* No entry, and nothing inside one, is ever taken back or rewritten: the   *)
(* append lands on top of what others commit while the statement waits      *)
(* (op_repository.rs:292).                                                  *)
(***************************************************************************)
OnlyGrows ==
  [][/\ Len(chains) <= Len(chains')
     /\ \A i \in 1 .. Len(chains) : chains'[i] = chains[i]]_vars

(***************************************************************************)
(* A call that returned without an error left its deployment in the list,   *)
(* also when it updated no row (op_repository.rs:300-308).                  *)
(***************************************************************************)
RecordedWhenDone ==
  \A s \in Statements : at[s] = "done" => Holds(chains, DeploymentOf[s])

(***************************************************************************)
(* The column is the list ChainList describes: what the handler takes for   *)
(* one atomic step, the append, is one (op_repository.rs:290-315).          *)
(***************************************************************************)
ActsAtomically == Spec

=============================================================================
