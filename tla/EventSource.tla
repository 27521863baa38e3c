----------------------------- MODULE EventSource -----------------------------
(***************************************************************************)
(* What the trait EventSource promises of one call of `fetch'               *)
(* (crates/lw-chain/src/event_source.rs:77-90), whichever source answers:   *)
(* "Fetch all events at/after `start_ledger' for `contract_ids' ... Returns *)
(* the decoded events in chain order and the ledger to resume from on the   *)
(* next call".  The caller knows nothing of batches, pages, retries, nodes  *)
(* of different heights or watermarks.  RpcSource is shown to implement     *)
(* `Spec'; HubbleSource the weaker `TransactionSpec' only, which leaves the *)
(* order inside a transaction open.                                         *)
(***************************************************************************)
EXTENDS Network, SequencesExt

VARIABLES
  start, ids,  \* the arguments: start_ledger and contract_ids
  answer       \* what the call returned, Pending until it has

sourceVars == <<start, ids, answer>>

\* The call has not returned; it returned an Err.
Pending == [kind |-> "pending", events |-> <<>>, next |-> 0]
Failed == [kind |-> "err", events |-> <<>>, next |-> 0]
Ok(events, next) == [kind |-> "ok", events |-> events, next |-> next]

\* What is owed in any order: every event before the ledger to resume from, each
\* once, and a ledger that is neither behind the request nor beyond the chain.
\* An undecodable event is owed by nobody.
Answered ==
  LET got == ToSet(answer.events)
      decodable(S) == S \ Garbled IN
  answer.kind = "ok" =>
    /\ decodable(Visible(start, answer.next - 1, ids)) \subseteq got
    /\ got \subseteq decodable(Visible(start, tip, ids))
    /\ IsInjective(answer.events)
    /\ start <= answer.next
    /\ answer.next <= tip + 1 \/ answer.next = start

\* The events are in chain order, down to the place of each in its ledger.
ChainOrdered ==
  \A i, j \in DOMAIN answer.events :
    i < j => ~Before(answer.events[j], answer.events[i])

\* Ledgers follow each other in order, and so do the transactions of each.
TransactionsOrdered ==
  \A i, j \in DOMAIN answer.events : i < j =>
    LET e == answer.events[i]  f == answer.events[j] IN
    e.ledger < f.ledger \/ (e.ledger = f.ledger /\ e.tx <= f.tx)

Init == start \in Nat /\ ids \subseteq Contracts /\ ids # {} /\ answer = Pending

Return ==
  /\ answer = Pending
  /\ answer'.kind = "ok" /\ Answered'
  /\ UNCHANGED <<start, ids>>

Fail ==
  /\ answer = Pending /\ answer' = Failed
  /\ UNCHANGED <<start, ids>>

Next == (Return /\ ChainOrdered') \/ Fail

Spec == Init /\ [][Next]_sourceVars

TransactionNext == (Return /\ TransactionsOrdered') \/ Fail

TransactionSpec == Init /\ [][TransactionNext]_sourceVars

=============================================================================
