------------------------------ MODULE RpcSource ------------------------------
(***************************************************************************)
(* One call of RpcEventSource::fetch, alone (the live tail) or inside       *)
(* BackfillSource (the bounded replay): batches of contract ids, pages of   *)
(* one getEvents filter, retries, and a different node behind the URL for   *)
(* every request (crates/lw-chain/src/event_source.rs).                     *)
(***************************************************************************)
EXTENDS Network, SequencesExt

CONSTANTS
  BatchCap,     \* MAX_CONTRACT_IDS_PER_FILTER
  PageLimit,    \* page_limit of a getEvents request
  RetryBudget,  \* RPC_MAX_RETRIES
  MaxSpan,      \* BACKFILL_MAX_SPAN
  MaxInt,       \* i32::MAX
  Starts        \* bound: the start_ledger arguments

ASSUME RpcSourceAssumption ==
  /\ BatchCap \in Nat \ {0} /\ PageLimit \in Nat \ {0}
  /\ RetryBudget \in Nat
  /\ MaxInt \in Nat \ {0} /\ MaxSpan \in 0 .. MaxInt
  /\ Starts \subseteq 0 .. MaxInt

VARIABLES
  endpoint,     \* "live", or "replay" for the source inside BackfillSource
  start, ids,   \* the arguments
  todo,         \* ids of the batches to come
  batch,        \* ids of the batch in hand, {} between batches
  position,     \* <<>> for EventStart::Ledger, <<e>> for the cursor after e
  retries,      \* retries of the request in hand
  merged,       \* events received so far, as received
  next,         \* lowest batch cursor, <<>> for None
  answer,
  height        \* history: the tip of the node that answered last

callVars == <<endpoint, start, ids>>
fetchVars == <<todo, batch, position, retries, merged, next, answer, height>>
vars == <<netVars, callVars, fetchVars>>

Source == INSTANCE EventSource

(***************************************************************************)
(* Hypotheses of the theorems.  An RPC event id names one event, and ids    *)
(* are compared within a ledger (event_source.rs:321-326); the ledgers of a *)
(* replay leave room for the span before i32::MAX (event_source.rs:363-365).*)
(***************************************************************************)
PlacesDistinct ==
  \A e, f \in Events : e.ledger = f.ledger /\ e.pos = f.pos => e = f
RoomForSpan == \A s \in Starts : s + MaxSpan < MaxInt

-----------------------------------------------------------------------------
\* The ledger the request in hand starts from.
From == IF position = <<>> THEN start ELSE position[1].ledger

InRange(h) == low[endpoint] <= From /\ From <= h

\* No event comes before an earlier one.
InOrder(events) ==
  \A i, j \in DOMAIN events : i < j => ~Before(events[j], events[i])

\* What a node whose tip is `h' has left of the batch, and the next page of it.
Rest(h) ==
  {e \in Visible(start, h, batch) : position # <<>> => Before(position[1], e)}
PagesAt(h) ==
  {SubSeq(list, 1, Min({PageLimit, Len(list)})) :
     list \in {s \in SetToSeqs(Rest(h)) : InOrder(s)}}

\* Whether a response may come without a cursor: a node that has more of the
\* batch says where to go on.
Cursorless(h, page) == IF ToSet(page) = Rest(h) THEN BOOLEAN ELSE {FALSE}

\* Mutant of Exhausted: the first page is taken for all of them.
ExhaustedAtOnce(page, cursorless) == TRUE

\* A full page means more may exist, unless the response has no cursor.
Exhausted(page, cursorless) == Len(page) < PageLimit \/ cursorless

\* Mutant of HoldsAboveTip: a paging cursor the node has not reached is taken
\* for the chain tip.
HoldsAnywhereAboveTip(h) == h < From

\* rejected_above_tip: only a request that starts from a ledger.
HoldsAboveTip(h) == position = <<>> /\ h < start

\* The ledger a batch resumes from, given its events and the last node's tip.
ResumeAfter(events, h) ==
  IF events = {} THEN Max({h + 1, start}) ELSE Max({e.ledger : e \in events}) + 1

\* The batch has its answer; the sweep resumes at the lowest of them.
EndBatch(n) ==
  /\ next' = IF next = <<>> THEN <<n>> ELSE <<Min({next[1], n})>>
  /\ batch' = {} /\ position' = <<>> /\ retries' = 0

Fetching == answer = Source!Pending /\ batch # {}

Init ==
  /\ NetworkInit
  /\ endpoint \in Endpoints
  /\ start \in Starts /\ ids \in (SUBSET Contracts) \ {{}}
  /\ todo = ids /\ batch = {} /\ position = <<>> /\ retries = 0
  /\ merged = <<>> /\ next = <<>> /\ answer = Source!Pending
  /\ height = 0

TakeBatch(B) ==
  /\ answer = Source!Pending /\ batch = {}
  /\ Cardinality(B) = Min({BatchCap, Cardinality(todo)})
  /\ batch' = B /\ todo' = todo \ B
  /\ UNCHANGED <<netVars, callVars, position, retries, merged, next, answer, height>>

\* A node serves a page.  A full page is followed by another request.
Page(h, page, cursorless) ==
  LET received == {e \in ToSet(merged) \cup ToSet(page) : e.contract \in batch} IN
  /\ Fetching /\ InRange(h)
  /\ ToSet(page) \cap Garbled = {}
  /\ merged' = merged \o page
  /\ IF Exhausted(page, cursorless)
       THEN EndBatch(ResumeAfter(received, h))
       ELSE position' = <<Last(page)>> /\ retries' = 0 /\ UNCHANGED <<batch, next>>
  /\ height' = h
  /\ UNCHANGED <<netVars, callVars, todo, answer>>

\* The node's tip lies below the requested ledger: nothing to fetch.
AboveTip(h) ==
  /\ Fetching /\ HoldsAboveTip(h)
  /\ EndBatch(start)
  /\ height' = h
  /\ UNCHANGED <<netVars, callVars, todo, merged, answer>>

\* Mutant of RetryLeft: one too many.
RetryLeftInclusive == retries <= RetryBudget

RetryLeft == retries < RetryBudget

\* A transport-level fault, within the budget of the request.
Retry ==
  /\ Fetching /\ RetryLeft
  /\ retries' = retries + 1
  /\ UNCHANGED <<netVars, callVars, todo, batch, position, merged, next, answer, height>>

\* The budget is spent, the error is permanent, a node refuses the range, or a
\* page holds an event that cannot be decoded: all that was fetched is dropped.
Fails ==
  /\ Fetching
  /\ answer' = Source!Failed
  /\ UNCHANGED <<netVars, callVars, todo, batch, position, retries, merged, next, height>>

\* Two's complement: what i32 addition does without overflow checks.
Wrap(n) == IF n > MaxInt THEN n - 2 * (MaxInt + 1) ELSE n

\* BackfillSource: start_ledger.saturating_add(max_span), and one past it.
Ceiling == Min({start + MaxSpan, MaxInt})
PastCeiling == Wrap(Ceiling + 1)

\* Mutant of Ordered: batch after batch.
AsReceived(events) == {events}

\* sort_unstable_by: the events, rearranged in any way that is in chain order.
Ordered(events) ==
  {s \in {[i \in DOMAIN events |-> events[p[i]]] : p \in SetToSeqs(DOMAIN events)} :
     InOrder(s)}

\* retain: of events in chain order, those up to the ceiling are the first ones.
Retained(events) ==
  {SubSeq(events, 1, n) : n \in {m \in 0 .. Len(events) :
     \A i \in DOMAIN events : i <= m <=> events[i].ledger <= Ceiling}}

\* The end of fetch: chain order is restored, and a replay is cut at its ceiling.
Return ==
  /\ answer = Source!Pending /\ batch = {} /\ todo = {}
  /\ \E sorted \in Ordered(merged) :
       \/ endpoint = "live" /\ answer' = Source!Ok(sorted, next[1])
       \/ /\ endpoint = "replay"
          /\ \E kept \in Retained(sorted) :
               answer' = Source!Ok(kept, Min({next[1], PastCeiling}))
  /\ UNCHANGED <<netVars, callVars, todo, batch, position, retries, merged, next, height>>

Nodes == low[endpoint] .. tip

Next ==
  \/ \E B \in (SUBSET todo) \ {{}} : TakeBatch(B)
  \/ \E h \in Nodes :
       \/ AboveTip(h)
       \/ \E page \in PagesAt(h) :
            \E cursorless \in Cursorless(h, page) : Page(h, page, cursorless)
  \/ Retry
  \/ Fails
  \/ Return
  \/ (CloseLedger \/ Prune(endpoint)) /\ UNCHANGED <<callVars, fetchVars>>

Spec == Init /\ [][Next]_vars

-----------------------------------------------------------------------------
TypeOK ==
  /\ NetworkTypeOK
  /\ endpoint \in Endpoints /\ start \in Nat /\ ids \subseteq Contracts
  /\ todo \subseteq ids /\ batch \subseteq ids \ todo
  /\ position \in Seq(Events) /\ Len(position) <= 1
  /\ retries \in 0 .. RetryBudget
  /\ merged \in Seq(Events) /\ next \in Seq(Nat) /\ Len(next) <= 1
  /\ answer.kind \in {"pending", "ok", "err"}
  /\ answer.events \in Seq(Events) /\ answer.next \in Int
  /\ height \in Nat

(***************************************************************************)
(* Whatever the batches, the pages, the retries and the nodes that answered *)
(* them, the call keeps the promise of the trait: all events before the     *)
(* ledger to resume from, each once (event_source.rs:81-84, 286, 310-312).  *)
(***************************************************************************)
HonoursTrait == Source!Spec

(***************************************************************************)
(* A batch of several pages, served by nodes of different heights, ends     *)
(* with what the last of them alone would have answered: no page of a       *)
(* higher node is kept beside a hole left by a lower one                    *)
(* (event_source.rs:236-241: "a paging cursor cannot be out of range").      *)
(* EventLoop!FetchBatch relies on it.                                       *)
(***************************************************************************)
BatchIsOneAnswer ==
  [][batch # {} /\ batch' = {} =>
       {e \in ToSet(merged') : e.contract \in batch} = Visible(start, height', batch)]_vars

(***************************************************************************)
(* The events of a call are handed on in chain order, across batches and    *)
(* pages (event_source.rs:83-84, 321-326).                                  *)
(***************************************************************************)
InChainOrder ==
  \A i, j \in DOMAIN answer.events :
    i < j => Before(answer.events[i], answer.events[j])

=============================================================================
