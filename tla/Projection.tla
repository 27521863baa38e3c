----------------------------- MODULE Projection -----------------------------
(***************************************************************************)
(* The store task against any event loop.  The other task is reduced to     *)
(* what the handler can see of it: a loop that sends the events of the      *)
(* chain in order, perhaps some of them again (a batch that lagged, a       *)
(* restart), and that takes commands at some time or other.  The properties *)
(* compare the operations table with the activity table it is derived from. *)
(***************************************************************************)
EXTENDS Handler

CONSTANTS
  Histories,   \* what the chain may send: sequences of events
  MaxRereads   \* bound: events sent a second time

ASSUME ProjectionAssumption ==
  /\ Histories \subseteq Seq(Events)
  /\ MaxRereads \in Nat

VARIABLES
  feed,       \* events still to come
  fed,        \* events sent at least once
  rereads     \* repetitions left

feedVars == <<feed, fed, rereads>>
vars == <<netVars, chanVars, handlerVars, feedVars>>

Init ==
  /\ NetworkInit /\ DbInit
  /\ evQ = <<>> /\ cmdQ = <<>>
  /\ hpc = "recv" /\ batch = <<>> /\ totals = NoTotals /\ command = <<>>
  /\ op_data = Loaded
  /\ feed \in Histories /\ fed = {} /\ rereads = MaxRereads

MessageFor(e) == [event |-> e, hash |-> <<e.tx, e.pos, e.kind>>]

Feed ==
  /\ feed # <<>>
  /\ Post(MessageFor(Head(feed)))
  /\ feed' = Tail(feed) /\ fed' = fed \cup {Head(feed)}
  /\ UNCHANGED <<netVars, cmdQ, handlerVars, rereads>>

Reread(e) ==
  /\ rereads > 0 /\ rereads' = rereads - 1
  /\ Post(MessageFor(e))
  /\ UNCHANGED <<netVars, cmdQ, handlerVars, feed, fed>>

TakeCommand ==
  /\ cmdQ # <<>>
  /\ cmdQ' = Tail(cmdQ)
  /\ UNCHANGED <<netVars, evQ, handlerVars, feedVars>>

Next ==
  \/ HandlerStep /\ UNCHANGED <<netVars, feedVars>>
  \/ Feed \/ (\E e \in fed : Reread(e)) \/ TakeCommand
  \/ OthersStep /\ UNCHANGED <<netVars, feedVars>>

Spec == Init /\ [][Next]_vars

-----------------------------------------------------------------------------
(***************************************************************************)
(* What is assumed of the contracts, which are not in this repository, where *)
(* a property relies on it.                                                 *)
(***************************************************************************)
Openers == {"op_predeposits_open", "op_started"}
Closers == {"op_finished", "op_canceled"}

\* The kinds of the events of an operation that precede the i-th of a history.
Earlier(h, i) == {h[j].kind : j \in {k \in 1 .. i - 1 : h[k].op = h[i].op}}

\* An operation is created before anything else, and open before its shares move
\* or it finishes.
Lifecycle ==
  \A h \in Histories : \A i \in DOMAIN h :
    /\ h[i].kind \in StatusEvents \ {"op_created"} => "op_created" \in Earlier(h, i)
    /\ h[i].kind \in {"invested", "refunded", "op_finished"} => Earlier(h, i) \cap Openers # {}

\* The stages of an operation, in the order its contract goes through them.
Stage ==
  [op_created |-> 0, op_predeposits_open |-> 1, op_started |-> 2, op_paused |-> 3,
   op_resumed |-> 4, op_finished |-> 5, op_canceled |-> 6]

\* Its status moves forward, except that it may be paused over and over, and not
\* at all once it is finished or canceled.
Course ==
  \A h \in Histories : \A i \in DOMAIN h :
    h[i].kind \in StatusEvents =>
      /\ Earlier(h, i) \cap Closers = {}
      /\ h[i].kind # "op_paused" =>
           \A k \in Earlier(h, i) \cap StatusEvents : Stage[k] <= Stage[h[i].kind]
      /\ h[i].kind = "op_resumed" => "op_paused" \in Earlier(h, i)

\* A history is in chain order.
Ordered == \A h \in Histories : \A i, j \in DOMAIN h : i < j => Before(h[i], h[j])

\* The key of a row names its event.
HashesDistinct ==
  \A e, f \in Events : MessageFor(e).hash = MessageFor(f).hash => e = f

TypeOK ==
  /\ HandlerTypeOK /\ ChannelsTypeOK
  /\ feed \in Seq(Events) /\ fed \subseteq Events
  /\ rereads \in Nat

\* The task has finished with a message, and no statement ever failed.
AtRest == hpc = "recv" /\ dbFaults = MaxDbFaults

Followed == Ops \ (Drafts \cup Unregistered)

\* No total is out of BIGINT's range.
AllFit == \A r \in rows : r.event \notin Wide

\* The operations whose status this worker keeps.
Ours == Followed \ Foreign

(***************************************************************************)
(* shares_sold follows the activity table: once a message is done with, the *)
(* only rows it may still miss are sales on other chains, which overtook    *)
(* this task's read (handler.rs:168-256, activity_model.rs:90-111).  An     *)
(* amount that does not fit BIGINT stops it for every operation; one that   *)
(* another worker opens is current from the next message on only.           *)
(***************************************************************************)
ProgressCurrent ==
  AtRest /\ AllFit =>
    \A o \in Ongoing \cap Ours :
      LET net == NetFunded(o, evmSold[o]) IN
      sold[o] <= net /\ net <= sold[o] + evmSold[o]

(***************************************************************************)
(* stellar_shares_sold counts this chain alone, whatever other chains sell  *)
(* between the reads and the write (handler.rs:180-187, 218-245).           *)
(***************************************************************************)
StellarProgressCurrent ==
  AtRest /\ AllFit => \A o \in Ongoing \cap Ours : soldHere[o] = NetFunded(o, 0)

(***************************************************************************)
(* The status of an operation is that of its last status event on chain:    *)
(* the priorities stand for the order of the events, the in-memory copy of  *)
(* the chains is fresh enough, and no trigger is missed (handler.rs:271-289, *)
(* activity_repository.rs:332-371), whatever happens to the progress.       *)
(* Or it is that of a row of another chain, which the query does not tell   *)
(* apart.  `finished' may wait for a sale that is still incomplete, or that *)
(* another chain completed later; `paused' is never left                    *)
(* (op_repository.rs:140).                                                  *)
(***************************************************************************)
StatusCurrent ==
  AtRest =>
    \A o \in Ours :
      \A e \in OfOp(o, StatusEvents) :
        (\A f \in OfOp(o, StatusEvents) : ~Before(e, f)) =>
          \/ status[o] = "paused" /\ OfOp(o, {"op_paused"}) # {}
          \/ \E k \in {e.kind} \cup elsewhere[o] :
               \/ status[o] = FundingStatusOf[k]
               \/ k = "op_finished" /\ (sold[o] # Total[o] \/ evmSold[o] > 0)

(***************************************************************************)
(* Where another chain is primary its worker owns the status: this task     *)
(* never writes it, whichever events it stores (handler.rs:280-289).        *)
(***************************************************************************)
ForeignStatusUntouched ==
  [][taskVars' # taskVars => \A o \in Foreign : status'[o] = status[o]]_vars

(***************************************************************************)
(* An operation this chain is primary for is finished only when it is sold  *)
(* out across chains, and stays so: the gate reads shares_sold when it      *)
(* writes the status (op_repository.rs:244-247), and no later progress      *)
(* write reopens the sum.                                                   *)
(***************************************************************************)
FinishedSoldOut == \A o \in Ops \ Foreign : status[o] = "finished" => sold[o] = Total[o]

(***************************************************************************)
(* A fiat holding is only ever derived from a stored investment, once,      *)
(* however often its event is sent and whatever fails: fiat_holdings has no *)
(* key of its own, only the unique event_hash of the activity row stands    *)
(* between a repetition and a second holding (handler.rs:133-142, 315-359). *)
(***************************************************************************)
HoldingsBacked ==
  \A e \in Custodial : holdings[e] <= Cardinality({r \in rows : r.event = e})

(***************************************************************************)
(* ... and unless a statement failed every custodial investment has its     *)
(* holding once its message is done with, as long as some operation is      *)
(* unfinished: the effects are skipped when none is (handler.rs:290-296),   *)
(* and one that was paused and resumed does not count.                      *)
(***************************************************************************)
HoldingsMatch ==
  AtRest /\ Unfinished \cap Followed # {} =>
    \A e \in Custodial : holdings[e] = Cardinality({r \in rows : r.event = e})

=============================================================================
