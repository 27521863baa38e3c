---------------------------- MODULE MCProjection ----------------------------
(***************************************************************************)
(* Small instances of Projection for TLC: F is the factory, o an operation *)
(* with token T, p an operation of another chain with token U.              *)
(***************************************************************************)
EXTENDS Projection

CONSTANTS F, T, U, o, p

Ev(l, k, op) ==
  [ledger |-> l, tx |-> l, pos |-> 1, contract |-> F, op |-> op, kind |-> k, shares |-> 1]

TokenOf == [q \in Ops |-> IF q = o THEN T ELSE U]
TotalOf == [q \in Ops |-> 2]

Created1 == Ev(1, "op_created", o)
Foreign2 == Ev(2, "op_created", p)
Open3 == Ev(3, "op_predeposits_open", o)
Start3 == [Ev(3, "op_started", o) EXCEPT !.pos = 2]
Fiat4 == Ev(4, "invested_fiat", o)
Bought5 == Ev(5, "invested", o)
Start6 == Ev(6, "op_started", o)
Refund7 == [Ev(7, "refunded", o) EXCEPT !.shares = 2]
Bought8 == [Ev(8, "invested", o) EXCEPT !.shares = 2]
Bought8Wide == [Ev(8, "invested", o) EXCEPT !.pos = 2]
Fiat9 == Ev(9, "invested_fiat", o)
Finish9 == Ev(9, "op_finished", o)
Cancel9 == [Ev(9, "op_canceled", o) EXCEPT !.pos = 2]
Start7 == Ev(7, "op_started", p)
Pause7 == Ev(7, "op_paused", o)
Resume8 == Ev(8, "op_resumed", o)
Transfer10 == [Ev(10, "op_lend_transfered", o) EXCEPT !.contract = T]

\* A sale that is refunded beyond what was bought on chain (the rest was bought
\* with fiat) and picks up again; a cancellation beside an operation of another
\* chain; a finish; a pause; an amount that does not fit BIGINT.
Sales ==
  {<<Created1, Open3, Fiat4, Bought5, Refund7, Bought8, Finish9>>,
   <<Created1, Foreign2, Open3, Start6, Start7, Cancel9>>,
   <<Created1, Start3, Bought5, Finish9, Transfer10>>,
   <<Created1, Start3, Pause7, Resume8, Fiat9>>,
   <<Created1, Open3, Start3, Bought8Wide, Finish9>>}
OutOfRange == {Bought8Wide}

SalesEvents == UNION {{h[i] : i \in DOMAIN h} : h \in Sales}
Fiat == {Fiat4, Fiat9}
\* Other chains may finish o, too, and start p, which is theirs.
RowsAbroad == {<<o, "op_finished">>, <<p, "op_started">>}
AllKept == [s \in Endpoints |-> 1]

\* What the theorems assume of histories and keys holds of these.
ASSUME Lifecycle /\ Course /\ Ordered /\ HashesDistinct

=============================================================================
