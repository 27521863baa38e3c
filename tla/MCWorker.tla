------------------------------ MODULE MCWorker ------------------------------
(***************************************************************************)
(* Small instances of Worker for TLC: F is the factory, o an operation with *)
(* token T, d an operation that is registered late, R the rewards contract. *)
(***************************************************************************)
EXTENDS Worker

CONSTANTS F, T, U, R, o, d

Ev(l, p, c, k, op) ==
  [ledger |-> l, tx |-> l, pos |-> p, contract |-> c, op |-> op, kind |-> k, shares |-> 1]

TokenOf == [q \in Ops |-> IF q = o THEN T ELSE U]
TotalOf == [q \in Ops |-> 1]
AllKept == [s \in Endpoints |-> 1]

\* The worker boots at ledger 2; what lies before it is pruned.
KeptFromBoot == [s \in Endpoints |-> 2]

\* Two custodial sales share a ledger; the token is used after its creation, as
\* is the rewards contract; d is created late.
Fiat1 == Ev(4, 0, F, "invested_fiat", o)
Fiat2 == Ev(4, 1, F, "invested_fiat", o)
Life ==
  {Ev(2, 0, F, "op_created", o), Fiat1, Fiat2, Ev(5, 0, T, "op_lend_transfered", o)}
Fiats == {Fiat1, Fiat2}
LifeAndDraft ==
  Life \cup {Ev(5, 1, R, "claimed_rewards", o), Ev(4, 2, F, "op_created", d)}

\* As many creations in one sweep as fill both channels and both tasks.
ManyCreations == {Ev(2, p, F, "op_created", o) : p \in 0 .. 3}

ASSUME Emitters /\ OneNumbering /\ HashesDistinct /\ Bounded

=============================================================================
