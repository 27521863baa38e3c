---------------------------- MODULE MCIndexer ------------------------------
(***************************************************************************)
(* Small instances of Indexer for TLC: F is the factory, T and U tokens, o  *)
(* an operation.                                                            *)
(***************************************************************************)
EXTENDS Indexer

CONSTANTS F, T, U, o

Ev(l, p, c, k) ==
  [ledger |-> l, tx |-> 10 * l + p, pos |-> p, contract |-> c, op |-> o, kind |-> k,
   shares |-> 1]

\* A creation, a transfer in the same ledger, a quiet ledger, then more; the
\* event of the last ledger is one this build cannot decode.
Creations ==
  {Ev(2, 1, F, "op_created"), Ev(2, 2, T, "op_lend_transfered"), Ev(4, 1, F, "invested"),
   Ev(5, 1, T, "op_lend_transfered")}
LastGarbled == {Ev(5, 1, T, "op_lend_transfered")}

\* No creation, hence no refresh after boot.
Quiet ==
  {Ev(1, 1, F, "invested"), Ev(2, 1, T, "op_lend_transfered"), Ev(3, 1, F, "unindexed"),
   Ev(3, 2, T, "op_lend_transfered")}

\* A token has an event in the ledger that also holds a creation.
CreationBesideTransfer == {Ev(3, 1, F, "op_created"), Ev(3, 2, T, "op_lend_transfered")}

\* One transaction with two transfers, of two tokens.
TwoTokens ==
  {[Ev(1, 0, T, "op_lend_transfered") EXCEPT !.tx = 1],
   [Ev(1, 1, U, "op_lend_transfered") EXCEPT !.tx = 1]}

\* Nothing pruned yet; the first ledger pruned from the live node.
AllKept == [s \in Endpoints |-> 1]
LivePruned == [live |-> 2, replay |-> 1]

=============================================================================
