----------------------------- MODULE MCRpcSource -----------------------------
(***************************************************************************)
(* Small instances of RpcSource for TLC: contracts F, T and U, an operation *)
(* o.                                                                       *)
(***************************************************************************)
EXTENDS RpcSource

CONSTANTS F, T, U, o

Ev(l, p, c) ==
  [ledger |-> l, tx |-> l, pos |-> p, contract |-> c, op |-> o, kind |-> "invested",
   shares |-> 1]

\* Three events of one ledger, which two pages of two split; then one event in
\* each of two ledgers, the last of which this build cannot decode.
Split ==
  {Ev(2, 1, F), Ev(2, 2, U), Ev(2, 3, T), Ev(2, 4, F), Ev(3, 1, T), Ev(4, 1, U)}
LastGarbled == {Ev(4, 1, U)}
AllKept == [s \in Endpoints |-> 1]

ASSUME MCRpcSourceAssumption == PlacesDistinct /\ RoomForSpan

=============================================================================
