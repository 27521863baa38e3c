---------------------------- MODULE MCHubbleSource ---------------------------
(***************************************************************************)
(* Small instances of HubbleSource for TLC: contracts F and T, an operation *)
(* o.                                                                       *)
(***************************************************************************)
EXTENDS HubbleSource

CONSTANTS F, T, o

Ev(l, t, p, c) ==
  [ledger |-> l, tx |-> t, pos |-> p, contract |-> c, op |-> o, kind |-> "invested",
   shares |-> 1]

\* Two contracts share the first transaction; ledger 6 is quiet, the row of
\* ledger 8 was not serialised.
History ==
  {Ev(5, 1, 1, F), Ev(5, 1, 2, T), Ev(5, 2, 3, T), Ev(7, 3, 1, F), Ev(8, 4, 1, T),
   Ev(9, 5, 1, F)}
Unserialised == {Ev(8, 4, 1, T)}

\* A younger network and an older one.
Strangers == {1, 20}
AllKept == [s \in Endpoints |-> 1]

=============================================================================
