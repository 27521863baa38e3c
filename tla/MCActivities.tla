---------------------------- MODULE MCActivities ----------------------------
(***************************************************************************)
(* Three users, one of them the OpLend wallet, and amounts on both sides of *)
(* the digit that is dropped.                                               *)
(***************************************************************************)
EXTENDS Activities, TLC

CONSTANTS alice, bob, wallet, FactoryId, TokenId

Symmetry == Permutations({alice, bob})

=============================================================================
