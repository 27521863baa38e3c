-------------------------- MODULE MCSupportedChains --------------------------
(***************************************************************************)
(* One operation: its creation is handled, and replayed, while the worker   *)
(* of another chain records its own deployment with the same statement and  *)
(* two transactions seed the list.                                          *)
(***************************************************************************)
EXTENDS SupportedChains

CONSTANTS Stellar, Evm, call, replay, sibling, api, backend

Records == [s \in Statements |-> IF s = sibling THEN Evm ELSE Stellar]
Seeded ==
  {<<[of |-> Evm, primary |-> TRUE]>>, <<[of |-> Evm, primary |-> FALSE]>>}

=============================================================================
