------------------------------ MODULE MCStorage ------------------------------
(***************************************************************************)
(* What the store keeps, for TLC: the rows that a few transactions become,  *)
(* and the supported chains that a few callers write.  The two share no     *)
(* state, so no interleaving of them adds anything: a behaviour takes the   *)
(* steps of one.                                                            *)
(***************************************************************************)
EXTENDS MCActivities, MCSupportedChains

VARIABLE part  \* the part whose steps this behaviour takes

StorageVars == <<acVars, vars, part>>

StorageInit == ACInit /\ SCInit /\ part \in {"rows", "chains"}

StorageNext ==
  /\ \/ part = "rows" /\ ACNext /\ UNCHANGED vars
     \/ part = "chains" /\ SCNext /\ UNCHANGED acVars
  /\ UNCHANGED part

StorageSpec == StorageInit /\ [][StorageNext]_StorageVars

=============================================================================
