------------------------------ MODULE ChainList ------------------------------
(***************************************************************************)
(* What add_first_chain promises of operations.supported_chains: a list of  *)
(* deployments that only grows, takes each one once and calls the first one *)
(* it finds without a primary entry the primary one.                        *)
(***************************************************************************)
EXTENDS Sequences, Naturals

CONSTANTS
  Deployments,  \* the (chain_id, op_token) pairs of one operation
  Seeds         \* lists another program may write first

VARIABLE chains

Listing == [of : Deployments, primary : BOOLEAN]

OnePrimary(list) ==
  \A i, j \in 1 .. Len(list) : list[i].primary /\ list[j].primary => i = j
NoRepeat(list) ==
  \A i, j \in 1 .. Len(list) : list[i].of = list[j].of => i = j

ASSUME ChainListAssumption ==
  \A list \in Seeds : list \in Seq(Listing) /\ OnePrimary(list) /\ NoRepeat(list)

\* The array holds an object with this chain and token.
Holds(list, d) == \E i \in 1 .. Len(list) : list[i].of = d

HasPrimary(list) == \E i \in 1 .. Len(list) : list[i].primary

\* Mutants of WithEntry: the bare pair is appended, not an object; primary when
\* it is the first entry.
WithBareEntry(list, d) == Append(list, d)
WithEntryFirstIsPrimary(list, d) == Append(list, [of |-> d, primary |-> list = <<>>])

\* The SET clause.
WithEntry(list, d) == Append(list, [of |-> d, primary |-> ~HasPrimary(list)])

Init == chains = <<>>

Seed(list) == chains = <<>> /\ chains' = list

Add(d) == ~Holds(chains, d) /\ chains' = WithEntry(chains, d)

Next ==
  \/ \E list \in Seeds : Seed(list)
  \/ \E d \in Deployments : Add(d)

Spec == Init /\ [][Next]_chains

=============================================================================
