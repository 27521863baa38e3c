------------------------------ MODULE Channels ------------------------------
(***************************************************************************)
(* The two bounded channels Handler::run creates between its tasks:         *)
(* tx_events carries the activities of one event at a time to the handler,  *)
(* tx_cmd carries the contract set back to the event loop.                  *)
(***************************************************************************)
EXTENDS Network, Sequences

CONSTANTS
  EvCap,    \* capacity of tx_events
  CmdCap,   \* capacity of tx_cmd
  Factory,  \* FACTORY_CONTRACT_ID, in every command
  StartLedger  \* START_LEDGER, read by both tasks

ASSUME ChannelsAssumption ==
  /\ EvCap \in Nat \ {0} /\ CmdCap \in Nat \ {0}
  /\ Factory \in Contracts
  /\ StartLedger \in Nat

VARIABLES evQ, cmdQ

chanVars == <<evQ, cmdQ>>

\* IndexerCommand::UpdateContracts, with the largest latest_block of the list.
Command ==
  [observed : SUBSET Contracts, latest : Nat, ops : SUBSET Ops]

\* The rows one event yields, as one message: `hash' is their event_hash, whose
\* suffix is a function of the kind.
Hash == Nat \X Nat \X Kinds
Message == [event : Events, hash : Hash]

ChannelsTypeOK == evQ \in Seq(Message) /\ cmdQ \in Seq(Command)

\* A send completes only when the channel has room.
Post(m) == Len(evQ) < EvCap /\ evQ' = Append(evQ, m)
Send(c) == Len(cmdQ) < CmdCap /\ cmdQ' = Append(cmdQ, c)

Larger(a, b) == IF a < b THEN b ELSE a
Smaller(a, b) == IF a < b THEN a ELSE b

=============================================================================
