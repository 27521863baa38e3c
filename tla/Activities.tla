----------------------------- MODULE Activities -----------------------------
(***************************************************************************)
(* From a contract event to the rows that stand for it: decode_event and    *)
(* handle_event (crates/lw-chain/src/log_handlers.rs, scval.rs),            *)
(* build_activity (crates/lw-domain/src/activity_builder.rs), insert_many   *)
(* and the fiat holding the handler derives.  The contracts are external:   *)
(* they move tokens and USDC between users and say so in events laid out as *)
(* in tests/golden.rs.  One operation, known to the worker.                 *)
(***************************************************************************)
EXTENDS Integers, SequencesExt

CONSTANTS
  Users,       \* addresses of investors, the OpLend wallet among them
  Wallet,      \* oplend_wallet, NoOne when none is configured
  Factory,     \* FACTORY_CONTRACT_ID, ignored as a party of a transfer
  Token,       \* the operation's token, observed
  Production,  \* whether amounts of USDC carry 7 decimals on chain
  UsdcAmounts, \* bound: amounts of USDC that move at once
  MaxEvents    \* bound: transactions

NoOne == "none"

ASSUME ActivitiesAssumption ==
  /\ Wallet \in Users \cup {NoOne} /\ Factory \notin Users /\ NoOne \notin Users
  /\ Production \in BOOLEAN
  /\ UsdcAmounts \subseteq Nat /\ MaxEvents \in Nat

VARIABLES
  rows,     \* activity
  holdings, \* fiat_holdings: shares held for a user
  \* The chain.
  txs,      \* transactions so far
  tokens,   \* balances of the operation's token
  sent,     \* users that sent tokens to the factory
  moved,    \* USDC moved, per kind of event
  custody   \* shares the wallet received for a user

acVars == <<rows, holdings, txs, tokens, sent, moved, custody>>

\* Topics after the name, by position, and the fields read from the data map.
TopicsOf ==
  [op_predeposits_open |-> <<"op">>, op_predeposits_closed |-> <<"op">>,
   op_started |-> <<"op">>, op_paused |-> <<"op">>, op_resumed |-> <<"op">>,
   op_canceled |-> <<"op">>, op_finished |-> <<"op">>, funding_withdrawn |-> <<"op">>,
   op_created |-> <<"address", "op">>,
   invested |-> <<"address", "op">>, refunded |-> <<"address", "op">>,
   claimed_op_token |-> <<"address", "op">>,
   invested_fiat |-> <<"address", "address", "op">>,
   op_lend_transfered |-> <<"address", "address">>,
   claimed_rewards |-> <<"op", "address">>,
   rewards_distributed |-> <<"op", "u32">>]

FieldsOf(kind) ==
  CASE kind \in {"invested", "refunded"} -> {"usdc", "shares"}
    [] kind \in {"funding_withdrawn", "claimed_rewards", "rewards_distributed"} -> {"usdc"}
    [] kind \in {"op_created", "invested_fiat"} -> {"shares"}
    [] kind \in {"op_lend_transfered", "claimed_op_token"} -> {"amount"}
    [] kind = "op_finished" -> {"euro"}
    [] OTHER -> {}

\* symbol_name, as_u32, as_address, as_i128: a topic is a value of one type, an
\* event of another shape is an error the caller skips.
Decodes(raw) ==
  /\ raw.kind \in DOMAIN TopicsOf
  /\ LET types == TopicsOf[raw.kind] IN
       /\ Len(raw.topics) >= Len(types)
       /\ \A i \in DOMAIN types :
            raw.topics[i].type = IF types[i] = "address" THEN "address" ELSE "u32"
  /\ FieldsOf(raw.kind) \subseteq DOMAIN raw.data

\* The address a topic holds.
Party(raw, i) == raw.topics[i].value

\* Mutant of usdc_to_db_units: the extra digit is rounded up.
usdc_rounded(amount) == IF Production THEN (amount + 9) \div 10 ELSE amount

\* 7 decimals on chain, 6 in the store.
usdc_to_db_units(amount) ==
  IF amount <= 0 THEN 0 ELSE IF Production THEN amount \div 10 ELSE amount

\* The amount of USDC a row stores.
StoredUsdc(raw) ==
  IF "usdc" \notin FieldsOf(raw.kind) THEN 0
  ELSE IF raw.kind = "funding_withdrawn" THEN raw.data["usdc"]
  ELSE usdc_to_db_units(raw.data["usdc"])

Quantity(raw) ==
  LET shares == FieldsOf(raw.kind) \cap {"shares", "amount"} IN
  IF shares = {} THEN 0 ELSE raw.data[CHOOSE f \in shares : TRUE]

\* ActivityBuilder: what the rows of every event have in common.
Row(raw, user, suffix) ==
  [type |-> raw.kind, hash |-> <<raw.tx, raw.index, suffix>>, user |-> user,
   usdc |-> StoredUsdc(raw), quantity |-> Quantity(raw),
   holder |-> IF raw.kind = "invested_fiat" THEN Party(raw, 2) ELSE NoOne]

\* Mutant of TransferRows: one hash for both.
TransferRowsOneHash(raw) ==
  {Row(raw, Party(raw, i), "transferred") : i \in {1, 2}}

\* The sender's row and the recipient's, told apart by the suffix.
TransferRows(raw) ==
  {Row(raw, Party(raw, 1), "from"), Row(raw, Party(raw, 2), "to")}

\* Mutant of Ignored: the parties are not looked at.
IgnoredNever(raw) == raw.contract # Token

\* A transfer of anything but an operation's token, or to or from the factory.
Ignored(raw) ==
  raw.contract # Token \/ Factory \in {Party(raw, 1), Party(raw, 2)}

\* Who a row is attributed to: the address the event names as its user, if any.
UserOf(raw) ==
  CASE raw.kind \in {"invested", "refunded", "claimed_op_token", "invested_fiat"} -> Party(raw, 1)
    [] raw.kind = "claimed_rewards" -> Party(raw, 2)
    [] OTHER -> NoOne

RowsOf(raw) ==
  IF ~Decodes(raw) THEN {}
  ELSE IF raw.kind # "op_lend_transfered" THEN {Row(raw, UserOf(raw), raw.kind)}
  ELSE IF Ignored(raw) THEN {} ELSE TransferRows(raw)

\* insert_many: all the rows of an event or none, event_hash being UNIQUE.
Stored(old, new) ==
  LET hashes == {r.hash : r \in new} IN
  IF Cardinality(hashes) = Cardinality(new) /\ hashes \cap {r.hash : r \in old} = {}
    THEN old \cup new ELSE old

\* Mutant of Custodial: whoever the tokens went to.
CustodialForAnyone(r) == r.type = "invested_fiat"

\* What sync_op_status derives a holding from.
Custodial(r) ==
  /\ r.type = "invested_fiat" /\ Wallet # NoOne
  /\ r.holder = Wallet /\ r.user \notin {Wallet, NoOne}

\* What a field adds up to over a set of rows.
Sum(field, S) == MapThenSumSet(LAMBDA r : r[field], S)

\* Every event of a transaction goes through the pipeline, in order.
Process(raws) ==
  /\ rows' = FoldLeft(LAMBDA old, raw : Stored(old, RowsOf(raw)), rows, raws)
  /\ holdings' = [u \in Users |->
       holdings[u] + Sum("quantity", {r \in rows' \ rows : Custodial(r) /\ r.user = u})]

-----------------------------------------------------------------------------
\* What the contracts emit.
Address(a) == [type |-> "address", value |-> a]
Number == [type |-> "u32", value |-> 0]

Raw(index, contract, kind, topics, data) ==
  [tx |-> txs, index |-> index, contract |-> contract, kind |-> kind,
   topics |-> topics, data |-> data]

TransferRaw(index, u, v) ==
  Raw(index, Token, "op_lend_transfered", <<Address(u), Address(v)>>, [amount |-> 1])

Emit(raws) == txs < MaxEvents /\ txs' = txs + 1 /\ Process(raws)

\* An investor claims a token the factory holds for them.
Claim(u) ==
  /\ Emit(<<Raw(0, Factory, "claimed_op_token", <<Address(u), Number>>, [amount |-> 1]),
            TransferRaw(1, Factory, u)>>)
  /\ tokens' = [tokens EXCEPT ![u] = tokens[u] + 1]
  /\ UNCHANGED <<sent, moved, custody>>

Transfer(u, v) ==
  /\ tokens[u] > 0
  /\ Emit(<<TransferRaw(0, u, v)>>)
  /\ tokens' = [w \in Users |-> (tokens[w] + IF w = v THEN 1 ELSE 0) - IF w = u THEN 1 ELSE 0]
  /\ UNCHANGED <<sent, moved, custody>>

SendBack(u) ==
  /\ tokens[u] > 0
  /\ Emit(<<TransferRaw(0, u, Factory)>>)
  /\ tokens' = [tokens EXCEPT ![u] = tokens[u] - 1]
  /\ sent' = sent \cup {u}
  /\ UNCHANGED <<moved, custody>>

Moves(kind, amount) == moved' = [moved EXCEPT ![kind] = moved[kind] + amount]

\* invested, refunded: USDC against shares.
Trade(kind, u, amount) ==
  /\ Emit(<<Raw(0, Factory, kind, <<Address(u), Number>>, [usdc |-> amount, shares |-> 1])>>)
  /\ Moves(kind, amount)
  /\ UNCHANGED <<tokens, sent, custody>>

\* The escrow is paid out, rewards are distributed.
PayOut(kind, amount) ==
  /\ Emit(<<Raw(0, Factory, kind, <<Number, Number>>, [usdc |-> amount])>>)
  /\ Moves(kind, amount)
  /\ UNCHANGED <<tokens, sent, custody>>

ClaimRewards(u, amount) ==
  /\ Emit(<<Raw(0, Factory, "claimed_rewards", <<Number, Address(u)>>, [usdc |-> amount])>>)
  /\ Moves("claimed_rewards", amount)
  /\ UNCHANGED <<tokens, sent, custody>>

\* A purchase in fiat, whose shares go to `holder'.
BuyWithFiat(u, holder) ==
  /\ Emit(<<Raw(0, Factory, "invested_fiat", <<Address(u), Address(holder), Number>>,
                [shares |-> 1])>>)
  /\ custody' = IF holder = Wallet /\ u # Wallet
                  THEN [custody EXCEPT ![u] = custody[u] + 1] ELSE custody
  /\ UNCHANGED <<tokens, sent, moved>>

\* Events without amounts, events of other programs, and a transfer whose data
\* is not the map the token contract emits.
Other ==
  /\ \E raw \in {Raw(0, Factory, "op_started", <<Number>>, <<>>),
                 Raw(0, Factory, "op_created", <<Address(Token), Number>>, [shares |-> 1]),
                 Raw(0, Factory, "gifted", <<Number>>, [usdc |-> 1]),
                 Raw(0, Token, "op_lend_transfered", <<>>, <<>>)} : Emit(<<raw>>)
  /\ UNCHANGED <<tokens, sent, moved, custody>>

UsdcKinds ==
  {"invested", "refunded", "claimed_rewards", "rewards_distributed", "funding_withdrawn"}

ACInit ==
  /\ rows = {} /\ holdings = [u \in Users |-> 0]
  /\ txs = 0 /\ tokens = [u \in Users |-> 0] /\ sent = {}
  /\ moved = [k \in UsdcKinds |-> 0] /\ custody = [u \in Users |-> 0]

ACNext ==
  \/ \E u, v \in Users : Transfer(u, v) \/ BuyWithFiat(u, v)
  \/ \E u \in Users : Claim(u) \/ SendBack(u)
  \/ \E amount \in UsdcAmounts :
       \/ \E kind \in {"invested", "refunded"}, u \in Users : Trade(kind, u, amount)
       \/ \E kind \in {"funding_withdrawn", "rewards_distributed"} : PayOut(kind, amount)
       \/ \E u \in Users : ClaimRewards(u, amount)
  \/ Other

ACSpec == ACInit /\ [][ACNext]_acVars

-----------------------------------------------------------------------------
\* The factory is never the user of a row.
ACTypeOK ==
  /\ \A r \in rows :
       /\ r.type \in DOMAIN TopicsOf /\ r.user \in Users \cup {NoOne}
       /\ r.usdc \in Nat /\ r.quantity \in Nat /\ r.holder \in Users \cup {NoOne}
  /\ holdings \in [Users -> Nat] /\ custody \in [Users -> Nat]
  /\ txs \in 0 .. MaxEvents /\ tokens \in [Users -> Nat] /\ sent \subseteq Users
  /\ moved \in [UsdcKinds -> Nat]

(***************************************************************************)
(* What a user holds can be rebuilt from the activity table: what they      *)
(* claimed, plus what they received, less what they sent.  A claim is told  *)
(* once although it is also a transfer from the factory                     *)
(* (log_handlers.rs:180-228, config.rs:28-32).  Tokens sent to the factory  *)
(* leave no row.                                                            *)
(***************************************************************************)
BalancesRebuilt ==
  \A u \in Users \ sent :
    LET Of(type, suffix) ==
          {r \in rows : r.user = u /\ r.type = type /\ r.hash[3] = suffix} IN
    tokens[u] = (Sum("quantity", Of("claimed_op_token", "claimed_op_token"))
                   + Sum("quantity", Of("op_lend_transfered", "to")))
                  - Sum("quantity", Of("op_lend_transfered", "from"))

StoredOf(kind) == Sum("usdc", {r \in rows : r.type = kind})

UsdcUnit == IF Production THEN 10 ELSE 1

(***************************************************************************)
(* "a stored amount never exceeds what actually moved"                      *)
(* (activity_builder.rs:20-23): over any number of trades and rewards the   *)
(* rows add up to no more than what moved, and to less than one unit below  *)
(* it per row.  Withdrawals are the subject of WithdrawalsTruncated.        *)
(***************************************************************************)
TradesTruncated ==
  \A kind \in UsdcKinds \ {"funding_withdrawn"} :
    /\ UsdcUnit * StoredOf(kind) <= moved[kind]
    /\ moved[kind] <= UsdcUnit * StoredOf(kind)
                        + (UsdcUnit - 1) * Cardinality({r \in rows : r.type = kind})

(***************************************************************************)
(* The same of what is withdrawn: "activity rows store USDC with 6 ... so a *)
(* stored amount never exceeds what actually moved"                         *)
(* (activity_builder.rs:20-23).                                             *)
(***************************************************************************)
WithdrawalsTruncated == UsdcUnit * StoredOf("funding_withdrawn") <= moved["funding_withdrawn"]

(***************************************************************************)
(* The fiat holdings of a user are the shares the OpLend wallet received    *)
(* for them, and nothing is held for the wallet itself                      *)
(* (handler.rs:315-335, log_handlers.rs:82-90).                             *)
(***************************************************************************)
HeldInCustody == holdings = custody

=============================================================================
