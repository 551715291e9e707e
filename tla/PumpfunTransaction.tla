------------------------ MODULE PumpfunTransaction ------------------------
(* The events of one transaction for the PumpFun subscription: the three   *)
(* passes of LogFilter::parse_compiled_instruction (and its shreder twin), *)
(* the instruction loop of PumpfunEventParser::process_transaction and the *)
(* separately written loop of                                              *)
(* ShredStreamGrpc::process_pumpfun_transaction_shreder.                   *)
(*                                                                         *)
(* A compiled instruction is a record of its operation, the accounts that  *)
(* the parsers read (mint, user), one amount standing for sol_amount and   *)
(* token_amount, and its shape: "full" for 24 bytes of data and at least   *)
(* 12 accounts, "lean" for what only the shreder parser accepts (more data *)
(* or 8 to 11 accounts), "bad" for accounts or data no parser accepts.     *)
(* An optional value is a sequence of at most one element.                 *)
(*                                                                         *)
(* Loops over a sequence are recursive functions of the number of elements *)
(* they have seen.                                                         *)
EXTENDS Integers, Sequences, FiniteSetsExt

CONSTANTS
    U64Max,           \* the largest amount; sums saturate there
    Key,              \* public keys
    Instruction,      \* the compiled instructions that occur
    MaxInstructions,  \* a bound on the length of a transaction
    BotWallets        \* the wallets of config.bot_wallet, none or one

RawOps == {"third_party", "multi_hop"}
PumpOps == {"create", "buy", "sell"}
LaunchLabOps == {"initialize", "launchlab_trade"}
TipOps == {"unit_price", "transfer"}

ASSUME TransactionAssumption ==
    /\ U64Max \in Nat /\ MaxInstructions \in Nat
    /\ Instruction \subseteq
         [op : RawOps \cup PumpOps \cup LaunchLabOps \cup TipOps,
          mint : Key, user : Key, amount : 0 .. U64Max,
          shape : {"full", "lean", "bad"}]
    /\ BotWallets \subseteq SUBSET Key

VARIABLE tx           \* the transaction: a sequence of instructions

Saturate(n) == IF n > U64Max THEN U64Max ELSE n

\* A payload of a third party and a hop of a route report no amount; one event
\* stands for the hops of an instruction.
DexInstruction(ix, bot) ==
    [kind |-> CASE ix.op \in RawOps -> "PumpFunTrade"
                [] ix.op = "create" -> "CreateToken"
                [] ix.op \in {"buy", "sell"} ->
                     IF ix.user \in bot THEN "BotTrade" ELSE "UserTrade"
                [] ix.op = "initialize" -> "BonkCreateToken"
                [] ix.op = "launchlab_trade" -> "BonkTrade",
     mint |-> ix.mint, user |-> ix.user, is_buy |-> ix.op = "buy",
     amount |-> IF ix.op \in RawOps THEN 0 ELSE ix.amount]

Extracted(ixs, bot) == [i \in DOMAIN ixs |-> DexInstruction(ixs[i], bot)]

\* What a pass over the instructions has picked up after the first n of them:
\* those whose operation and shape its parser accepts.
Picked(ixs, accepted) ==
    LET picked[n \in 0 .. Len(ixs)] ==
          IF n = 0 THEN << >>
          ELSE IF <<ixs[n].op, ixs[n].shape>> \in accepted
               THEN Append(picked[n - 1], ixs[n]) ELSE picked[n - 1]
    IN  picked

Pass(ixs, accepted) == Picked(ixs, accepted)[Len(ixs)]

Accepted(ops) == ops \X {"full"}

\* The shreder twin takes buys with more data or fewer accounts.
AcceptedShreder(ops) == Accepted(ops) \cup ((ops \cap {"buy"}) \X {"lean"})

\* All matching instructions, pass by pass: third-party and multi-hop first,
\* then PumpFun, then LaunchLab.  bot is the set of the configured bot wallet.
parse_compiled_instruction(ixs, bot) ==
    Extracted(Pass(ixs, Accepted(RawOps)) \o Pass(ixs, Accepted(PumpOps))
                \o Pass(ixs, Accepted(LaunchLabOps)), bot)

\* The shreder twin knows no bot wallet.
parse_compiled_instruction_shreder(ixs) ==
    Extracted(Pass(ixs, AcceptedShreder(RawOps)) \o Pass(ixs, AcceptedShreder(PumpOps))
                \o Pass(ixs, AcceptedShreder(LaunchLabOps)), {})

\* The last compute budget price and the last transfer win.
parse_tip_info(ixs) ==
    LET last(op) == LET found == {i \in DOMAIN ixs : ixs[i].op = op}
                    IN  IF found = {} THEN 0 ELSE ixs[Max(found)].amount
    IN  [unit_price |-> last("unit_price"), fee |-> last("transfer")]

Nothing == [token |-> << >>, dev |-> << >>, bonk |-> << >>,
            bonkTrade |-> << >>, out |-> << >>]

Emit(acc, event) == [acc EXCEPT !.out = Append(@, event)]

TradeEvent(d) ==
    [event |-> CASE d.kind = "UserTrade" -> "NewUserTrade"
                 [] d.kind = "BotTrade" -> "NewBotTrade"
                 [] d.kind = "PumpFunTrade" -> "PumpFunTrade",
     token |-> << >>, trade |-> <<d>>]

\* Mutant: any buy after the create instruction is taken for the creator's.
ByAnyone(acc, d) == acc.token # << >> /\ d.is_buy

ByTokenCreator(acc, d) ==
    /\ acc.token # << >>
    /\ acc.token[1].mint = d.mint
    /\ acc.token[1].user = d.user
    /\ d.is_buy

SameTrader(t, d) == t.mint = d.mint /\ t.user = d.user /\ t.is_buy = d.is_buy

\* Mutant: the last buy replaces the earlier ones.
MergeReplaces(target, d) == <<d>>

merge_trade(target, d) ==
    IF target = << >> THEN <<d>>
    ELSE <<[target[1] EXCEPT !.amount = Saturate(@ + d.amount)]>>

\* What the loops share: everything but the developer's own buys.
Collect(acc, d) ==
    CASE d.kind = "CreateToken"     -> [acc EXCEPT !.token = <<d>>]
      [] d.kind = "BonkCreateToken" -> [acc EXCEPT !.bonk = <<d>>]
      [] d.kind = "BonkTrade"       -> [acc EXCEPT !.bonkTrade = <<d>>]
      [] OTHER                      -> Emit(acc, TradeEvent(d))

Step(acc, d) ==
    IF /\ d.kind = "UserTrade"
       /\ ByTokenCreator(acc, d)
       /\ acc.dev = << >> \/ SameTrader(acc.dev[1], d)
    THEN [acc EXCEPT !.dev = merge_trade(@, d)]
    ELSE Collect(acc, d)

\* The shreder loop keeps the last of the developer's buys and one total that
\* a second create instruction does not reset.
StepShreder(acc, d) ==
    IF d.kind = "UserTrade" /\ ByTokenCreator(acc, d)
    THEN [acc EXCEPT !.dev =
            <<[d EXCEPT !.amount =
                 Saturate(@ + IF acc.dev = << >> THEN 0 ELSE acc.dev[1].amount)]>>]
    ELSE Collect(acc, d)

\* The final match on what the loop collected.
Conclude(acc, tip) ==
    LET announce(name, token, trade) ==
          Emit(acc, [event |-> name, token |-> <<token>>, trade |-> trade,
                     tip |-> tip]).out
    IN  CASE acc.token # << >> /\ acc.bonk = << >> /\ acc.bonkTrade = << >> ->
               announce(IF acc.dev = << >> THEN "NewToken" ELSE "NewToken2",
                        acc.token[1], acc.dev)
          [] /\ acc.token = << >> /\ acc.dev = << >>
             /\ acc.bonk # << >> /\ acc.bonkTrade # << >> ->
               announce("NewBonkToken", acc.bonk[1], acc.bonkTrade)
          [] OTHER -> acc.out

\* What the loop of a processor has collected after the first n instructions.
Collected(processor, list) ==
    LET acc[n \in 0 .. Len(list)] ==
          IF n = 0 THEN Nothing
          ELSE IF processor = "parser" THEN Step(acc[n - 1], list[n])
                                       ELSE StepShreder(acc[n - 1], list[n])
    IN  acc

\* The callbacks of the two processors, in order.
process_transaction(ixs, bot) ==
    LET list == parse_compiled_instruction(ixs, bot)
    IN  Conclude(Collected("parser", list)[Len(list)], parse_tip_info(ixs))

process_transaction_shreder(ixs) ==
    LET list == parse_compiled_instruction_shreder(ixs)
    IN  Conclude(Collected("shreder", list)[Len(list)], parse_tip_info(ixs))

-----------------------------------------------------------------------------
(* The sender (external) builds any transaction. *)

TransactionInit == tx = << >>

AddInstruction ==
    /\ Len(tx) < MaxInstructions
    /\ \E ix \in Instruction : tx' = Append(tx, ix)

TransactionSafety == TransactionInit /\ [][AddInstruction]_tx

-----------------------------------------------------------------------------
(* Properties. *)

\* The instructions of tx that a parser accepts, by their positions.
Uses(ops, accepted) ==
    {i \in DOMAIN tx : tx[i].op \in ops /\ <<tx[i].op, tx[i].shape>> \in accepted}
Created == Uses({"create"}, Accepted({"create"}))
OnlyFull == \A i \in DOMAIN tx : tx[i].shape # "lean"
NoLaunchLab == Uses(LaunchLabOps, Accepted(LaunchLabOps)) = {}

\* The sums of the first n amounts.
Sums(amounts) ==
    LET sum[n \in 0 .. Len(amounts)] == IF n = 0 THEN 0 ELSE sum[n - 1] + amounts[n]
    IN  sum
Total(amounts) == Sums(amounts)[Len(amounts)]

Amount(e) == IF e.trade = << >> THEN 0 ELSE e.trade[1].amount
Reported(events) == Total([i \in DOMAIN events |-> Amount(events[i])])
Traded(accepted) ==
    Total([i \in DOMAIN tx |->
             IF <<tx[i].op, tx[i].shape>> \in accepted THEN tx[i].amount ELSE 0])

(* The two separately written processors (parser/pumpfun.rs:78-150 and     *)
(* grpc/mod.rs:163-238) make the same callbacks in the same order for a    *)
(* transaction that creates at most one token and in which both parsers    *)
(* accept the same instructions.                                           *)
ProcessorsAgree ==
    OnlyFull /\ (\A i, j \in Created : i = j) =>
        process_transaction(tx, {}) = process_transaction_shreder(tx)

\* What the callbacks report is what was traded, unless the sum saturates.
Conserved(events, traded) ==
    /\ Reported(events) <= traded
    /\ traded <= U64Max => Reported(events) = traded

(* No traded amount is lost or counted twice by merging the creator's buys *)
(* into the token announcement, even when a second create instruction      *)
(* follows, the creator is the configured bot wallet, or the payloads of   *)
(* third parties and routes are reported between them: what the callbacks  *)
(* report adds up to what was traded, unless the sum saturates or          *)
(* LaunchLab instructions share the transaction.                           *)
AmountsConserved ==
    NoLaunchLab =>
        LET trades == {"buy", "sell"} IN
        /\ \A bot \in BotWallets :
             Conserved(process_transaction(tx, bot), Traded(Accepted(trades)))
        /\ Conserved(process_transaction_shreder(tx), Traded(AcceptedShreder(trades)))

\* The last callback announces the token that the i-th instruction creates, with
\* a buy by its creator if it is the only one, and no other announces a token.
Announces(events, i, only) ==
    LET said == events[Len(events)]
    IN  /\ {k \in DOMAIN events : events[k].event \in {"NewToken", "NewToken2"}}
             = {Len(events)}
        /\ said.token[1].mint = tx[i].mint /\ said.token[1].user = tx[i].user
        /\ said.tip = parse_tip_info(tx)
        /\ said.event = "NewToken2" /\ only =>
             SameTrader(said.trade[1], [said.token[1] EXCEPT !.is_buy = TRUE])

(* A transaction that creates tokens announces exactly one, the last; with *)
(* a single create instruction the trade in NewToken2 is a buy of that     *)
(* token by its creator, although PumpFun instructions of other users and  *)
(* other tokens surround it (pumpfun.rs:97, 111-119).                      *)
CreatedTokenAnnounced ==
    NoLaunchLab =>
        \A i \in Created : (\A j \in Created : j <= i) =>
            LET only == \A j \in Created : j = i
            IN  /\ Announces(process_transaction(tx, {}), i, only)
                /\ Announces(process_transaction_shreder(tx), i, only)
=============================================================================
