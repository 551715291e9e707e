----------------------------- MODULE MCParsers -----------------------------
(* The calls into the parsers.  Each behaviour is one call: an event is     *)
(* completed from the invocations of its transaction, an instruction or a   *)
(* line of program data goes through the filter and the parser of its       *)
(* program, the body of an event CPI is decoded by both builds, or the leg  *)
(* of an instruction, the mints of accounts and the routes of an execution  *)
(* are derived.                                                             *)
EXTENDS TransactionRoute
LOCAL INSTANCE Functions

Logs == INSTANCE LogMatcher
DammCpi == INSTANCE MeteoraDamm
DlmmCpi == INSTANCE MeteoraDlmm
Cpi == INSTANCE InnerEvents

CONSTANT MaxCalls    \* the longest execution

VARIABLES call, result

vars == <<call, result>>

Pending == "pending"

-----------------------------------------------------------------------------
(* Invocations in the layouts of the programs: account k is the key Acct(k), *)
(* except where a program or a derived address tells layouts apart.          *)

Body(len, tag) == [len |-> len, text |-> 1, tag |-> tag, odd |-> NoByte]

Marks(program, name, n) ==
    CASE program = "orca" /\ name = "swap_v2" -> 2 :> MEMO_PROGRAM
      [] program = "orca" /\ name \in {"increase_liquidity_v2", "decrease_liquidity_v2"} ->
           3 :> MEMO_PROGRAM
      [] program = "raydium_clmm" /\ name = "swap_v2" -> 10 :> MEMO_PROGRAM
      [] program = "launchlab" /\ name \in {"initialize", "initialize_v2"} ->
           17 :> Program("launchlab")
      [] program = "launchlab" /\ name = "initialize_with_token_2022" -> 14 :> Program("launchlab")
      [] program = "pump" /\ name \in {"buy_v3", "buy_exact_quote_in_v3", "sell_v3"} ->
           16 :> Program("pump")
      [] program = "pump" /\ name = "create_v2" -> 18 :> Program("spl_token")
      [] program = "pumpswap" /\ n = 17 -> 16 :> Program("pumpswap")
      [] program = "pumpswap" /\ name = "sell" ->
           (21 :> IF n = 26 THEN Pda("user_volume_accumulator", Acct(2))
                            ELSE Pda("pool_v2", Acct(4)))
           @@ (23 :> Pda("pool_v2", Acct(4)))
      [] program = "pumpswap" /\ name \in {"buy", "buy_exact_quote_in"} ->
           23 :> Pda("pool_v2", Acct(4))
      [] OTHER -> <<>>

Accounts(program, name, n) ==
    [k \in 1 .. n |-> IF k - 1 \in DOMAIN Marks(program, name, n)
                      THEN Marks(program, name, n)[k - 1] ELSE Acct(k)]

\* The invocations with one of these names, numbers of accounts, and lengths and
\* tags of the data.
In(program, names, counts, lens, tags) ==
    {Invoke(program, name, Body(len, tag), Accounts(program, name, n)) :
        name \in names, n \in counts, len \in lens, tag \in tags}

PumpInvocations ==
    In("pump", {"buy", "buy_exact_sol_in"}, {16, 17, 18}, {24, 25}, {0})
    \cup In("pump", {"sell"}, {15, 16, 17}, {24}, {0})
    \cup In("pump", {"buy_v2", "buy_exact_quote_in_v2"}, {27}, {24}, {0})
    \cup In("pump", {"sell_v2"}, {26}, {24}, {0})
    \cup In("pump", {"buy_v3", "buy_exact_quote_in_v3", "sell_v3"}, {17}, {24}, {0})
    \cup In("pump", {"create"}, {14}, {55}, {0})
    \cup In("pump", {"create_v2"}, {16, 19}, {56, 57}, {0})
    \cup In("pump", {"migrate_bonding_curve_creator"}, {5}, {8}, {0})
    \cup In("pump", {"migrate_event_log"}, {1}, {176}, {0})
    \cup In("pumpswap", {"buy", "buy_exact_quote_in"}, {23, 24, 26}, {24, 25}, {0})
    \cup In("pumpswap", {"sell"}, {21, 22, 24, 26}, {24}, {0})
    \cup In("pumpswap", {"buy_v2", "buy_exact_quote_in_v2", "sell_v2"}, {17}, {24}, {0})
    \cup In("pumpswap", {"create_pool"}, {18}, {58, 59}, {0})
    \cup In("pumpswap", {"deposit", "withdraw"}, {15}, {32}, {0})
    \cup In("pump_fees", {"create_fee_sharing_config", "reset_fee_sharing_config",
                          "reset_fee_sharing_config_v2", "revoke_fee_sharing_authority",
                          "transfer_fee_sharing_authority", "initialize_fee_config",
                          "update_admin"}, {11}, {8}, {0})
    \cup In("pump_fees", {"update_fee_shares", "update_fee_shares_v2"}, {8}, {46}, {0})
    \cup In("pump_fees", {"update_fee_config"}, {2}, {76}, {0})
    \cup In("pump_fees", {"upsert_fee_tiers"}, {2}, {53}, {0})

RaydiumInvocations ==
    In("launchlab", {"buy_exact_in", "buy_exact_out", "sell_exact_in", "sell_exact_out"},
       {15, 18}, {24, 32}, {0})
    \cup In("launchlab", {"initialize", "initialize_v2"}, {18}, {24}, {0})
    \cup In("launchlab", {"initialize_with_token_2022"}, {15}, {24}, {0})
    \cup In("launchlab", {"migrate_to_amm"}, {32}, {25}, {0})
    \cup In("launchlab", {"migrate_to_cpswap"}, {28}, {8}, {0})
    \cup In("raydium_cpmm", {"swap_base_input", "swap_base_output"}, {13}, {24}, {0})
    \cup In("raydium_cpmm", {"deposit"}, {13}, {32}, {0})
    \cup In("raydium_cpmm", {"withdraw"}, {14}, {32}, {0})
    \cup In("raydium_cpmm", {"initialize"}, {20}, {32}, {0})
    \cup In("raydium_cpmm", {"collect_creator_fee"}, {15}, {8}, {0})
    \cup In("raydium_cpmm", {"collect_creator_fee_permissionless"}, {16}, {8}, {0})
    \cup In("raydium_clmm", {"swap"}, {9, 11}, {41}, {0})
    \cup In("raydium_clmm", {"swap_v2"}, {13, 15}, {41}, {0})
    \cup In("raydium_clmm", {"increase_liquidity_v2"}, {15}, {41}, {0})
    \cup In("raydium_clmm", {"increase_liquidity_v2"}, {15}, {42}, {1})
    \cup In("raydium_clmm", {"decrease_liquidity_v2"}, {16}, {40}, {0})
    \cup In("raydium_clmm", {"create_pool"}, {13}, {32}, {0})
    \cup In("raydium_clmm", {"create_customizable_pool"}, {13}, {26}, {0})
    \cup In("raydium_clmm", {"open_position"}, {19}, {56}, {0})
    \cup UNION {In("raydium_clmm", {"open_position_v2", "open_position_with_token_22_nft"}, {22},
                   {58 + option}, {option}) : option \in {0, 1}}
    \cup In("raydium_clmm", {"close_position"}, {6}, {8}, {0})
    \cup In("raydium_amm", {"swap_base_in", "swap_base_out"}, {17, 18}, {17}, {0})
    \cup In("raydium_amm", {"swap_base_in_v2", "swap_base_out_v2"}, {8}, {17}, {0})
    \cup In("raydium_amm", {"deposit"}, {14}, {25}, {0})
    \cup In("raydium_amm", {"withdraw"}, {22}, {9}, {0})
    \cup In("raydium_amm", {"initialize2"}, {21}, {26}, {0})
    \cup In("raydium_amm", {"withdraw_pnl"}, {17}, {1}, {0})

OrcaAndMeteoraInvocations ==
    In("orca", {"swap"}, {11}, {42}, {0, 1})
    \cup In("orca", {"swap_v2"}, {15}, {42}, {0, 1})
    \cup In("orca", {"increase_liquidity", "decrease_liquidity"}, {11}, {40}, {0})
    \cup In("orca", {"increase_liquidity_v2", "decrease_liquidity_v2"}, {15}, {40}, {0})
    \cup In("orca", {"initialize_pool"}, {11}, {27}, {0})
    \cup In("orca", {"initialize_pool_v2"}, {14}, {26}, {0})
    \cup In("meteora_pools", {"swap"}, {15}, {24}, {0})
    \cup In("meteora_pools", {"add_balance_liquidity", "add_imbalance_liquidity",
                              "remove_balance_liquidity"}, {16}, {32}, {0})
    \cup In("meteora_pools", {"remove_liquidity_single_side"}, {15}, {24}, {0})
    \cup In("meteora_pools", {"bootstrap_liquidity"}, {16}, {24}, {0})
    \cup In("meteora_pools", {"initialize_permissioned_pool"}, {24}, {9}, {0})
    \cup In("meteora_pools", {"initialize_permissionless_pool"}, {26}, {25}, {0})
    \cup In("meteora_pools", {"initialize_permissionless_pool_with_fee_tier"}, {26}, {33}, {0})
    \cup In("meteora_pools", {"initialize_customizable_permissionless_constant_product_pool"},
            {25}, {121}, {0})
    \cup In("meteora_pools", {"initialize_permissionless_constant_product_pool_with_config"},
            {26}, {24}, {0})
    \cup In("meteora_pools", {"initialize_permissionless_constant_product_pool_with_config2"},
            {26}, {25}, {0})
    \cup In("meteora_pools", {"initialize_permissionless_constant_product_pool_with_config2"},
            {26}, {33}, {1})
    \cup In("meteora_pools", {"set_pool_fees"}, {2}, {48}, {0})
    \cup In("meteora_damm", {"initialize_pool"}, {20}, {41}, {0})
    \cup In("meteora_damm", {"initialize_pool"}, {20}, {49}, {1})
    \cup In("meteora_dlmm", {"swap", "swap_exact_out"}, {15, 17}, {24}, {0})
    \cup In("meteora_dlmm", {"swap_with_price_impact"}, {15}, {19}, {0})
    \cup In("meteora_dlmm", {"swap_with_price_impact"}, {17}, {23}, {1})
    \cup In("meteora_dlmm", {"swap2", "swap_exact_out2"}, {17, 19}, {30}, {0})
    \cup In("meteora_dlmm", {"swap_with_price_impact2"}, {18}, {25}, {0})
    \cup In("meteora_dlmm", {"initialize_lb_pair"}, {14}, {14}, {0})
    \cup In("meteora_dlmm", {"initialize_lb_pair2", "initialize_position",
                             "initialize_position2", "initialize_position_pda",
                             "initialize_bin_array"}, {14}, {16}, {0})
    \cup In("meteora_dlmm", {"add_liquidity", "add_liquidity2", "remove_liquidity",
                             "remove_liquidity2", "claim_fee", "claim_fee2", "close_position",
                             "close_position2"}, {14}, {8}, {0})

\* The bytes all reads of a decoder cover.
Total(reads, text) ==
    LET upTo[k \in 0 .. Len(reads)] ==
            IF k = 0 THEN 0
            ELSE upTo[k - 1] + IF reads[k].op \in {"read", "raw", "opt", "try", "list", "hop"}
                               THEN reads[k].w + reads[k].e * text ELSE 0
    IN  upTo[Len(reads)]

\* Event CPIs that the instruction parsers take: two discriminators and the body.
EventCpi(program, name, reads, tag) ==
    Invoke(program, name, Body(16 + Total(reads, 1), tag), <<>>)

EventCpis ==
    {EventCpi("meteora_damm", name, DammLogs[name].reads[tag], tag) :
        name \in DOMAIN DammLogs, tag \in {0, 1}}
    \cup {EventCpi("meteora_dbc", disc, Dbc!parse_dbc_event_cpi[disc].reads[tag], tag) :
             disc \in DOMAIN Dbc!parse_dbc_event_cpi, tag \in {0, 1}}
    \cup {EventCpi("raydium_cpmm", "lp_change_event",
                   Cpmm!parse_lp_change_from_data.reads[tag], tag) : tag \in {0, 1}}

Invocations ==
    PumpInvocations \cup RaydiumInvocations \cup OrcaAndMeteoraInvocations \cup EventCpis

-----------------------------------------------------------------------------
(* Events as a log leaves them, and the transactions they are completed from. *)

FilledTypes == UNION {FillersOf[p] : p \in DOMAIN FillersOf}
               \cup {"MeteoraDammV2InitializePool", "MeteoraDlmmSwap"}

Emitters == {i \in Invocations : ParserOf(i).type \in FilledTypes}

LogDecoders == UNION {Range(Logs!ProgramDecoders[p]) : p \in DOMAIN Logs!ProgramDecoders}

\* The fields a log gives an event of a type.
LoggedFields ==
    [type \in FilledTypes |->
        UNION {UNION {{d.reads[t][k].name : k \in DOMAIN d.reads[t]} :
                        t \in {u \in Tags : d.event[u] = type}} : d \in LogDecoders}]

\* A sale of a cashback coin has the longest of the legacy layouts.
Cashback(i) == i.program = "pump" /\ i.name = "sell" /\ Len(i.accounts) = 17

\* What the log shows of the event that the parser of its instruction makes.
Logged(p, name, fields, cashback) ==
    [Event(p.type, name, p.is_buy, [f \in fields \cap DOMAIN p.at |-> p.at[f]])
        EXCEPT !.is_cashback_coin = cashback]

LoggedEvent(i, name, fields) == Logged(ParserOf(i), name, fields, Cashback(i))

\* The same instruction with another account at one place.
Variants(i) == {[i EXCEPT !.accounts[k] = Acct(99)] : k \in DOMAIN i.accounts}

Siblings(i) == {j \in Emitters : j.program = i.program /\ j # i}

Transactions(i) ==
    {<<i>>} \cup UNION {{<<i, j>>, <<j, i>>} : j \in Variants(i) \cup Siblings(i)}

-----------------------------------------------------------------------------
(* Filters, log lines and event CPIs.                                         *)

Sets(types) ==
    {{t} : t \in types}
    \cup {{"PumpFunTrade", "PumpFunBuy"}, {"PumpFunBuy", "PumpFunSell"},
          {"PumpFunBuy", "PumpFunCreate"}, {"PumpFunTrade", "PumpFunSell"}, {}}

Filters(types) == {NoFilter} \cup {Only(s) : s \in Sets(types)} \cup {Except(s) : s \in Sets(types)}

PumpTypes == {"PumpFunTrade", "PumpFunCreate", "PumpFunCreateV2", "PumpSwapTrade"}
    \cup TradeVariants

\* The tags a decoder tells apart, and the lengths of text that matter to it.
TagsOf(d) == {t \in Tags : t = 0 \/ d.reads[t] # d.reads[0] \/ d.event[t] # d.event[0]}
TextsOf(d) == IF \E t \in Tags : \E k \in DOMAIN d.reads[t] : d.reads[t][k].e > 0
              THEN {0, 2} ELSE {0}

Data(len, text, tag) == [len |-> len, text |-> text, tag |-> tag, odd |-> NoByte]

InnerTables ==
    [clmm |-> Cpi!raydium_clmm_inner, cpmm |-> Cpi!raydium_cpmm_inner,
     amm |-> Cpi!raydium_amm_inner, orca |-> Cpi!orca_inner, pools |-> Cpi!meteora_amm_inner,
     launchlab |-> Cpi!raydium_launchlab_inner]

\* The decoder of an event CPI in one of the two builds; Unknown when the program
\* has none for the discriminator.
CpiDecoder(program, disc, feature) ==
    CASE program = "damm" -> IF <<disc, "anchor">> \in DOMAIN DammCpi!parse(feature)
                             THEN DammCpi!parse(feature)[<<disc, "anchor">>] ELSE Unknown
      [] program = "dlmm" -> IF disc \in DOMAIN DlmmCpi!parse(feature)
                             THEN DlmmCpi!parse(feature)[disc] ELSE Unknown
      [] program = "pump_fees" -> IF disc \in DOMAIN Cpi!pump_fees_inner
                                  THEN Cpi!pump_fees_inner[disc] ELSE Unknown
      [] program = "pumpswap" -> Cpi!parse_pumpswap_inner_instruction(disc, "anchor")
      [] program \in DOMAIN InnerTables ->
           LET forms == {f \in {"anchor", "suffix"} : <<disc, f>> \in DOMAIN InnerTables[program]}
           IN  IF forms = {} THEN Unknown
               ELSE InnerTables[program][<<disc, CHOOSE f \in forms : TRUE>>]
      [] OTHER -> Unknown

DAMM_SWAP2 == Logs!METEORA_DAMM_SWAP2

-----------------------------------------------------------------------------
(* Transactions for the analysis of routes.  Those for the mints have plain   *)
(* transfers between four accounts, one of which may be missing from the      *)
(* keys, and evidence for some of the accounts; those for the legs are call   *)
(* trees of a router, a CPMM swap and transfers in and out of it.             *)

Token(program, name, len, accounts, amount, fee) ==
    Invoke(program, name, [len |-> len, amount |-> amount, fee |-> fee], accounts)

Transfer(from, to) == Token("spl_token", "transfer", 9, <<from, to, Acct(30)>>, 1, 0)

Holders == {Acct(1), Acct(2), Acct(3), Acct(4)}
Coin == Acct(11)
Gold == Acct(12)

\* An account without evidence, with a balance, initialised, and reused for another
\* mint and back again.
EvidenceKinds == {"none", "balance", "initialized", "reused"}

BalancesOf(proof) ==
    [k \in 1 .. 4 |-> Seen(IF proof[Acct(k)] \in {"balance", "reused"} THEN Acct(k) ELSE Default,
                           Coin)]

EvidenceCalls(proof) ==
    [k \in 1 .. 8 |->
        IF k <= 4 THEN Token("spl_token", "initialize_account3",
                             IF proof[Acct(k)] \in {"initialized", "reused"} THEN 33 ELSE 32,
                             <<Acct(k), Gold>>, 0, 0)
        ELSE Token("spl_token", "transfer_checked",
                   IF proof[Acct(k - 4)] = "reused" THEN 10 ELSE 9,
                   <<Acct(k - 4), Coin, Unresolved, Acct(30)>>, 1, 0)]

Pairs == {<<Acct(i), Acct(j)>> : i, j \in 1 .. 4} \ {<<Acct(i), Acct(i)>> : i \in 1 .. 4}
Wires == {w \in Pairs : w[1][2] < w[2][2]} \cup {<<Unresolved, Acct(1)>>}

Wirings == {w \in UNION {[1 .. n -> Wires] : n \in 0 .. 3} : IsInjective(w)}

Least(ks) == CHOOSE k \in ks : \A l \in ks : k <= l

Keys4 == <<Acct(2), Acct(1), Acct(3), Acct(4)>>

Router == Invoke("router", "route", Body(8, 0), <<>>)
CpmmSwap == Invoke("raydium_cpmm", "swap_base_input", Body(24, 0),
                   Accounts("raydium_cpmm", "swap_base_input", 13))
PayIn == Token("spl_token", "transfer", 9, <<Acct(5), Acct(7), Acct(1)>>, 2, 0)
PayOut == Token("spl_token_2022", "transfer_checked_with_fee", 19,
                <<Acct(8), Acct(12), Acct(6), Acct(2)>>, 3, 1)
PayOutOpaque == Token("spl_token_2022", "transfer", 9, <<Acct(8), Acct(6), Acct(2)>>, 1, 0)

Calls == {Router, CpmmSwap, PayIn, PayOut, PayOutOpaque}

\* An execution: the invocations in order, each with its depth.  Token programs
\* invoke nothing.
Continuations(x) ==
    {<<c, d>> : c \in Calls,
        d \in IF x = <<>> THEN {1}
              ELSE 1 .. x[Len(x)][2] + IF token_program(x[Len(x)][1]) THEN 0 ELSE 1}

Outer(x, k) == Cardinality({j \in 1 .. k : x[j][2] = 1})
Inner(x, k) == Cardinality({j \in 1 .. k : \A l \in j .. k : x[l][2] # 1})

\* The transaction of an execution, with the heights recorded or not and the groups
\* in order or not.
TransactionOf(x, mode) ==
    LET all == [k \in DOMAIN x |-> k]
        top == SelectSeq(all, LAMBDA k : x[k][2] = 1)
        GroupOf(i) ==
            LET in == SelectSeq(all, LAMBDA k : Outer(x, k) = i /\ x[k][2] # 1)
            IN  [index |-> i,
                 instructions |-> [j \in DOMAIN in |->
                     [ix |-> x[in[j]][1],
                      height |-> IF mode = "no heights" THEN 0 ELSE x[in[j]][2]]]]
        groups == SelectSeq([i \in DOMAIN top |-> GroupOf(i)], LAMBDA g : g.instructions # <<>>)
    IN  [instructions |-> [i \in DOMAIN top |-> x[top[i]][1]],
         groups |-> IF mode = "reversed" THEN [i \in DOMAIN groups |-> groups[Len(groups) + 1 - i]]
                    ELSE groups,
         balances |-> <<>>, keys |-> <<>>, succeeded |-> mode # "failed"]

ParentOf(x, k) ==
    IF x[k][2] = 1 THEN 0
    ELSE CHOOSE j \in 1 .. k - 1 : /\ x[j][2] = x[k][2] - 1
                                   /\ \A l \in j + 1 .. k - 1 : x[l][2] >= x[k][2]

\* The invocations that were made, directly or not, by the j-th, as far as the
\* recorded heights tell.
Below(x, j, mode) ==
    LET under[k \in 0 .. Len(x)] == k # 0 /\ (ParentOf(x, k) = j \/ under[ParentOf(x, k)])
    IN  IF mode = "no heights" /\ x[j][2] # 1 THEN {} ELSE {k \in 1 .. Len(x) : under[k]}

-----------------------------------------------------------------------------
Init == call = [kind |-> "none"] /\ result = Pending

Enrich ==
    \E i \in Emitters : \E name \in {"", i.name}, fields \in {{}, LoggedFields[ParserOf(i).type]} :
        \E tx \in Transactions(i) :
            LET e == LoggedEvent(i, name, fields)
            IN  /\ call' = [kind |-> "enrich", event |-> e, tx |-> tx, emitter |-> i]
                /\ result' = fill_accounts_with_owned_keys(e, tx)

ParseInstruction ==
    \E i \in Invocations :
        \E filter \in Filters({"BlockMeta", "RaydiumCpmmDeposit"} \cup PumpTypes
                              \cup {parse_instruction_unified(i, NoFilter).type}) :
            /\ call' = [kind |-> "instruction", ix |-> i, filter |-> filter]
            /\ result' = parse_instruction_unified(i, filter)

ParseLog ==
    \E program \in DOMAIN Logs!ProgramDecoders : \E disc \in DOMAIN Logs!ProgramDecoders[program] :
        LET d == Logs!ProgramDecoders[program][disc]
        IN  \E tag \in TagsOf(d), scope \in {program, "none"}, short \in {0, 1},
               filter \in Filters({"BlockMeta"} \cup PumpTypes
                   \cup Range(Logs!ProgramTypes[program])) :
                LET body == Data(Total(d.reads[tag], 2) - short, 2, tag)
                IN  /\ Total(d.reads[tag], 2) >= short
                    /\ call' = [kind |-> "log", scope |-> scope, disc |-> disc, body |-> body,
                                filter |-> filter]
                    /\ result' = Logs!parse_log_optimized_inner(scope, disc, body, filter)

\* The body of an event CPI, as both builds and the parser of logs see it.
DecodeCpi(Discs(_)) ==
    \E program \in DOMAIN Logs!ProgramDecoders : \E disc \in Discs(program) :
        LET borsh == CpiDecoder(program, disc, "parse-borsh")
            zero  == CpiDecoder(program, disc, "parse-zero-copy")
            log   == Logs!ProgramDecoders[program][disc]
        IN  /\ borsh # Unknown
            /\ \E tag \in TagsOf(borsh), text \in TextsOf(borsh) :
                   \E len \in 0 .. Total(borsh.reads[tag], text) + 1 :
                       LET body == Data(len, text, tag)
                       IN  /\ call' = [kind |-> "cpi", program |-> program, disc |-> disc,
                                       body |-> body]
                           /\ result' = [borsh |-> Decode(body, borsh), zero |-> Decode(body, zero),
                                         log |-> Decode(body, log)]

DecodeAnyCpi == DecodeCpi(LAMBDA program : DOMAIN Logs!ProgramDecoders[program] \ {DAMM_SWAP2})

DecodeSwap2Cpi == DecodeCpi(LAMBDA program : IF program = "damm" THEN {DAMM_SWAP2} ELSE {})

\* The leg of an instruction, and with WSOL for the quote of a trade of Pump.fun.
FindLeg ==
    \E i \in Invocations :
        \E ix \in {i} \cup IF i.program = "pump" /\ Len(i.accounts) = 17
                          THEN {[i EXCEPT !.accounts[3] = WSOL]} ELSE {} :
            /\ call' = [kind |-> "leg", ix |-> ix]
            /\ result' = swap(ix, <<>>, {})

FindMints ==
    \E proof \in [Holders -> EvidenceKinds], wiring \in Wirings :
        /\ call' = [kind |-> "mints", proof |-> proof, wiring |-> wiring]
        /\ result' = token_mints_from_invocations(BalancesOf(proof), Keys4,
                        [k \in DOMAIN wiring |-> Transfer(wiring[k][1], wiring[k][2])]
                        \o EvidenceCalls(proof))

AnalyzeRoute(x, mode) ==
    \E c \in Continuations(x) :
        /\ call' = [kind |-> "route", x |-> Append(x, c), mode |-> mode]
        /\ result' = analyze_yellowstone_transaction_routes(TransactionOf(Append(x, c), mode), {})

\* Executions grow by one invocation at a time.
ExtendRoute ==
    \/ /\ call.kind = "none"
       /\ \E mode \in {"in order", "reversed", "no heights", "failed"} : AnalyzeRoute(<<>>, mode)
    \/ /\ call.kind = "route" /\ Len(call.x) < MaxCalls
       /\ AnalyzeRoute(call.x, call.mode)

Next ==
    \/ /\ call.kind = "none"
       /\ Enrich \/ ParseInstruction \/ ParseLog \/ DecodeAnyCpi \/ FindLeg \/ FindMints
    \/ ExtendRoute

Spec == Init /\ [][Next]_vars

SwapSpec == Init /\ [][call.kind = "none" /\ DecodeSwap2Cpi]_vars

-----------------------------------------------------------------------------
OnlyFieldsOf(own) ==
    /\ \A f \in DOMAIN result.at : f \in DOMAIN own.at /\ result.at[f] = own.at[f]
    /\ result.tail \in {call.event.tail, own.tail}

\* Every account field added to an event is the field that the parser of the
\* emitting instruction reads there (core/account_dispatcher.rs,
\* core/account_fillers): accounts of another invocation of the transaction are
\* never mixed in, whatever its order and however similar it is.
FilledFromItsEmitter ==
    call.kind = "enrich" => OnlyFieldsOf(ParserOf(call.emitter))

\* An event whose instruction stands alone in the transaction ends up with every
\* account field that the parser of the instruction would have given it, so that
\* subscribers of logs and of instructions see the same event.  The fillers of
\* Raydium AMM V4 supply a few accounts only.
LoneInvocationCompletes ==
    /\ call.kind = "enrich"
    /\ call.tx = <<call.emitter>>
    /\ call.event = LoggedEvent(call.emitter, call.event.ix_name, LoggedFields[call.event.type])
    /\ call.event.type \notin FillersOf.raydium_amm
    => DOMAIN ParserOf(call.emitter).at \subseteq DOMAIN result.at

\* What is parsed but not as an instruction of a shred: the gate leaves it out.
BehindTheGate == {"migrate_bonding_curve_creator", "migrate_event_log", "lp_change_event"}

InstructionKept(all) ==
    LET wanted == should_include_dex_event(call.filter, all.type, call.ix.data.tag, FALSE)
    IN  /\ all # NoEvent
        /\ result = IF wanted THEN all ELSE NoEvent
        /\ call.ix.name \notin BehindTheGate => instruction_data_may_parse(call.ix)

LogEventKept(all) ==
    LET wanted == should_include_dex_event(call.filter, all.event, call.body.tag, FALSE)
    IN  /\ all.status = "event" /\ wanted => result = all
        /\ result.status = "event" => result = all /\ (wanted \/ all.event \in TradeVariants)

\* The early rejections of a filter never lose an event it asks for
\* (filter_allows_discriminator, includes_*, instruction_data_may_parse), and what
\* passes is asked for, except that the scoped matcher of trades goes by family.
FilterLosesNothing ==
    /\ call.kind = "instruction" => InstructionKept(parse_instruction_unified(call.ix, NoFilter))
    /\ call.kind = "log" =>
        LogEventKept(Logs!parse_log_optimized_inner(call.scope, call.disc, call.body, NoFilter))

\* No decoder of an event CPI reads behind the end of the body, both builds accept
\* the same bodies and read every common field from the same bytes, and so does the
\* decoder of the same event in the logs (instr/all_inner, instr/*_inner.rs).
DecodersAgree ==
    call.kind = "cpi" =>
        LET Same(a, b) == \A f \in DOMAIN a.fields \cap DOMAIN b.fields : a.fields[f] = b.fields[f]
        IN  /\ "fault" \notin {result.borsh.status, result.zero.status, result.log.status}
            /\ result.borsh.status = result.zero.status
            /\ Same(result.borsh, result.zero)
            /\ Same(result.borsh, result.log)
            /\ result.log.event \in {"", result.borsh.event} \/ result.borsh.event = ""

\* The size check of the swap2 CPI covers everything that is read after it
\* (parse_swap2_borsh).
Swap2ReadsItsSize ==
    call.kind = "cpi" => "fault" \notin {result.borsh.status, result.zero.status}
-----------------------------------------------------------------------------
\* The mints an account is seen with.
SeenMints(proof, key) ==
    CASE proof[key] = "none" -> {}
      [] proof[key] = "balance" -> {Coin}
      [] proof[key] = "initialized" -> {Gold}
      [] proof[key] = "reused" -> {Coin, Gold}

\* The mint of an account does not depend on the order in which balances and
\* instructions give evidence: contradictory evidence is never resolved, evidence
\* is never overruled, and an account without any has the mint of the nearest one
\* with a mint it is connected with by transfers among unambiguous accounts, of
\* equally near ones the first in the transaction (token_mints_from_invocations).
MintsFromEvidence ==
    call.kind = "mints" =>
        LET seen(a) == SeenMints(call.proof, a)
            hops == {{w[1], w[2]} : w \in {v \in Range(call.wiring) :
                        Unresolved # v[1] /\ \A a \in {v[1], v[2]} : Cardinality(seen(a)) < 2}}
            within[n \in 0 .. 3] ==
                [a \in Holders |->
                    IF n = 0 THEN IF Cardinality(seen(a)) = 1 THEN {a} ELSE {}
                    ELSE within[n - 1][a]
                         \cup UNION {within[n - 1][b] : b \in {c \in Holders : {a, c} \in hops}}]
            nearest(a) == within[CHOOSE n \in 0 .. 3 :
                              /\ within[n][a] # {} \/ n = 3
                              /\ \A m \in 0 .. n - 1 : within[m][a] = {}][a]
            first(as) == Keys4[Least({k \in DOMAIN Keys4 : Keys4[k] \in as})]
            expected == {a \in Holders : nearest(a) # {}}
        IN  result = [a \in expected |-> CHOOSE m \in seen(first(nearest(a))) : TRUE]

\* Legs, unknown invocations and the amounts of a leg follow the tree of calls that
\* was executed, whatever the order of the metadata: an amount is the sum of the
\* transfers made below the leg, and is missing when the transaction failed, the
\* depth or a fee is unknown, or the sum overflows (transaction_invocations,
\* invocation_analysis, analyze_yellowstone_transaction_routes).
RouteFollowsExecution ==
    call.kind = "route" =>
        LET x == call.x
            Where(c) == SelectSeq([k \in DOMAIN x |-> k], LAMBDA k : x[k][1] = c)
            Stands(position, k) == position.outer = Outer(x, k) /\ position.inner = Inner(x, k)
            Made(k) == Below(x, k, call.mode)
            Count(k, c) == Cardinality({j \in Made(k) : x[j][1] = c})
            Sum(n, known) ==
                IF n \in 1 .. U64Max /\ known /\ call.mode # "failed" THEN {n} ELSE {}
            legs == Where(CpmmSwap)
            routers == Where(Router)
        IN  /\ Len(result.legs) = Len(legs)
            /\ \A n \in DOMAIN legs :
                 LET k == legs[n] IN
                 /\ Stands(result.legs[n].position, k)
                 /\ result.legs[n].actual_input_amount = Sum(2 * Count(k, PayIn), TRUE)
                 /\ result.legs[n].actual_output_amount =
                      Sum(2 * Count(k, PayOut), Count(k, PayOutOpaque) = 0)
            /\ Len(result.unknown_invocations) = Len(routers)
            /\ \A n \in DOMAIN routers :
                 LET k == routers[n] IN
                 /\ Stands(result.unknown_invocations[n].position, k)
                 /\ result.unknown_invocations[n].has_token_transfers =
                      (\E j \in Made(k) : token_program(x[j][1]))
                 /\ result.unknown_invocations[n].has_known_swap_descendants =
                      (Count(k, CpmmSwap) > 0)

\* The fields of an event that a leg of the same instruction must agree with: pool,
\* trader, the accounts and the mints of base and quote (or of input and output).
SidesOf ==
    ("RaydiumClmmSwap" :> <<"pool_state", "sender", "token_account_0", "token_account_1",
                            "input_mint", "output_mint">>)
    @@ ("OrcaWhirlpoolSwap" :> <<"whirlpool", "token_authority", "token_owner_account_a",
                                 "token_owner_account_b", "token_mint_a", "token_mint_b">>)
    @@ ("RaydiumCpmmSwap" :> <<"pool_id", "payer", "input_token_account", "output_token_account",
                               "input_token_mint", "output_token_mint">>)
    @@ ("MeteoraDlmmSwap" :> <<"pool", "from", "user_token_in", "user_token_out", "", "">>)
    @@ ("RaydiumLaunchlabTrade" :> <<"pool_state", "user", "user_base_token", "user_quote_token",
                                     "base_mint", "quote_mint">>)
    @@ ("RaydiumAmmV4Swap" :> <<"amm", "user_source_owner", "user_source_token_account",
                                "user_destination_token_account", "", "">>)
    @@ [t \in {"PumpSwapBuy", "PumpSwapSell"} |->
            <<"pool", "user", "user_base_token_account", "user_quote_token_account", "base_mint",
              "quote_mint">>]
    @@ [t \in {"PumpFunBuy", "PumpFunBuyExactSolIn", "PumpFunSell"} |->
            <<"bonding_curve", "user", "associated_user", "associated_quote_user", "mint",
              "quote_mint">>]

\* The fields of events with the amount the trader gives away, exactly or at most.
AmountsIn == {"amount_in", "max_amount_in", "base_amount_in", "max_quote_amount_in"}

LegIsOf(leg, e) ==
    LET f == SidesOf[e.type]
        buys == \/ e.type \in {"PumpSwapBuy", "PumpFunBuy", "PumpFunBuyExactSolIn"}
                \/ e.type = "RaydiumLaunchlabTrade" /\ e.is_buy
                \/ e.type = "OrcaWhirlpoolSwap" /\ ~e.is_buy
        in == IF buys THEN 4 ELSE 3
        out == IF buys THEN 3 ELSE 4
        quote == IF e.type \in {"PumpFunBuy", "PumpFunBuyExactSolIn", "PumpFunSell"}
                    /\ At(e, "quote_mint") = WSOL THEN At(e, "user") ELSE At(e, f[4])
        side(k) == IF k = 4 THEN quote ELSE At(e, f[k])
        named(key, k) == key # Default => key = At(e, f[k])
    IN  /\ e # NoEvent
        /\ leg.pool = At(e, f[1]) /\ leg.trader = At(e, f[2])
        /\ leg.input_account = side(in) /\ leg.output_account = side(out)
        /\ named(leg.input_mint, in + 2) /\ named(leg.output_mint, out + 2)
        /\ \A name \in AmountsIn \cap DOMAIN e.args :
             e.args[name] = IF leg.exact = "input" THEN leg.specified_amount
                            ELSE leg.other_amount_threshold

\* A leg of a route and the event of the same instruction, decoded by separate code
\* with positions of its own, are about the same pool, trader, token accounts and
\* mints, in the same direction, and take the amount given from the same bytes;
\* only the quote of a native trade of Pump.fun is the wallet (swap).
LegAgreesWithEvent ==
    (call.kind = "leg" /\ result # NoLeg) => LegIsOf(result, ParserOf(call.ix))
=============================================================================
