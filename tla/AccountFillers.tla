---------------------------- MODULE AccountFillers ----------------------------
(*****************************************************************************)
(* Completing an event from the accounts of an instruction                   *)
(* (core/account_fillers): for every event type the positions of its account *)
(* fields, and the rules that tell the layouts of one instruction apart.     *)
(*****************************************************************************)
EXTENDS Naturals, Sequences, TLC
LOCAL INSTANCE SequencesExt

\* An account key: a class and a number.  The default key, also the address of the
\* system program, is what the code takes for "unknown".
Default == <<"default", 0>>

Acct(n) == <<"account", n>>

MEMO_PROGRAM == <<"memo", 0>>

Program(name) == <<name, 0>>

TokenPrograms == {Program("spl_token"), Program("spl_token_2022")}

\* Program derived addresses: one key per seed and key, different from all others.
Pda(seed, key) == <<seed, key[2]>>

\* The account at a position of an instruction, from 0.
get(accounts, i) == IF i < Len(accounts) THEN accounts[i + 1] ELSE Default

\* An event under enrichment: its type, the instruction name, the direction (is_buy,
\* a_to_b or base_input) and the flag that select a layout, the account fields known
\* so far, and the variable tail of accounts.
Event(type, ix_name, is_buy, known) ==
    [type |-> type, ix_name |-> ix_name, is_buy |-> is_buy, is_cashback_coin |-> FALSE,
     at |-> known, tail |-> <<>>]

At(e, field) == IF field \in DOMAIN e.at THEN e.at[field] ELSE Default

\* The positions of consecutive fields.
Fields(first, names) ==
    [f \in ToSet(names) |-> first + (CHOOSE i \in DOMAIN names : names[i] = f) - 1]

\* Every filler keeps the fields that are known and never stores the default key.
Supply(e, found) ==
    [e EXCEPT !.at = @ @@ [f \in {g \in DOMAIN found : found[g] # Default} |-> found[f]]]

Fill(e, accounts, places) == Supply(e, [f \in DOMAIN places |-> get(accounts, places[f])])

\* ---- Pump.fun
SolQuoteMint == Program("sol_quote")

normalize_pumpfun_quote_mint(key) == IF key = Default THEN SolQuoteMint ELSE key

WithQuoteMint(e, key) == [e EXCEPT !.at = ("quote_mint" :> key) @@ @]

fill_pumpfun_quote_mint(e, key) ==
    IF normalize_pumpfun_quote_mint(At(e, "quote_mint")) = SolQuoteMint
    THEN WithQuoteMint(e, normalize_pumpfun_quote_mint(key)) ELSE e

account_at_matches_mint(e, accounts, i) ==
    At(e, "mint") # Default /\ get(accounts, i) = At(e, "mint")

pump_trade_uses_v2_layout(e, accounts) ==
    \/ e.ix_name \in {"buy_v2", "sell_v2", "buy_exact_quote_in_v2"}
    \/ account_at_matches_mint(e, accounts, 1)

TradeV3Fields == Fields(0, <<
    "global", "mint", "quote_mint", "token_program", "quote_token_program", "bonding_curve",
    "associated_bonding_curve", "associated_quote_bonding_curve", "user", "associated_user",
    "associated_quote_user", "user_volume_accumulator", "fee_config", "buyback_fee_recipient",
    "system_program", "event_authority", "program">>)

TradeV2Fields(is_sell) ==
    ("global" :> 0)
    @@ Fields(3, <<"token_program", "quote_token_program", "associated_token_program",
                   "fee_recipient", "associated_quote_fee_recipient", "buyback_fee_recipient",
                   "associated_quote_buyback_fee_recipient", "bonding_curve",
                   "associated_bonding_curve", "associated_quote_bonding_curve", "user",
                   "associated_user", "associated_quote_user", "creator_vault",
                   "associated_creator_vault", "sharing_config">>)
    @@ Fields(19, (IF is_sell THEN <<>> ELSE <<"global_volume_accumulator">>) \o
                  <<"user_volume_accumulator", "associated_user_volume_accumulator", "fee_config",
                    "fee_program", "system_program", "event_authority", "program">>)

TradeFields(is_buy) ==
    ("global" :> 0) @@ ("fee_recipient" :> 1)
    @@ Fields(3, <<"bonding_curve", "associated_bonding_curve", "associated_user", "user",
                   "system_program">>)
    @@ Fields(8, IF is_buy THEN <<"token_program", "creator_vault">>
                           ELSE <<"creator_vault", "token_program">>)
    @@ Fields(10, <<"event_authority", "program">>)

\* The last accounts of a legacy sell are told apart by their number and by whether
\* the coin is a cashback coin.
SellTail(e, accounts) ==
    CASE get(accounts, 16) # Default ->
           ("user_volume_accumulator" :> 14) @@ ("bonding_curve_v2" :> 15)
           @@ ("buyback_fee_recipient" :> 16) @@ ("account" :> 16)
      [] get(accounts, 16) = Default /\ e.is_cashback_coin ->
           ("user_volume_accumulator" :> 14) @@ ("bonding_curve_v2" :> 15)
      [] OTHER -> ("bonding_curve_v2" :> 14) @@ ("buyback_fee_recipient" :> 15) @@ ("account" :> 15)

BuyTail == Fields(12, <<"global_volume_accumulator", "user_volume_accumulator", "fee_config",
                        "fee_program", "bonding_curve_v2", "buyback_fee_recipient">>)
           @@ ("account" :> 17)

pumpfun_fill_trade_accounts(e, accounts) ==
    LET is_sell == e.ix_name \in {"sell", "sell_v2"} \/ ~e.is_buy
        legacy  == [e EXCEPT !.at =
                       ("quote_mint" :> normalize_pumpfun_quote_mint(At(e, "quote_mint"))) @@ @]
    IN  IF get(accounts, 16) = Program("pump") /\ account_at_matches_mint(e, accounts, 1)
        THEN Fill(e, accounts, TradeV3Fields)
        ELSE IF pump_trade_uses_v2_layout(e, accounts)
        THEN Fill(fill_pumpfun_quote_mint(e, get(accounts, 2)), accounts, TradeV2Fields(is_sell))
        ELSE Fill(legacy, accounts,
                  TradeFields(e.is_buy)
                  @@ (IF e.is_buy THEN BuyTail
                      ELSE ("fee_config" :> 12) @@ ("fee_program" :> 13) @@ SellTail(e, accounts)))

CreateFields ==
    Fields(0, <<"mint", "mint_authority", "bonding_curve", "associated_bonding_curve", "global">>)
    @@ Fields(7, <<"user", "system_program", "token_program", "associated_token_program">>)
    @@ Fields(12, <<"event_authority", "program">>)

fill_create_accounts(e, accounts) == Fill(e, accounts, CreateFields)

\* The quote accounts a create_v2 may carry after its sixteen: none means SOL.
create_v2_quote_accounts(count, accounts) ==
    LET mint == get(accounts, 16)  vault == get(accounts, 17)  token == get(accounts, 18)
        known == /\ count > 18 /\ Len(accounts) > 18
                 /\ mint \notin {Default, Program("pump")} \cup TokenPrograms
                 /\ vault # Default /\ token \in TokenPrograms
    IN  CASE count = 16          -> <<SolQuoteMint, Default, Default>>
          [] count # 16 /\ known -> <<normalize_pumpfun_quote_mint(mint), vault, token>>
          [] OTHER               -> <<Default, Default, Default>>

fill_create_quote_accounts(e, accounts) ==
    LET quote == create_v2_quote_accounts(19, accounts)
        named == IF normalize_pumpfun_quote_mint(At(e, "quote_mint")) = SolQuoteMint
                 THEN WithQuoteMint(e, quote[1]) ELSE e
    IN  IF quote[1] = Default THEN e
        ELSE IF At(named, "quote_mint") # quote[1] THEN named
        ELSE Supply(named, ("quote_vault" :> quote[2]) @@ ("quote_token_program" :> quote[3]))

CreateV2Fields == Fields(0, <<
    "mint", "mint_authority", "bonding_curve", "associated_bonding_curve", "global", "user",
    "system_program", "token_program", "associated_token_program", "mayhem_program_id",
    "global_params", "sol_vault", "mayhem_state", "mayhem_token_vault", "event_authority",
    "program">>)

fill_create_v2_accounts(e, accounts) ==
    fill_create_quote_accounts(Fill(e, accounts, CreateV2Fields), accounts)

fill_create_accounts_from_v2(e, accounts) ==
    fill_create_v2_accounts([e EXCEPT !.ix_name = "create_v2"], accounts)

\* ---- PumpSwap
fill_pumpswap_trade_common ==
    ("pool" :> 0) @@ ("user" :> 1)
    @@ Fields(3, <<"base_mint", "quote_mint", "user_base_token_account",
                   "user_quote_token_account", "pool_base_token_account",
                   "pool_quote_token_account", "protocol_fee_recipient",
                   "protocol_fee_recipient_token_account", "base_token_program",
                   "quote_token_program">>)
    @@ Fields(17, <<"coin_creator_vault_ata", "coin_creator_vault_authority">>)

\* The seventeen accounts of the compact trades.
CompactTradeFields ==
    ("pool" :> 0) @@ ("user" :> 1)
    @@ Fields(3, <<"base_mint", "quote_mint", "user_base_token_account",
                   "user_quote_token_account", "pool_base_token_account",
                   "pool_quote_token_account", "base_token_program", "quote_token_program">>)
    @@ ("fee_recipient_quote_token_account" :> 14)

\* Of the accounts after the fixed ones: the pool's v2 address among the first three,
\* and the last two as a pair of fee accounts, unless that pair would overlap it.
upgrade_tail(accounts, fixed, base_mint) ==
    LET extra == Len(accounts) - fixed
        found == {i \in fixed .. fixed + 2 :
                    /\ i < Len(accounts) /\ base_mint # Default
                    /\ get(accounts, i) = Pda("pool_v2", base_mint)}
        pair  == /\ extra \in 2 .. (IF fixed = 21 THEN 5 ELSE 4)
                 /\ found = {} \/ Min(found) < Len(accounts) - 2
    IN  [pool_v2 |-> IF extra > 0 /\ found # {} THEN Pda("pool_v2", base_mint) ELSE Default,
         fee_recipient |-> IF pair THEN get(accounts, Len(accounts) - 2) ELSE Default,
         fee_recipient_quote_token_account |->
             IF pair THEN get(accounts, Len(accounts) - 1) ELSE Default]

buy_upgrade_tail(accounts, base_mint) == upgrade_tail(accounts, 23, base_mint)

NoTail == [pool_v2 |-> Default, fee_recipient |-> Default,
           fee_recipient_quote_token_account |-> Default]

\* A legacy cashback sell has two more fixed accounts, recognised by the accumulator
\* of its user.
sell_upgrade_tail(accounts, base_mint) ==
    LET n == Len(accounts)  user == get(accounts, 1)
        unknown == \/ n \in 22 .. 24 /\ get(accounts, 21) = Default
                   \/ n \in 22 .. 24 /\ user = Default
        cashback == n > 21 /\ user # Default
                    /\ get(accounts, 21) = Pda("user_volume_accumulator", user)
    IN  IF unknown THEN NoTail
        ELSE upgrade_tail(accounts, IF cashback THEN 23 ELSE 21, base_mint)

TailFields == {"pool_v2", "fee_recipient", "fee_recipient_quote_token_account"}

\* The scratch array the tail is read from holds the event's own user and mint.
Scratch(e, accounts, count, fixed) ==
    [i \in 1 .. count |-> CASE i = 2 /\ fixed = 21 -> At(e, "user")
                            [] i = 4 -> At(e, "base_mint")
                            [] i > fixed -> get(accounts, i - 1)
                            [] OTHER -> Default]

fill_buy_accounts_with_count(e, accounts, count) ==
    LET common == Fill(e, accounts, fill_pumpswap_trade_common)
        mint   == At(common, "base_mint")
    IN  IF count = 17 /\ get(accounts, 16) = Program("pumpswap")
        THEN Fill(e, accounts, CompactTradeFields)
        ELSE IF count \notin 24 .. 27 \/ TailFields \subseteq DOMAIN common.at THEN common
        ELSE Supply(common, buy_upgrade_tail(Scratch(common, accounts, count, 23), mint))

fill_sell_accounts_with_count(e, accounts, count) ==
    LET common == Fill(e, accounts, fill_pumpswap_trade_common)
        mint   == At(common, "base_mint")
    IN  IF count = 17 /\ get(accounts, 16) = Program("pumpswap")
        THEN Fill(e, accounts, CompactTradeFields)
        ELSE IF count \notin 22 .. 26 \/ TailFields \subseteq DOMAIN common.at THEN common
        ELSE Supply(common, sell_upgrade_tail(Scratch(common, accounts, count, 21), mint))

pumpswap_fill_create_pool_accounts(e, accounts) ==
    Fill(e, accounts, ("pool" :> 0) @@ Fields(2, <<
        "creator", "base_mint", "quote_mint", "lp_mint", "user_base_token_account",
        "user_quote_token_account">>))

\* ---- Raydium.  The tick arrays of a swap are the accounts after the fixed ones,
\* without the bitmap extension of the pool.
fill_clmm_swap_accounts_with_count(e, accounts, count) ==
    LET fixed  == Fill(e, accounts, Fields(0, <<
                      "sender", "amm_config", "pool_state", "token_account_0", "token_account_1",
                      "input_vault", "output_vault", "observation_state">>))
        is_v2  == \/ e.ix_name = "swap_v2"
                  \/ e.ix_name \notin {"swap", "swap_v2"} /\ get(accounts, 10) = MEMO_PROGRAM
        mints  == IF is_v2 THEN Fill(fixed, accounts, Fields(11, <<"input_mint", "output_mint">>))
                  ELSE fixed
        start  == IF is_v2 THEN 13 ELSE 9
        rest   == [i \in 1 .. Max({0, count - start}) |-> get(accounts, start + i - 1)]
        pool   == At(fixed, "pool_state")
        bitmap == Pda("bitmap", pool)
        named  == pool # Default /\ bitmap \in ToSet(rest)
    IN  IF e.tail # <<>> THEN mints
        ELSE [(IF named THEN Supply(mints, "bitmap" :> bitmap) ELSE mints) EXCEPT !.tail =
                 SelectSeq(rest, LAMBDA key : pool = Default \/ key # bitmap)]

fill_clmm_create_pool_accounts(e, accounts) ==
    Fill(e, accounts, ("creator" :> 0) @@ Fields(2, <<
        "pool", "token_0_mint", "token_1_mint", "token_vault_0", "token_vault_1">>))

fill_clmm_open_position_accounts_with_layout(e, accounts, token_22_nft) ==
    Fill(e, accounts, Fields(1, <<"user", "position_nft_mint">>)
                      @@ ("pool" :> IF token_22_nft THEN 4 ELSE 5))

fill_clmm_close_position_accounts(e, accounts) ==
    Fill(e, accounts, Fields(0, <<"user", "position_nft_mint">>))

fill_clmm_increase_liquidity_accounts(e, accounts) ==
    Fill(e, accounts, ("user" :> 0) @@ ("pool" :> 2))

fill_clmm_decrease_liquidity_accounts(e, accounts) ==
    Fill(e, accounts, ("user" :> 0) @@ ("pool" :> 3))

fill_cpmm_swap_accounts(e, accounts) ==
    Fill(e, accounts, Fields(0, <<
        "payer", "authority", "amm_config", "pool_id", "input_token_account",
        "output_token_account", "input_vault", "output_vault", "input_token_program",
        "output_token_program", "input_token_mint", "output_token_mint", "observation_state">>))

fill_cpmm_deposit_accounts(e, accounts) ==
    Fill(e, accounts, "user" :> 0)

fill_cpmm_withdraw_accounts(e, accounts) ==
    Fill(e, accounts, "user" :> 0)

fill_cpmm_initialize_accounts(e, accounts) ==
    Fill(e, accounts, ("creator" :> 0) @@ ("pool" :> 3))

fill_amm_v4_swap_accounts(e, accounts) ==
    Fill(e, accounts, "amm" :> 1)

fill_amm_v4_deposit_accounts(e, accounts) ==
    Fill(e, accounts, ("token_program" :> 0) @@ ("amm_authority" :> 2))

fill_amm_v4_withdraw_accounts(e, accounts) ==
    Fill(e, accounts, ("token_program" :> 0) @@ Fields(2, <<"amm_authority", "amm_open_orders">>))

launchlab_fill_trade_accounts(e, accounts) ==
    Fill(e, accounts, ("user" :> 0)
        @@ Fields(2, <<"global_config", "platform_config", "pool_state", "user_base_token",
                       "user_quote_token", "base_vault", "quote_vault", "base_mint", "quote_mint",
                       "base_token_program", "quote_token_program">>)
        @@ Fields(15, <<"system_program", "platform_associated_account",
                        "creator_associated_account">>))

\* The token programs stand where the program's own address tells the two layouts
\* apart.
launchlab_fill_pool_create_accounts(e, accounts) ==
    LET fixed == Fill(e, accounts, Fields(0, <<"payer", "creator", "global_config",
                                               "platform_config">>)
                     @@ Fields(5, <<"pool_state", "base_mint", "quote_mint", "base_vault",
                                    "quote_vault">>))
        programs(first) == Fill(fixed, accounts, Fields(first, <<"base_token_program",
                                                                 "quote_token_program">>))
    IN  CASE get(accounts, 17) = Program("launchlab") -> programs(11)
          [] get(accounts, 17) # Program("launchlab") /\ get(accounts, 14) = Program("launchlab") ->
               programs(10)
          [] OTHER -> fixed

\* ---- Orca
OrcaSwapFields ==
    ("token_program_a" :> 0) @@ ("token_program_b" :> 0)
    @@ Fields(1, <<"token_authority", "whirlpool", "token_owner_account_a", "token_vault_a",
                   "token_owner_account_b", "token_vault_b", "tick_array_0", "tick_array_1",
                   "tick_array_2", "oracle">>)

OrcaSwapV2Fields ==
    Fields(0, <<"token_program_a", "token_program_b">>)
    @@ Fields(3, <<"token_authority", "whirlpool", "token_mint_a", "token_mint_b",
                   "token_owner_account_a", "token_vault_a", "token_owner_account_b",
                   "token_vault_b", "tick_array_0", "tick_array_1", "tick_array_2", "oracle">>)

fill_whirlpool_swap_accounts(e, accounts) ==
    LET pool == At(e, "whirlpool")
        is_v2 == \/ e.ix_name = "swap_v2"
                 \/ /\ e.ix_name # "swap"
                    /\ \/ get(accounts, 2) = MEMO_PROGRAM
                       \/ pool # Default /\ get(accounts, 4) = pool
    IN  Fill(e, accounts, IF is_v2 THEN OrcaSwapV2Fields ELSE OrcaSwapFields)

fill_whirlpool_liquidity_accounts(e, accounts) ==
    Fill(e, accounts, "position" :> IF get(accounts, 3) = MEMO_PROGRAM THEN 5 ELSE 3)

\* ---- Meteora
fill_damm_v2_initialize_pool_accounts_with_layout(e, accounts, dynamic) ==
    Fill(e, accounts, Fields(0, <<"creator", "position_nft_mint">>)
                      @@ Fields(IF dynamic THEN 7 ELSE 6,
                                <<"pool", "position", "token_a_mint", "token_b_mint">>))

fill_pools_swap_accounts(e, accounts) ==
    Fill(e, accounts, Fields(0, <<
        "pool", "user_source_token", "user_destination_token", "a_vault", "b_vault",
        "a_token_vault", "b_token_vault", "a_vault_lp_mint", "b_vault_lp_mint", "a_vault_lp",
        "b_vault_lp", "protocol_token_fee", "user", "vault_program", "token_program">>))

PoolLiquidityFields == Fields(0, <<
    "pool", "lp_mint", "user_pool_lp", "a_vault_lp", "b_vault_lp", "a_vault", "b_vault",
    "a_vault_lp_mint", "b_vault_lp_mint", "a_token_vault", "b_token_vault">>)

BothSidesFields == PoolLiquidityFields @@ Fields(11, <<
    "user_a_token", "user_b_token", "user", "vault_program", "token_program">>)

fill_pools_add_liquidity_accounts(e, accounts) ==
    Fill(e, accounts, BothSidesFields)

fill_pools_remove_liquidity_accounts(e, accounts) ==
    Fill(e, accounts,
         IF e.ix_name = "remove_liquidity_single_side"
         THEN PoolLiquidityFields @@ Fields(11, <<
                  "user_destination_token", "user", "vault_program", "token_program">>)
         ELSE BothSidesFields)

fill_pools_bootstrap_liquidity_accounts(e, accounts) ==
    Fill(e, accounts, BothSidesFields)

PoolMints == <<"lp_mint", "token_a_mint", "token_b_mint", "a_vault", "b_vault">>

PoolVaults == <<"a_token_vault", "b_token_vault", "a_vault_lp_mint", "b_vault_lp_mint",
                "a_vault_lp", "b_vault_lp", "payer_token_a", "payer_token_b", "payer_pool_lp",
                "protocol_token_a_fee", "protocol_token_b_fee", "payer">>

PoolPrograms == <<"rent", "mint_metadata", "metadata_program", "vault_program", "token_program",
                  "associated_token_program", "system_program">>

PermissionedPoolFields == Fields(0,
    <<"pool">> \o PoolMints
    \o <<"a_vault_lp_mint", "b_vault_lp_mint", "a_vault_lp", "b_vault_lp", "admin_token_a",
         "admin_token_b", "admin_pool_lp", "protocol_token_a_fee", "protocol_token_b_fee", "admin",
         "fee_owner">>
    \o PoolPrograms)

fill_pools_pool_created_accounts(e, accounts) ==
    Fill(e, accounts,
         CASE e.ix_name = "initialize_permissioned_pool" -> PermissionedPoolFields
           [] e.ix_name \in {"initialize_permissionless_pool",
                             "initialize_permissionless_pool_with_fee_tier"} ->
                Fields(0, <<"pool">> \o PoolMints \o PoolVaults \o <<"fee_owner">> \o PoolPrograms)
           [] e.ix_name = "initialize_customizable_permissionless_constant_product_pool" ->
                Fields(0, <<"pool">> \o PoolMints \o PoolVaults \o PoolPrograms)
           [] OTHER ->
                Fields(0, <<"pool", "config">> \o PoolMints \o PoolVaults \o PoolPrograms))

fill_pools_set_pool_fees_accounts(e, accounts) ==
    Fill(e, accounts, Fields(0, <<"pool", "fee_operator">>))

\* The bin arrays of a swap are the accounts after the fixed ones, up to the first
\* unknown key.
BinArrays(accounts, start, end) ==
    LET unknown == {i \in start .. end - 1 : get(accounts, i) = Default}
        stop    == IF unknown = {} THEN end ELSE Min(unknown)
    IN  [i \in 1 .. Max({0, stop - start}) |-> get(accounts, start + i - 1)]

fill_dlmm_swap_accounts_with_layout(e, accounts, start, end, is_swap2) ==
    LET fixed == Fill(e, accounts,
                      ("pool" :> 0)
                      @@ Fields(2, <<"reserve_x", "reserve_y", "user_token_in", "user_token_out",
                                     "token_x_mint", "token_y_mint", "oracle">>)
                      @@ Fields(11, <<"token_x_program", "token_y_program">>))
        ext   == get(accounts, 1)
        noExt == {Default, At(fixed, "pool"), get(accounts, IF is_swap2 THEN 15 ELSE 14)}
        bits  == IF ext \in noExt THEN fixed ELSE Supply(fixed, "bitmap_extension" :> ext)
    IN  IF e.tail # <<>> THEN bits
        ELSE [bits EXCEPT !.tail = BinArrays(accounts, start, end)]
==============================================================================
