--------------------------- MODULE DexInstructions ----------------------------
(*****************************************************************************)
(* The parsers of the instructions of the exchanges: Orca, Raydium and       *)
(* Meteora (instr/orca_whirlpool.rs, instr/raydium_*.rs,                     *)
(* instr/meteora_*.rs), and the gate and the entry point of all instruction  *)
(* parsers (instr/mod.rs).                                                   *)
(*****************************************************************************)
EXTENDS PumpInstructions, EventTypeFilter

Damm == INSTANCE MeteoraDamm
Dbc == INSTANCE MeteoraPoolsLogs
Cpmm == INSTANCE RaydiumCpmmLogs

\* A parser of an event whose accounts are all taken from fixed positions.
From(ix, needs, reads, type, is_buy, places) ==
    Parsed(ix, needs, reads, Placed(type, "", is_buy, ix.accounts, places))

\* A parser that hands a new event to the account filler of its type.
Handed(ix, needs, reads, type, is_buy, Filler(_, _)) ==
    Parsed(ix, needs, reads, Filler(Event(type, ix.name, is_buy, <<>>), ix.accounts))

\* ---- Orca.  The tag of the data is the direction of a swap.
orca_parse_swap_instruction(ix) ==
    Handed(ix, IF ix.name = "swap_v2" THEN 5 ELSE 3,
            U64s(<<"amount", "other_amount_threshold">>) \o U128s(<<"sqrt_price_limit">>)
            \o Flags(<<"amount_specified_is_input", "a_to_b">>),
            "OrcaWhirlpoolSwap", ix.data.tag # 0, fill_whirlpool_swap_accounts)

orca_liquidity(ix, type) ==
    LET position == IF ix.name \in {"increase_liquidity", "decrease_liquidity"} THEN 3 ELSE 5
    IN  From(ix, position + 1,
             U128s(<<"liquidity">>) \o U64s(<<"token_a_amount", "token_b_amount">>),
             type, FALSE, ("whirlpool" :> 0) @@ ("position" :> position))

orca_parse_initialize_pool_instruction(ix, v2) ==
    From(ix, IF v2 THEN 7 ELSE 5,
         (IF v2 THEN <<>> ELSE Hop(1)) \o U16s(<<"tick_spacing">>)
             \o U128s(<<"initial_sqrt_price">>),
         "OrcaWhirlpoolPoolInitialized", FALSE,
         ("whirlpool" :> IF v2 THEN 6 ELSE 4)
         @@ Fields(0, <<"whirlpools_config", "token_mint_a", "token_mint_b">>)
         @@ ("token_program_a" :> IF v2 THEN 10 ELSE 8)
             @@ ("token_program_b" :> IF v2 THEN 11 ELSE 8))

orca_parse_instruction(ix) ==
    CASE ix.name \in {"swap", "swap_v2"} -> orca_parse_swap_instruction(ix)
      [] ix.name \in {"increase_liquidity", "increase_liquidity_v2"} ->
           orca_liquidity(ix, "OrcaWhirlpoolLiquidityIncreased")
      [] ix.name \in {"decrease_liquidity", "decrease_liquidity_v2"} ->
           orca_liquidity(ix, "OrcaWhirlpoolLiquidityDecreased")
      [] ix.name \in {"initialize_pool", "initialize_pool_v2"} ->
           orca_parse_initialize_pool_instruction(ix, ix.name = "initialize_pool_v2")
      [] OTHER -> NoEvent

\* ---- Raydium CPMM
cpmm_parse_swap_instruction(ix) ==
    LET base_input == ix.name = "swap_base_input"
    IN  Handed(ix, 13, U64s(IF base_input THEN <<"amount_in", "minimum_amount_out">>
                                           ELSE <<"max_amount_in", "amount_out">>),
                "RaydiumCpmmSwap", base_input, fill_cpmm_swap_accounts)

cpmm_parse_initialize_instruction(ix) ==
    From(ix, 20, U64s(<<"init_amount0", "init_amount1">>)
        \o Skip(8), "RaydiumCpmmInitialize", FALSE,
         ("pool" :> 3) @@ ("creator" :> 0))

cpmm_liquidity(ix, needs, type) ==
    From(ix, needs, U64s(<<"lp_token_amount", "token0_amount", "token1_amount">>), type, FALSE,
         ("pool" :> 2) @@ ("user" :> 0))

\* The permissionless variant has a payer of its own in front, and its configuration
\* behind the programs.
cpmm_parse_collect_creator_fee(ix, permissionless) ==
    LET shift == IF permissionless THEN 1 ELSE 0
    IN  From(ix, 15 + shift, <<>>, "RaydiumCpmmCollectCreatorFee", FALSE,
             ("payer" :> 0)
             @@ Fields(shift, <<"creator", "authority", "pool_state">>)
             @@ ("amm_config" :> IF permissionless THEN 14 ELSE 3)
             @@ Fields(4, <<"token_0_vault", "token_1_vault", "vault_0_mint", "vault_1_mint",
                            "creator_token_0", "creator_token_1", "token_0_program",
                            "token_1_program", "associated_token_program", "system_program">>)
             @@ ("creator_fee_share" :> 14 + shift))

cpmm_parse_instruction(ix) ==
    CASE ix.name \in {"swap_base_input", "swap_base_output"} -> cpmm_parse_swap_instruction(ix)
      [] ix.name = "initialize" -> cpmm_parse_initialize_instruction(ix)
      [] ix.name = "deposit"    -> cpmm_liquidity(ix, 13, "RaydiumCpmmDeposit")
      [] ix.name = "withdraw"   -> cpmm_liquidity(ix, 14, "RaydiumCpmmWithdraw")
      [] ix.name \in {"collect_creator_fee", "collect_creator_fee_permissionless"} ->
           cpmm_parse_collect_creator_fee(ix, ix.name = "collect_creator_fee_permissionless")
      [] OTHER -> NoEvent

\* ---- Raydium AMM V4.  The opcode is one byte.
FromByte(ix, needs, reads, e) == ParsedAt(ix, 1, needs, reads, e)

\* The amounts and the name of a swap, exact in its input or in its output.
AmmSwap(ix, places) ==
    FromByte(ix, 2, U64s(IF ix.name \in {"swap_base_in", "swap_base_in_v2"}
                         THEN <<"instruction_amount_in", "minimum_amount_out">>
                         ELSE <<"max_amount_in", "instruction_amount_out">>),
             Placed("RaydiumAmmV4Swap", ix.name, FALSE, ix.accounts, places))

amm_parse_swap_v2(ix) ==
    AmmSwap(ix, Fields(0, <<"token_program", "amm", "amm_authority", "pool_coin_token_account",
                            "pool_pc_token_account", "user_source_token_account",
                            "user_destination_token_account", "user_source_owner">>))

\* With seventeen accounts the target orders are missing.
amm_parse_swap(ix) ==
    LET short == Len(ix.accounts) = 17
    IN  AmmSwap(ix, Fields(0, <<"token_program", "amm", "amm_authority", "amm_open_orders">>
                    \o (IF short THEN <<>> ELSE <<"amm_target_orders">>)
                    \o <<"pool_coin_token_account", "pool_pc_token_account", "serum_program",
                         "serum_market", "serum_bids", "serum_asks", "serum_event_queue",
                         "serum_coin_vault_account", "serum_pc_vault_account",
                         "serum_vault_signer", "user_source_token_account",
                         "user_destination_token_account", "user_source_owner">>))

amm_parse_deposit(ix) ==
    FromByte(ix, 2, U64s(<<"max_coin_amount", "max_pc_amount", "base_side">>),
             Placed("RaydiumAmmV4Deposit", "", FALSE, ix.accounts, Fields(0, <<
                 "token_program", "amm", "amm_authority", "amm_open_orders", "amm_target_orders",
                 "lp_mint_address", "pool_coin_token_account", "pool_pc_token_account",
                 "serum_market", "user_coin_token_account", "user_pc_token_account",
                 "user_lp_token_account", "user_owner", "serum_event_queue">>)))

amm_parse_withdraw(ix) ==
    FromByte(ix, 2, U64s(<<"amount">>),
             Placed("RaydiumAmmV4Withdraw", "", FALSE, ix.accounts, Fields(0, <<
                 "token_program", "amm", "amm_authority", "amm_open_orders", "amm_target_orders",
                 "lp_mint_address", "pool_coin_token_account", "pool_pc_token_account",
                 "pool_withdraw_queue", "pool_temp_lp_token_account", "serum_program",
                 "serum_market", "serum_coin_vault_account", "serum_pc_vault_account",
                 "serum_vault_signer", "user_lp_token_account", "user_coin_token_account",
                 "user_pc_token_account", "user_owner", "serum_event_queue", "serum_bids",
                 "serum_asks">>)))

amm_parse_initialize2(ix) ==
    FromByte(ix, 5, U8s(<<"nonce">>) \o U64s(<<"open_time", "init_pc_amount", "init_coin_amount">>),
             Placed("RaydiumAmmV4Initialize2", "", FALSE, ix.accounts, Fields(0, <<
                 "token_program", "spl_associated_token_account", "system_program", "rent", "amm",
                 "amm_authority", "amm_open_orders", "lp_mint", "coin_mint", "pc_mint",
                 "pool_coin_token_account", "pool_pc_token_account", "pool_withdraw_queue",
                 "amm_target_orders", "pool_temp_lp", "serum_program", "serum_market",
                 "user_wallet", "user_token_coin", "user_token_pc", "user_lp_token_account">>)))

amm_parse_withdraw_pnl(ix) ==
    FromByte(ix, 2, <<>>,
             Placed("RaydiumAmmV4WithdrawPnl", "", FALSE, ix.accounts, Fields(0, <<
                 "token_program", "amm", "amm_config", "amm_authority", "amm_open_orders",
                 "pool_coin_token_account", "pool_pc_token_account", "coin_pnl_token_account",
                 "pc_pnl_token_account", "pnl_owner", "amm_target_orders", "serum_program",
                 "serum_market", "serum_event_queue", "serum_coin_vault_account",
                 "serum_pc_vault_account", "serum_vault_signer">>)))

amm_parse_instruction(ix) ==
    CASE ix.name \in {"swap_base_in", "swap_base_out"}       -> amm_parse_swap(ix)
      [] ix.name \in {"swap_base_in_v2", "swap_base_out_v2"} -> amm_parse_swap_v2(ix)
      [] ix.name = "deposit"      -> amm_parse_deposit(ix)
      [] ix.name = "withdraw"     -> amm_parse_withdraw(ix)
      [] ix.name = "initialize2"  -> amm_parse_initialize2(ix)
      [] ix.name = "withdraw_pnl" -> amm_parse_withdraw_pnl(ix)
      [] OTHER -> NoEvent

\* ---- Raydium LaunchLab.  An exact-out trade has its amounts in the other order.
launchlab_parse_trade_instruction(ix, is_buy, exact_in) ==
    From(ix, 5, U64s(IF exact_in THEN <<"amount_in", "amount_out">>
                                 ELSE <<"amount_out", "amount_in">>),
         "RaydiumLaunchlabTrade", is_buy,
         ("user" :> 0)
         @@ Fields(2, <<"global_config", "platform_config", "pool_state", "user_base_token",
                        "user_quote_token", "base_vault", "quote_vault", "base_mint", "quote_mint",
                        "base_token_program", "quote_token_program">>)
         @@ Fields(15, <<"system_program", "platform_associated_account",
                         "creator_associated_account">>))

parse_mint_params == U8s(<<"decimals">>) \o Strs(<<"name", "symbol", "uri">>)

launchlab_parse_pool_create_instruction(ix, base_token_program) ==
    From(ix, 6, parse_mint_params, "RaydiumLaunchlabPoolCreate", FALSE,
         Fields(0, <<"payer", "creator", "global_config", "platform_config">>)
         @@ Fields(5, <<"pool_state", "base_mint", "quote_mint", "base_vault", "quote_vault">>)
         @@ Fields(base_token_program, <<"base_token_program", "quote_token_program">>))

launchlab_parse_migrate(ix, cp) ==
    From(ix, IF cp THEN 28 ELSE 32, IF cp THEN <<>> ELSE Min(17),
         "RaydiumLaunchlabMigrateAmm", FALSE,
         Fields(0, <<"user", "base_mint", "quote_mint">>)
         @@ (IF cp THEN Fields(3, <<"platform_config", "destination_program", "new_pool">>)
                        @@ ("old_pool" :> 17)
             ELSE Fields(12, <<"destination_program", "new_pool">>) @@ ("old_pool" :> 23)))

launchlab_parse_instruction(ix) ==
    CASE ix.name \in {"buy_exact_in", "buy_exact_out", "sell_exact_in", "sell_exact_out"} ->
           launchlab_parse_trade_instruction(ix, ix.name \in {"buy_exact_in", "buy_exact_out"},
                                             ix.name \in {"buy_exact_in", "sell_exact_in"})
      [] ix.name \in {"initialize", "initialize_v2"} ->
           launchlab_parse_pool_create_instruction(ix, 11)
      [] ix.name = "initialize_with_token_2022" -> launchlab_parse_pool_create_instruction(ix, 10)
      [] ix.name \in {"migrate_to_amm", "migrate_to_cpswap"} ->
           launchlab_parse_migrate(ix, ix.name = "migrate_to_cpswap")
      [] OTHER -> NoEvent

\* ---- Raydium CLMM
clmm_parse_swap_instruction(ix) ==
    Parsed(ix, 3,
           U64s(<<"amount", "other_amount_threshold">>) \o U128s(<<"sqrt_price_limit_x64">>)
           \o U8s(<<"is_base_input">>),
           fill_clmm_swap_accounts_with_count(
               Event("RaydiumClmmSwap", ix.name, FALSE, <<>>), ix.accounts, Len(ix.accounts)))

clmm_liquidity(ix, type, pool) ==
    From(ix, pool + 1, U128s(<<"liquidity">>) \o U64s(<<"amount0", "amount1">>), type, FALSE,
         ("pool" :> pool) @@ ("user" :> 0))

clmm_create(ix, needs, reads) ==
    From(ix, needs, reads, "RaydiumClmmCreatePool", FALSE,
         ("creator" :> 0)
         @@ Fields(2, <<"pool", "token_0_mint", "token_1_mint", "token_vault_0", "token_vault_1">>))

parse_create_customizable_pool_instruction(ix) ==
    clmm_create(ix, 13, Exact(18) \o U128s(<<"sqrt_price_x64">>) \o Byte("", 2) \o Byte("", 1))

clmm_parse_open_position_instruction(ix, pool) ==
    From(ix, pool + 1,
         U32s(<<"tick_lower_index", "tick_upper_index">>) \o Skip(8) \o U128s(<<"liquidity">>)
         \o Skip(16),
         "RaydiumClmmOpenPosition", FALSE,
         Fields(1, <<"user", "position_nft_mint">>) @@ ("pool" :> pool))

clmm_parse_close_position_instruction(ix) ==
    From(ix, 0, <<>>, "RaydiumClmmClosePosition", FALSE, Fields(0, <<"user", "position_nft_mint">>))

\* The first versions of the two liquidity instructions are not parsed.
clmm_parse_instruction(ix) ==
    CASE ix.name \in {"swap", "swap_v2"} -> clmm_parse_swap_instruction(ix)
      [] ix.name = "increase_liquidity_v2" -> clmm_liquidity(ix, "RaydiumClmmIncreaseLiquidity", 2)
      [] ix.name = "decrease_liquidity_v2" -> clmm_liquidity(ix, "RaydiumClmmDecreaseLiquidity", 3)
      [] ix.name = "create_pool" ->
           clmm_create(ix, 3, U128s(<<"sqrt_price_x64">>) \o U64s(<<"open_time">>))
      [] ix.name = "create_customizable_pool" -> parse_create_customizable_pool_instruction(ix)
      [] ix.name \in {"open_position", "open_position_v2"} ->
           clmm_parse_open_position_instruction(ix, 5)
      [] ix.name = "open_position_with_token_22_nft" -> clmm_parse_open_position_instruction(ix, 4)
      [] ix.name = "close_position" -> clmm_parse_close_position_instruction(ix)
      [] OTHER -> NoEvent

\* ---- Meteora pools.  The tag of the data is the curve type of a new pool, or
\* whether its activation point is given.
PoolEvent(ix, reads, type, Filler(_, _)) == Handed(ix, 1, reads, type, FALSE, Filler)

pools_parse_swap_instruction(ix) ==
    PoolEvent(ix, U64s(<<"amount_in", "minimum_out_amount">>), "MeteoraPoolsSwap",
              fill_pools_swap_accounts)

pools_parse_add_liquidity_instruction(ix) ==
    PoolEvent(ix, U64s(IF ix.name = "add_imbalance_liquidity"
                       THEN <<"minimum_pool_token_amount", "token_a_in_amount",
                              "token_b_in_amount">>
                       ELSE <<"pool_token_amount", "maximum_token_a_amount",
                              "maximum_token_b_amount">>),
              "MeteoraPoolsAddLiquidity", fill_pools_add_liquidity_accounts)

pools_parse_remove(ix) ==
    PoolEvent(ix, U64s(IF ix.name = "remove_liquidity_single_side"
                       THEN <<"pool_token_amount", "minimum_out_amount">>
                       ELSE <<"pool_token_amount", "minimum_a_token_out", "minimum_b_token_out">>),
              "MeteoraPoolsRemoveLiquidity", fill_pools_remove_liquidity_accounts)

parse_bootstrap_instruction(ix) ==
    PoolEvent(ix, U64s(<<"token_a_in_amount", "token_b_in_amount">>),
              "MeteoraPoolsBootstrapLiquidity", fill_pools_bootstrap_liquidity_accounts)

parse_curve_type(tag) ==
    CASE tag = 0 -> U8s(<<"pool_type">>)
      [] tag = 1 -> U8s(<<"pool_type">>)
                    \o U64s(<<"amp", "token_a_multiplier", "token_b_multiplier">>)
                    \o U8s(<<"precision_factor">>)
                    \o U64s(<<"base_virtual_price", "base_cache_updated">>)
                    \o Byte("depeg_type", 3) \o U64s(<<"last_amp_updated_timestamp">>)
      [] OTHER   -> Refuse

parse_curve_pool_instruction(ix) ==
    PoolEvent(ix,
              parse_curve_type(ix.data.tag)
              \o (IF ix.name = "initialize_permissionless_pool_with_fee_tier"
                  THEN U64s(<<"trade_fee_bps">>) ELSE <<>>)
              \o (IF ix.name = "initialize_permissioned_pool" THEN <<>>
                  ELSE U64s(<<"token_a_in_amount", "token_b_in_amount">>)),
              "MeteoraPoolsPoolCreated", fill_pools_pool_created_accounts)

ActivationPoint(tag) ==
    CASE tag = 0 -> Skip(1)
      [] tag = 1 -> Skip(1) \o U64s(<<"activation_point">>)
      [] OTHER   -> Refuse

parse_customizable_pool_instruction(ix) ==
    PoolEvent(ix,
              U64s(<<"token_a_in_amount", "token_b_in_amount">>) \o U32s(<<"trade_fee_numerator">>)
              \o ActivationPoint(ix.data.tag) \o Flags(<<"has_alpha_vault">>)
              \o U8s(<<"activation_type">>) \o Bytes("padding", 90),
              "MeteoraPoolsPoolCreated", fill_pools_pool_created_accounts)

pools_parse_create_pool_instruction(ix, config2) ==
    PoolEvent(ix,
              U64s(<<"token_a_in_amount", "token_b_in_amount">>)
              \o (IF config2 THEN ActivationPoint(ix.data.tag) ELSE <<>>),
              "MeteoraPoolsPoolCreated", fill_pools_pool_created_accounts)

parse_set_pool_fees_instruction(ix) ==
    PoolEvent(ix, U64s(<<"trade_fee_numerator", "trade_fee_denominator",
                         "protocol_trade_fee_numerator", "protocol_trade_fee_denominator",
                         "new_partner_fee_numerator">>),
              "MeteoraPoolsSetPoolFees", fill_pools_set_pool_fees_accounts)

pools_parse_instruction(ix) ==
    LET config  == "initialize_permissionless_constant_product_pool_with_config"
        config2 == "initialize_permissionless_constant_product_pool_with_config2"
    IN  CASE ix.name = "swap" -> pools_parse_swap_instruction(ix)
          [] ix.name \in {"add_balance_liquidity", "add_imbalance_liquidity"} ->
               pools_parse_add_liquidity_instruction(ix)
          [] ix.name \in {"remove_balance_liquidity", "remove_liquidity_single_side"} ->
               pools_parse_remove(ix)
          [] ix.name = "bootstrap_liquidity" -> parse_bootstrap_instruction(ix)
          [] ix.name \in {config, config2} ->
               pools_parse_create_pool_instruction(ix, ix.name = config2)
          [] ix.name = "set_pool_fees" -> parse_set_pool_fees_instruction(ix)
          [] ix.name \in {"initialize_permissioned_pool", "initialize_permissionless_pool",
                          "initialize_permissionless_pool_with_fee_tier"} ->
               parse_curve_pool_instruction(ix)
          [] ix.name = "initialize_customizable_permissionless_constant_product_pool" ->
               parse_customizable_pool_instruction(ix)
          [] OTHER -> NoEvent

\* ---- Meteora DAMM V2.  All but the creation of a pool are event CPIs, whose
\* accounts are in the data: the discriminator of the event follows the anchor tag.
damm_parse_initialize_pool(ix) ==
    From(ix, 10,
         Min(33) \o U128s(<<"liquidity", "sqrt_price">>) \o ActivationPoint(ix.data.tag),
         "MeteoraDammV2InitializePool", FALSE,
         Fields(0, <<"creator", "position_nft_mint">>)
         @@ Fields(6, <<"pool", "position", "token_a_mint", "token_b_mint">>))

parse_swap_log_instruction ==
    Decoder("MeteoraDammV2Swap",
        Keys(<<"pool">>) \o U8s(<<"trade_direction">>) \o Flags(<<"has_referral">>)
        \o U64s(<<"amount_in", "minimum_amount_out", "output_amount">>)
        \o U128s(<<"next_sqrt_price">>)
        \o U64s(<<"lp_fee", "protocol_fee", "partner_fee", "referral_fee", "actual_amount_in",
                  "current_timestamp">>))

\* The tag is the swap mode: which of the two amounts is exact.
parse_swap2_log_instruction ==
    ByTag(LAMBDA t : "MeteoraDammV2Swap", LAMBDA t :
        Keys(<<"pool">>) \o U8s(<<"trade_direction">>) \o Skip(1) \o Flags(<<"has_referral">>)
        \o U64s(IF t = 0 THEN <<"amount_in", "minimum_amount_out">>
                         ELSE <<"minimum_amount_out", "amount_in">>)
        \o Skip(1) \o U64s(<<"actual_amount_in">>) \o Skip(16) \o U64s(<<"output_amount">>)
        \o U128s(<<"next_sqrt_price">>) \o U64s(<<"lp_fee", "protocol_fee", "referral_fee">>)
        \o Skip(16) \o U64s(<<"current_timestamp">>))

damm_position_log(event) ==
    Decoder(event, Keys(<<"pool", "owner", "position", "position_nft_mint">>))

parse_add_liquidity_log_instruction ==
    Decoder("MeteoraDammV2AddLiquidity",
        Keys(<<"pool", "position", "owner">>) \o U128s(<<"liquidity_delta">>)
        \o U64s(<<"token_a_amount_threshold", "token_b_amount_threshold", "token_a_amount",
                  "token_b_amount", "total_amount_a", "total_amount_b">>))

parse_remove_liquidity_log_instruction ==
    Decoder("MeteoraDammV2RemoveLiquidity",
        Keys(<<"pool", "position", "owner">>) \o U128s(<<"liquidity_delta">>)
        \o U64s(<<"token_a_amount_threshold", "token_b_amount_threshold", "token_a_amount",
                  "token_b_amount">>))

\* The decoders of the event CPIs by the name of the event.
DammLogs ==
       ("swap_log" :> parse_swap_log_instruction)
    @@ ("swap2_log" :> parse_swap2_log_instruction)
    @@ ("create_position_log" :> damm_position_log("MeteoraDammV2CreatePosition"))
    @@ ("close_position_log" :> damm_position_log("MeteoraDammV2ClosePosition"))
    @@ ("add_liquidity_log" :> parse_add_liquidity_log_instruction)
    @@ ("remove_liquidity_log" :> parse_remove_liquidity_log_instruction)
    @@ ("claim_position_fee_log" :> Damm!parse_claim_position_fee_from_data)
    @@ ("initialize_reward_log" :> Damm!parse_initialize_reward_from_data)
    @@ ("fund_reward_log" :> Damm!parse_fund_reward_from_data)
    @@ ("claim_reward_log" :> Damm!parse_claim_reward_from_data)

\* An event CPI needs both discriminators, and then what its decoder needs.
damm_parse_instruction(ix) ==
    IF ix.name = "initialize_pool" THEN damm_parse_initialize_pool(ix)
    ELSE IF ix.name \notin DOMAIN DammLogs \/ ix.data.len < 16 THEN NoEvent
    ELSE LET read == Decode(Args(ix, 16), DammLogs[ix.name])
         IN  IF read.status # "event" THEN NoEvent
             ELSE Event(read.event, "", FALSE, <<>>) @@ ("args" :> read.fields)

\* ---- Meteora DLMM.  The tag of the data is the option byte of a price impact
\* swap.
dlmm_initialize_pool(ix, reads) ==
    From(ix, 1, reads, "MeteoraDlmmInitializePool", FALSE, ("pool" :> 0) @@ ("creator" :> 8))

parse_initialize_bin_array_instruction(ix) ==
    From(ix, 1, U64s(<<"index">>), "MeteoraDlmmInitializeBinArray", FALSE,
         Fields(0, <<"pool", "bin_array">>))

dlmm_liquidity(ix, type, sender) ==
    From(ix, sender + 1, <<>>, type, FALSE, Fields(0, <<"position", "pool">>) @@ ("from" :> sender))

\* A negative width (tag 4 here) is refused.
parse_initialize_position_instruction(ix, first) ==
    From(ix, first + 3,
         U32s(<<"lower_bin_id", "width">>) \o (IF ix.data.tag = 4 THEN Refuse ELSE <<>>),
         "MeteoraDlmmCreatePosition", FALSE, Fields(first, <<"position", "pool", "owner">>))

dlmm_swap_reads(ix) ==
    CASE ix.name \in {"swap", "swap2"} -> U64s(<<"amount_in", "min_amount_out">>)
      [] ix.name \in {"swap_exact_out", "swap_exact_out2"} -> U64s(<<"amount_in", "amount_out">>)
      [] OTHER -> U64s(<<"amount_in">>)
                  \o (CASE ix.data.tag = 0 -> Skip(3)
                        [] ix.data.tag = 1 -> Skip(7)
                        [] OTHER -> Refuse)

dlmm_parse_swap(ix) ==
    LET start == validate_swap_layout(ix)
        e     == Placed("MeteoraDlmmSwap", "", FALSE, ix.accounts,
                        ("pool" :> 0) @@ ("from" :> 10)
                        @@ Fields(4, <<"user_token_in", "user_token_out">>))
    IN  IF start = 0 THEN NoEvent
        ELSE Parsed(ix, 1, dlmm_swap_reads(ix),
                    fill_dlmm_swap_accounts_with_layout(
                        e, ix.accounts, start, Len(ix.accounts),
                        ix.name \in {"swap2", "swap_exact_out2", "swap_with_price_impact2"}))

parse_claim_fee_instruction(ix, owner) ==
    From(ix, owner + 1, <<>>, "MeteoraDlmmClaimFee", FALSE,
         Fields(0, <<"pool", "position">>) @@ ("owner" :> owner))

\* The second version does not name the pool.
dlmm_parse_close_position_instruction(ix) ==
    IF ix.name = "close_position"
    THEN From(ix, 5, <<>>, "MeteoraDlmmClosePosition", FALSE,
              Fields(0, <<"position", "pool">>) @@ ("owner" :> 4))
    ELSE From(ix, 2, <<>>, "MeteoraDlmmClosePosition", FALSE, Fields(0, <<"position", "owner">>))

dlmm_parse_instruction(ix) ==
    CASE ix.name = "initialize_lb_pair" ->
           dlmm_initialize_pool(ix, U32s(<<"active_bin_id">>) \o U16s(<<"bin_step">>))
      [] ix.name = "initialize_lb_pair2" -> dlmm_initialize_pool(ix, U32s(<<"active_bin_id">>))
      [] ix.name = "initialize_bin_array" -> parse_initialize_bin_array_instruction(ix)
      [] ix.name = "add_liquidity"     -> dlmm_liquidity(ix, "MeteoraDlmmAddLiquidity", 11)
      [] ix.name = "add_liquidity2"    -> dlmm_liquidity(ix, "MeteoraDlmmAddLiquidity", 9)
      [] ix.name = "remove_liquidity"  -> dlmm_liquidity(ix, "MeteoraDlmmRemoveLiquidity", 11)
      [] ix.name = "remove_liquidity2" -> dlmm_liquidity(ix, "MeteoraDlmmRemoveLiquidity", 9)
      [] ix.name \in {"initialize_position", "initialize_position2"} ->
           parse_initialize_position_instruction(ix, 1)
      [] ix.name = "initialize_position_pda" -> parse_initialize_position_instruction(ix, 2)
      [] ix.name \in {"swap", "swap2", "swap_exact_out", "swap_exact_out2",
                      "swap_with_price_impact", "swap_with_price_impact2"} -> dlmm_parse_swap(ix)
      [] ix.name = "claim_fee"  -> parse_claim_fee_instruction(ix, 4)
      [] ix.name = "claim_fee2" -> parse_claim_fee_instruction(ix, 2)
      [] ix.name \in {"close_position", "close_position2"} ->
           dlmm_parse_close_position_instruction(ix)
      [] OTHER -> NoEvent

\* ---- The entry point of all instruction parsers.  The instructions the gate in
\* front of them lets through, by program.
Supported ==
    ("pump" :> {"create", "create_v2", "buy", "sell", "buy_exact_sol_in", "buy_v2",
                "buy_exact_quote_in_v2", "sell_v2", "buy_v3", "buy_exact_quote_in_v3", "sell_v3"})
    @@ ("pumpswap" :> {"buy", "buy_v2", "buy_exact_quote_in_v2", "sell_v2", "sell", "create_pool",
                       "buy_exact_quote_in", "deposit", "withdraw"})
    @@ ("pump_fees" :> {"create_fee_sharing_config", "initialize_fee_config",
                        "reset_fee_sharing_config", "reset_fee_sharing_config_v2",
                        "revoke_fee_sharing_authority", "transfer_fee_sharing_authority",
                        "update_admin", "update_fee_config", "update_fee_shares",
                        "update_fee_shares_v2", "upsert_fee_tiers"})
    @@ ("launchlab" :> {"buy_exact_in", "buy_exact_out", "sell_exact_in", "sell_exact_out",
                        "initialize", "initialize_v2", "initialize_with_token_2022",
                        "migrate_to_amm", "migrate_to_cpswap"})
    @@ ("raydium_cpmm" :> {"swap_base_input", "swap_base_output", "initialize", "deposit",
                           "withdraw", "collect_creator_fee",
                           "collect_creator_fee_permissionless"})
    @@ ("raydium_clmm" :> {"swap", "swap_v2", "increase_liquidity_v2", "decrease_liquidity_v2",
                           "create_pool", "create_customizable_pool", "open_position",
                           "open_position_v2", "open_position_with_token_22_nft",
                           "close_position"})
    @@ ("raydium_amm" :> {"swap_base_in", "swap_base_out", "deposit", "withdraw", "initialize2",
                          "withdraw_pnl", "swap_base_in_v2", "swap_base_out_v2"})
    @@ ("orca" :> {"swap", "swap_v2", "increase_liquidity", "decrease_liquidity",
                   "initialize_pool", "initialize_pool_v2", "increase_liquidity_v2",
                   "decrease_liquidity_v2"})
    @@ ("meteora_pools" :> {"swap", "add_balance_liquidity", "add_imbalance_liquidity",
                            "remove_balance_liquidity", "remove_liquidity_single_side",
                            "bootstrap_liquidity", "initialize_permissioned_pool",
                            "initialize_permissionless_pool",
                            "initialize_permissionless_pool_with_fee_tier",
                            "initialize_customizable_permissionless_constant_product_pool",
                            "initialize_permissionless_constant_product_pool_with_config",
                            "initialize_permissionless_constant_product_pool_with_config2",
                            "set_pool_fees"})
    @@ ("meteora_damm" :> {"initialize_pool", "swap_log", "swap2_log", "create_position_log",
                           "close_position_log", "add_liquidity_log", "remove_liquidity_log",
                           "claim_position_fee_log", "initialize_reward_log", "fund_reward_log",
                           "claim_reward_log"})
    @@ ("meteora_dlmm" :> {"initialize_lb_pair", "initialize_lb_pair2", "initialize_bin_array",
                           "add_liquidity", "add_liquidity2", "remove_liquidity",
                           "remove_liquidity2", "initialize_position", "initialize_position2",
                           "initialize_position_pda", "swap", "swap2", "swap_exact_out",
                           "swap_exact_out2", "swap_with_price_impact", "swap_with_price_impact2",
                           "claim_fee", "claim_fee2", "close_position", "close_position2"})
    @@ ("meteora_dbc" :> DOMAIN Dbc!parse_dbc_event_cpi)

\* The bytes an opcode needs: event CPIs have a second discriminator.
OpcodeLength(ix) ==
    CASE ix.program = "raydium_amm" -> 1
      [] ix.program = "meteora_dbc" -> 16
      [] ix.program = "meteora_damm" /\ ix.name # "initialize_pool" -> 16
      [] OTHER -> 8

instruction_data_may_parse(ix) ==
    /\ ix.program \in DOMAIN Supported
    /\ ix.data.len >= OpcodeLength(ix)
    /\ ix.name \in Supported[ix.program]

\* Event CPIs are left to the parsers of inner instructions.
normal_instruction_data_may_parse(ix) ==
    /\ ix.program # "meteora_dbc"
    /\ ix.program = "meteora_damm" => ix.name = "initialize_pool"
    /\ instruction_data_may_parse(ix)

\* The event of a CPI, which has no accounts of its own.
FromLog(ix, decoder) ==
    LET read == Decode(Args(ix, 16), decoder)
    IN  IF ix.data.len < 16 \/ read.status # "event" THEN NoEvent
        ELSE Event(read.event, "", FALSE, <<>>) @@ ("args" :> read.fields)

\* The parser of each program.
ParserOf(ix) ==
    CASE ix.program = "meteora_dbc" ->
           IF ix.name \notin DOMAIN Dbc!parse_dbc_event_cpi THEN NoEvent
           ELSE FromLog(ix, Dbc!parse_dbc_event_cpi[ix.name])
      [] ix.program = "pump"          -> pump_parse_instruction(ix)
      [] ix.program = "pumpswap"      -> pumpswap_parse_instruction(ix)
      [] ix.program = "pump_fees"     -> pump_fees_parse_instruction(ix)
      [] ix.program = "meteora_damm"  -> damm_parse_instruction(ix)
      [] ix.program = "launchlab"     -> launchlab_parse_instruction(ix)
      [] ix.program = "raydium_cpmm"  -> cpmm_parse_instruction(ix)
      [] ix.program = "raydium_clmm"  -> clmm_parse_instruction(ix)
      [] ix.program = "raydium_amm"   -> amm_parse_instruction(ix)
      [] ix.program = "orca"          -> orca_parse_instruction(ix)
      [] ix.program = "meteora_pools" -> pools_parse_instruction(ix)
      [] ix.program = "meteora_dlmm"  -> dlmm_parse_instruction(ix)
      [] OTHER -> NoEvent

\* A program none of whose events the filter keeps is not parsed.
Wanted(program, filter) ==
    CASE program = "pump"          -> includes_pumpfun(filter)
      [] program = "pumpswap"      -> includes_pumpswap(filter)
      [] program = "pump_fees"     -> includes_pump_fees(filter)
      [] program = "meteora_damm"  -> includes_meteora_damm_v2(filter)
      [] program = "meteora_dbc"   -> includes_meteora_dbc(filter)
      [] program = "launchlab"     -> includes_raydium_launchlab(filter)
      [] program = "raydium_cpmm"  -> includes_raydium_cpmm(filter)
      [] program = "raydium_clmm"  -> includes_raydium_clmm(filter)
      [] program = "raydium_amm"   -> includes_raydium_amm_v4(filter)
      [] program = "orca"          -> includes_orca_whirlpool(filter)
      [] program = "meteora_pools" -> includes_meteora_pools(filter)
      [] program = "meteora_dlmm"  -> includes_meteora_dlmm(filter)
      [] OTHER -> FALSE

\* The tag of a change of CPMM liquidity is its direction.
filter_parsed_event(e, tag, filter) ==
    IF e # NoEvent /\ should_include_dex_event(filter, e.type, tag, FALSE) THEN e ELSE NoEvent

\* The liquidity event of a CPMM pool is parsed whatever the filter wants of the
\* program, and then filtered like any other.
parse_instruction_unified(ix, filter) ==
    IF ix.program = "raydium_cpmm" /\ ix.name = "lp_change_event"
    THEN filter_parsed_event(FromLog(ix, Cpmm!parse_lp_change_from_data), ix.data.tag, filter)
    ELSE IF ~Wanted(ix.program, filter) THEN NoEvent
    ELSE filter_parsed_event(ParserOf(ix), ix.data.tag, filter)
==============================================================================
