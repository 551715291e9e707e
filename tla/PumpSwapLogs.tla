----------------------------- MODULE PumpSwapLogs -----------------------------
(*****************************************************************************)
(* The decoders of PumpSwap (logs/pump_amm.rs) and of the pump fee program   *)
(* (logs/pump_fees.rs).  The tag of a fee sharing configuration is the       *)
(* presence byte of its optional pool.                                       *)
(*****************************************************************************)
EXTENDS Layouts

parse_trade_tail ==
    Stage(16, U64s(<<"cashback_fee_basis_points", "cashback">>))
    \o Stage(16, U64s(<<"buyback_fee_basis_points", "buyback_fee">>))
    \o Stage(25, U128s(<<"virtual_quote_reserves">>) \o Flags(<<"can_boost">>)
                 \o U64s(<<"base_supply">>))
    \o Stage(16, U64s(<<"holder_rewards_bps", "holder_rewards">>))
    \o Stage(8, U64s(<<"creator_fee_unclaimed">>))

parse_buy_from_data ==
    Decoder("PumpSwapBuy",
        Min(397) \o Raw(U64s(<<
            "timestamp", "base_amount_out", "max_quote_amount_in", "user_base_token_reserves",
            "user_quote_token_reserves", "pool_base_token_reserves", "pool_quote_token_reserves",
            "quote_amount_in", "lp_fee_basis_points", "lp_fee", "protocol_fee_basis_points",
            "protocol_fee", "quote_amount_in_with_lp_fee", "user_quote_amount_in">>)
        \o Keys(<<"pool", "user", "user_base_token_account", "user_quote_token_account",
            "protocol_fee_recipient", "protocol_fee_recipient_token_account", "coin_creator">>)
        \o U64s(<<"coin_creator_fee_basis_points", "coin_creator_fee">>))
        \o Flags(<<"track_volume">>)
        \o Raw(U64s(<<"total_unclaimed_tokens", "total_claimed_tokens", "current_sol_volume",
            "last_update_timestamp", "min_base_amount_out">>))
        \o Strs(<<"ix_name">>) \o parse_trade_tail)

parse_sell_from_data ==
    Decoder("PumpSwapSell",
        Min(352) \o Raw(U64s(<<
            "timestamp", "base_amount_in", "min_quote_amount_out", "user_base_token_reserves",
            "user_quote_token_reserves", "pool_base_token_reserves", "pool_quote_token_reserves",
            "quote_amount_out", "lp_fee_basis_points", "lp_fee", "protocol_fee_basis_points",
            "protocol_fee", "quote_amount_out_without_lp_fee", "user_quote_amount_out">>)
        \o Keys(<<"pool", "user", "user_base_token_account", "user_quote_token_account",
            "protocol_fee_recipient", "protocol_fee_recipient_token_account", "coin_creator">>)
        \o U64s(<<"coin_creator_fee_basis_points", "coin_creator_fee">>))
        \o parse_trade_tail)

parse_create_pool_from_data ==
    Decoder("PumpSwapCreatePool", Min(326) \o Raw(U64s(<<"timestamp">>) \o U16s(<<"index">>)
        \o Keys(<<"creator", "base_mint", "quote_mint">>)
        \o U8s(<<"base_mint_decimals", "quote_mint_decimals">>)
        \o U64s(<<"base_amount_in", "quote_amount_in", "pool_base_amount", "pool_quote_amount",
            "minimum_liquidity", "initial_liquidity", "lp_token_amount_out">>)
        \o U8s(<<"pool_bump">>)
        \o Keys(<<"pool", "lp_mint", "user_base_token_account", "user_quote_token_account",
            "coin_creator">>))
        \o Flags(<<"is_mayhem_mode">>)
        \o Stage(9, U64s(<<"creator_fee_bps">>) \o Flags(<<"can_edit_creator_fee">>))
        \o Last(Flags(<<"is_holder_reward">>)))

parse_add_liquidity_from_data ==
    Decoder("PumpSwapLiquidityAdded",
        Min(248) \o Raw(U64s(<<
            "timestamp", "lp_token_amount_out", "max_base_amount_in", "max_quote_amount_in",
            "user_base_token_reserves", "user_quote_token_reserves", "pool_base_token_reserves",
            "pool_quote_token_reserves", "base_amount_in", "quote_amount_in", "lp_mint_supply">>)
        \o Keys(<<"pool", "user", "user_base_token_account", "user_quote_token_account",
            "user_pool_token_account">>)))

parse_remove_liquidity_from_data ==
    Decoder("PumpSwapLiquidityRemoved",
        Min(248) \o Raw(U64s(<<
            "timestamp", "lp_token_amount_in", "min_base_amount_out", "min_quote_amount_out",
            "user_base_token_reserves", "user_quote_token_reserves", "pool_base_token_reserves",
            "pool_quote_token_reserves", "base_amount_out", "quote_amount_out", "lp_mint_supply">>)
        \o Keys(<<"pool", "user", "user_base_token_account", "user_quote_token_account",
            "user_pool_token_account">>)))

parse_create_pool_event_optimized ==
    parse_create_pool_from_data

parse_add_liquidity_event_optimized ==
    parse_add_liquidity_from_data

parse_remove_liquidity_event_optimized ==
    parse_remove_liquidity_from_data

parse_log ==
    "67f4521f2cf57777" :> parse_buy_from_data
    @@ "3e2f370aa503dc2a" :> parse_sell_from_data
    @@ "b1310cd2a076a774" :> parse_create_pool_event_optimized
    @@ "78f83d531f8e6b90" :> parse_add_liquidity_event_optimized
    @@ "1609851aa02c47c0" :> parse_remove_liquidity_event_optimized

read_option_pubkey_at(name, t) ==
    Byte("", 1) \o CASE t = 0 -> <<>> [] t = 1 -> Keys(<<name>>) [] OTHER -> Refuse

read_fees_at(name) ==
    Bytes(name, 24)

read_shareholders_vec(name) ==
    Few(name, 34, 64)

read_fee_tiers_vec(name) ==
    Few(name, 40, 64)

parse_create_fee_sharing_config_from_data ==
    ByTag(LAMBDA t : "PumpFeesCreateFeeSharingConfig", LAMBDA t :
        U64s(<<"timestamp">>) \o Keys(<<"mint", "bonding_curve">>)
            \o read_option_pubkey_at("pool", t)
        \o Keys(<<"sharing_config", "admin">>) \o read_shareholders_vec("initial_shareholders")
        \o Flags(<<"status">>) \o End)

parse_initialize_fee_config_from_data ==
    Decoder("PumpFeesInitializeFeeConfig",
        U64s(<<"timestamp">>) \o Keys(<<"admin", "fee_config">>) \o End)

parse_reset_fee_sharing_config_from_data ==
    Decoder("PumpFeesResetFeeSharingConfig", U64s(<<"timestamp">>)
        \o Keys(<<"mint", "sharing_config", "old_admin">>)
            \o read_shareholders_vec("old_shareholders")
        \o Keys(<<"new_admin">>) \o read_shareholders_vec("new_shareholders") \o End)

parse_revoke_fee_sharing_authority_from_data ==
    Decoder("PumpFeesRevokeFeeSharingAuthority", U64s(<<"timestamp">>)
        \o Keys(<<"mint", "sharing_config", "admin">>) \o End)

parse_transfer_fee_sharing_authority_from_data ==
    Decoder("PumpFeesTransferFeeSharingAuthority", U64s(<<"timestamp">>)
        \o Keys(<<"mint", "sharing_config", "old_admin", "new_admin">>) \o End)

parse_update_admin_from_data ==
    Decoder("PumpFeesUpdateAdmin",
        U64s(<<"timestamp">>) \o Keys(<<"old_admin", "new_admin">>) \o End)

parse_update_fee_config_from_data ==
    Decoder("PumpFeesUpdateFeeConfig", U64s(<<"timestamp">>) \o Keys(<<"admin", "fee_config">>)
        \o read_fee_tiers_vec("fee_tiers") \o read_fees_at("flat_fees") \o End)

parse_update_fee_shares_from_data ==
    Decoder("PumpFeesUpdateFeeShares", U64s(<<"timestamp">>)
        \o Keys(<<"mint", "sharing_config", "admin">>)
            \o read_shareholders_vec("new_shareholders") \o End)

parse_upsert_fee_tiers_from_data ==
    Decoder("PumpFeesUpsertFeeTiers", U64s(<<"timestamp">>) \o Keys(<<"admin", "fee_config">>)
        \o read_fee_tiers_vec("fee_tiers") \o U8s(<<"offset">>) \o End)
==============================================================================
