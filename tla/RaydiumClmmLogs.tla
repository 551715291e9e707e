--------------------------- MODULE RaydiumClmmLogs ----------------------------
(*****************************************************************************)
(* The decoders of the Raydium CLMM program events (logs/raydium_clmm.rs).   *)
(* Each event has a decoder for a log line (parse_X_event) and one for a body*)
(* that is already decoded (parse_X_from_data); some of the former call the  *)
(* latter, the others repeat it.                                             *)
(*****************************************************************************)
EXTENDS Layouts

parse_swap_event ==
    Decoder("RaydiumClmmSwap",
        Keys(<<"pool_state", "sender", "token_account_0", "token_account_1">>)
        \o U64s(<<"amount_0", "transfer_fee_0", "amount_1", "transfer_fee_1">>)
        \o U8s(<<"zero_for_one">>) \o U128s(<<"sqrt_price_x64", "liquidity">>)
        \o U32s(<<"tick">>))

parse_increase_liquidity_event ==
    Decoder("RaydiumClmmIncreaseLiquidity", Keys(<<"position_nft_mint">>) \o U128s(<<"liquidity">>)
        \o U64s(<<"amount_0", "amount_1", "amount_0_transfer_fee",
              "amount_1_transfer_fee">>))

parse_decrease_liquidity_event ==
    Decoder("RaydiumClmmDecreaseLiquidity", Keys(<<"position_nft_mint">>) \o U128s(<<"liquidity">>)
        \o U64s(<<"decrease_amount_0", "decrease_amount_1", "fee_amount_0", "fee_amount_1">>)
        \o Bytes("reward_amounts", 24) \o U64s(<<"transfer_fee_0", "transfer_fee_1">>))

parse_liquidity_change_event ==
    Decoder("RaydiumClmmLiquidityChange",
        Keys(<<"pool_state">>) \o U32s(<<"tick", "tick_lower", "tick_upper">>)
        \o U128s(<<"liquidity_before", "liquidity_after">>))

parse_create_pool_event ==
    Decoder("RaydiumClmmCreatePool",
        Keys(<<"token_0_mint", "token_1_mint">>) \o U16s(<<"tick_spacing">>)
        \o Keys(<<"pool">>) \o U128s(<<"sqrt_price_x64">>) \o U32s(<<"tick">>)
        \o Keys(<<"token_vault_0", "token_vault_1">>))

parse_collect_personal_fee_event ==
    Decoder("RaydiumClmmCollectFee", Keys(<<"position_nft_mint", "recipient_token_account_0",
              "recipient_token_account_1">>)
        \o U64s(<<"amount_0", "amount_1">>))

parse_collect_protocol_fee_event ==
    Decoder("RaydiumClmmCollectFee",
        Keys(<<"pool_state", "recipient_token_account_0", "recipient_token_account_1">>)
        \o U64s(<<"amount_0", "amount_1">>))

parse_swap_from_data ==
    Decoder("RaydiumClmmSwap",
        Keys(<<"pool_state", "sender", "token_account_0", "token_account_1">>)
        \o U64s(<<"amount_0", "transfer_fee_0", "amount_1", "transfer_fee_1">>)
        \o U8s(<<"zero_for_one">>) \o U128s(<<"sqrt_price_x64", "liquidity">>)
        \o U32s(<<"tick">>))

parse_increase_liquidity_from_data ==
    Decoder("RaydiumClmmIncreaseLiquidity", Keys(<<"position_nft_mint">>) \o U128s(<<"liquidity">>)
        \o U64s(<<"amount_0", "amount_1", "amount_0_transfer_fee",
              "amount_1_transfer_fee">>))

parse_decrease_liquidity_from_data ==
    Decoder("RaydiumClmmDecreaseLiquidity", Keys(<<"position_nft_mint">>) \o U128s(<<"liquidity">>)
        \o U64s(<<"decrease_amount_0", "decrease_amount_1", "fee_amount_0", "fee_amount_1">>)
        \o Bytes("reward_amounts", 24) \o U64s(<<"transfer_fee_0", "transfer_fee_1">>))

parse_liquidity_change_from_data ==
    Decoder("RaydiumClmmLiquidityChange",
        Keys(<<"pool_state">>) \o U32s(<<"tick", "tick_lower", "tick_upper">>)
        \o U128s(<<"liquidity_before", "liquidity_after">>))

parse_config_change_from_data ==
    Decoder("RaydiumClmmConfigChange", U16s(<<"index">>) \o Keys(<<"owner">>)
        \o U32s(<<"protocol_fee_rate", "trade_fee_rate">>)
        \o U16s(<<"tick_spacing">>) \o U32s(<<"fund_fee_rate">>)
        \o Keys(<<"fund_owner">>))

parse_create_personal_position_from_data ==
    Decoder("RaydiumClmmCreatePersonalPosition", Keys(<<"pool_state", "minter", "nft_owner">>)
        \o U32s(<<"tick_lower_index", "tick_upper_index">>)
        \o U128s(<<"liquidity">>)
        \o U64s(<<"deposit_amount_0", "deposit_amount_1",
              "deposit_amount_0_transfer_fee", "deposit_amount_1_transfer_fee">>))

parse_liquidity_calculate_from_data ==
    Decoder("RaydiumClmmLiquidityCalculate",
        U128s(<<"pool_liquidity", "pool_sqrt_price_x64">>) \o U32s(<<"pool_tick">>)
        \o U64s(<<"calc_amount_0", "calc_amount_1", "trade_fee_owed_0",
              "trade_fee_owed_1", "transfer_fee_0", "transfer_fee_1">>))

parse_open_limit_order_from_data ==
    Decoder("RaydiumClmmOpenLimitOrder",
        Keys(<<"pool_id", "limit_order">>) \o U8s(<<"zero_for_one">>)
        \o U32s(<<"tick_index">>) \o U64s(<<"total_amount", "transfer_fee">>))

parse_increase_limit_order_from_data ==
    Decoder("RaydiumClmmIncreaseLimitOrder",
        Keys(<<"pool_id", "limit_order">>) \o U8s(<<"zero_for_one">>)
        \o U32s(<<"tick_index">>)
        \o U64s(<<"total_amount", "increased_amount", "transfer_fee">>))

parse_decrease_limit_order_from_data ==
    Decoder("RaydiumClmmDecreaseLimitOrder",
        Keys(<<"pool_id", "limit_order">>) \o U8s(<<"zero_for_one">>)
        \o U32s(<<"tick_index">>)
        \o U64s(<<"total_amount", "filled_amount", "settled_output_amount",
              "decreased_amount">>))

parse_settle_limit_order_from_data ==
    Decoder("RaydiumClmmSettleLimitOrder",
        Keys(<<"pool_id", "limit_order">>) \o U8s(<<"zero_for_one">>)
        \o U32s(<<"tick_index">>)
        \o U64s(<<"total_amount", "filled_amount", "settled_amount_out">>))

parse_update_reward_infos_from_data ==
    Decoder("RaydiumClmmUpdateRewardInfos", Bytes("reward_growth_global_x64", 48))

parse_create_pool_from_data ==
    Decoder("RaydiumClmmCreatePool",
        Keys(<<"token_0_mint", "token_1_mint">>) \o U16s(<<"tick_spacing">>)
        \o Keys(<<"pool">>) \o U128s(<<"sqrt_price_x64">>) \o U32s(<<"tick">>)
        \o Keys(<<"token_vault_0", "token_vault_1">>))

parse_collect_personal_fee_from_data ==
    Decoder("RaydiumClmmCollectFee", Keys(<<"position_nft_mint", "recipient_token_account_0",
              "recipient_token_account_1">>)
        \o U64s(<<"amount_0", "amount_1">>))

parse_collect_protocol_fee_from_data ==
    Decoder("RaydiumClmmCollectFee",
        Keys(<<"pool_state", "recipient_token_account_0", "recipient_token_account_1">>)
        \o U64s(<<"amount_0", "amount_1">>))

parse_config_change_event == parse_config_change_from_data

parse_create_personal_position_event == parse_create_personal_position_from_data

parse_liquidity_calculate_event == parse_liquidity_calculate_from_data

parse_open_limit_order_event == parse_open_limit_order_from_data

parse_increase_limit_order_event == parse_increase_limit_order_from_data

parse_decrease_limit_order_event == parse_decrease_limit_order_from_data

parse_settle_limit_order_event == parse_settle_limit_order_from_data

parse_update_reward_infos_event == parse_update_reward_infos_from_data

parse_collect_fee_from_data == parse_collect_personal_fee_from_data

parse_structured_log ==
       "40c6cde8260871e2" :> parse_swap_event
    @@ "314f69d420221e54" :> parse_increase_liquidity_event
    @@ "3ade563a44325538" :> parse_decrease_liquidity_event
    @@ "7ef0afce9e58996b" :> parse_liquidity_change_event
    @@ "f7bd07776a705f97" :> parse_config_change_event
    @@ "641e57f9c4df9ace" :> parse_create_personal_position_event
    @@ "ed7094e63954b4a2" :> parse_liquidity_calculate_event
    @@ "6a18475539a99ed8" :> parse_open_limit_order_event
    @@ "0b780dccc75713c8" :> parse_increase_limit_order_event
    @@ "463028dddbedd4a3" :> parse_decrease_limit_order_event
    @@ "58774da47d7c0ac2" :> parse_settle_limit_order_event
    @@ "6d7fba4e724125ec" :> parse_update_reward_infos_event
    @@ "195e4b2f7063353f" :> parse_create_pool_event
    @@ "a6ae69c051a15369" :> parse_collect_personal_fee_event
    @@ "ce57114f2d29d53d" :> parse_collect_protocol_fee_event
==============================================================================
