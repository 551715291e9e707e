--------------------------- MODULE MeteoraPoolsLogs ---------------------------
(*****************************************************************************)
(* The decoders of the Meteora Pools events (logs/meteora_amm.rs) and of the *)
(* events of the dynamic bonding curve they grow from (logs/meteora_dbc.rs), *)
(* for which the tag is the swap mode of a swap2 body.                       *)
(*****************************************************************************)
EXTENDS Layouts

parse_swap_from_data ==
    Decoder("MeteoraPoolsSwap",
        U64s(<<"in_amount", "out_amount", "trade_fee", "admin_fee", "host_fee">>))

parse_add_liquidity_from_data ==
    Decoder("MeteoraPoolsAddLiquidity",
        U64s(<<"lp_mint_amount", "token_a_amount", "token_b_amount">>))

parse_remove_liquidity_from_data ==
    Decoder("MeteoraPoolsRemoveLiquidity",
        U64s(<<"lp_unmint_amount", "token_a_out_amount", "token_b_out_amount">>))

parse_bootstrap_liquidity_from_data ==
    Decoder("MeteoraPoolsBootstrapLiquidity",
        U64s(<<"lp_mint_amount", "token_a_amount", "token_b_amount">>)
        \o Keys(<<"pool">>))

parse_pool_created_from_data ==
    Decoder("MeteoraPoolsPoolCreated",
        Keys(<<"lp_mint", "token_a_mint", "token_b_mint">>) \o U8s(<<"pool_type">>)
        \o Keys(<<"pool">>))

parse_set_pool_fees_from_data ==
    Decoder("MeteoraPoolsSetPoolFees", U64s(<<"trade_fee_numerator", "trade_fee_denominator",
              "owner_trade_fee_numerator">>) \o Also("protocol_trade_fee_numerator", 8)
        \o U64s(<<"owner_trade_fee_denominator">>) \o Also("protocol_trade_fee_denominator", 8)
        \o Keys(<<"pool">>))

parse_swap_event ==
    Decoder("MeteoraPoolsSwap",
        U64s(<<"in_amount", "out_amount", "trade_fee", "admin_fee", "host_fee">>))

parse_add_liquidity_event ==
    Decoder("MeteoraPoolsAddLiquidity",
        U64s(<<"lp_mint_amount", "token_a_amount", "token_b_amount">>))

parse_remove_liquidity_event ==
    Decoder("MeteoraPoolsRemoveLiquidity",
        U64s(<<"lp_unmint_amount", "token_a_out_amount", "token_b_out_amount">>))

parse_bootstrap_liquidity_event ==
    Decoder("MeteoraPoolsBootstrapLiquidity",
        U64s(<<"lp_mint_amount", "token_a_amount", "token_b_amount">>)
        \o Keys(<<"pool">>))

parse_pool_created_event ==
    Decoder("MeteoraPoolsPoolCreated",
        Keys(<<"lp_mint", "token_a_mint", "token_b_mint">>) \o U8s(<<"pool_type">>)
        \o Keys(<<"pool">>))

parse_set_pool_fees_event ==
    Decoder("MeteoraPoolsSetPoolFees", U64s(<<"trade_fee_numerator", "trade_fee_denominator",
              "owner_trade_fee_numerator">>) \o Also("protocol_trade_fee_numerator", 8)
        \o U64s(<<"owner_trade_fee_denominator">>) \o Also("protocol_trade_fee_denominator", 8)
        \o Keys(<<"pool">>))

parse_structured_log ==
       "516ce3becdd00ac4" :> parse_swap_event
    @@ "1f5e7d5ae3343dba" :> parse_add_liquidity_event
    @@ "74f461e8671f983a" :> parse_remove_liquidity_event
    @@ "797f26885c370ef7" :> parse_bootstrap_liquidity_event
    @@ "ca2c295868dc9d52" :> parse_pool_created_event
    @@ "f51ac6a458124b09" :> parse_set_pool_fees_event

------------------------------------------------------------------------------
parse_dbc_swap_from_data ==
    Decoder("MeteoraDbcSwap",
        Keys(<<"pool", "config">>) \o U8s(<<"trade_direction", "has_referral">>)
        \o U64s(<<"amount_in", "minimum_amount_out", "actual_input_amount", "output_amount">>)
        \o U128s(<<"next_sqrt_price">>) \o U64s(<<"trading_fee", "protocol_fee", "referral_fee">>)
        \o Opt(U64s(<<"amount_in">>)) \o U64s(<<"current_timestamp">>))

parse_dbc_initialize_pool_from_data ==
    Decoder("MeteoraDbcInitializePool",
        Keys(<<"pool", "config", "creator", "base_mint">>) \o U8s(<<"pool_type">>)
        \o U64s(<<"activation_point">>))

parse_dbc_curve_complete_from_data ==
    Decoder("MeteoraDbcCurveComplete",
        Keys(<<"pool", "config">>) \o U64s(<<"base_reserve", "quote_reserve">>))

parse_dbc_swap2_from_data ==
    ByTag(LAMBDA t : "MeteoraDbcSwap", LAMBDA t :
        Min(179) \o Keys(<<"pool", "config">>) \o Flags(<<"trade_direction", "has_referral">>)
        \o U64s(<<"amount_0", "amount_1">>)
        \o Also(IF t = 2 THEN "maximum_amount_in" ELSE "minimum_amount_out", 8)
        \o (IF t <= 2 THEN U8s(<<"swap_mode">>) ELSE Refuse)
        \o U64s(<<"included_fee_input_amount">>) \o Also("amount_in", 8)
        \o U64s(<<"actual_input_amount", "amount_left", "output_amount">>)
        \o U128s(<<"next_sqrt_price">>)
        \o U64s(<<"trading_fee", "protocol_fee", "referral_fee", "quote_reserve_amount",
                  "migration_threshold", "current_timestamp">>))

parse_dbc_log ==
       "1b3c15d58aaabb93" :> parse_dbc_swap_from_data
    @@ "bd4233a826507599" :> parse_dbc_swap2_from_data
    @@ "863ba8785e3372e7" :> parse_dbc_swap2_from_data
    @@ "e432f655cb428625" :> parse_dbc_initialize_pool_from_data
    @@ "e5e756549c864b18" :> parse_dbc_curve_complete_from_data

parse_dbc_event_cpi == parse_dbc_log
==============================================================================
