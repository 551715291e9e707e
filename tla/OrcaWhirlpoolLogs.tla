-------------------------- MODULE OrcaWhirlpoolLogs ---------------------------
(*****************************************************************************)
(* The decoders of the Orca Whirlpool events (logs/orca_whirlpool.rs).       *)
(*****************************************************************************)
EXTENDS Layouts

parse_traded_from_data ==
    Decoder("OrcaWhirlpoolSwap", Keys(<<"whirlpool">>) \o U8s(<<"a_to_b">>)
        \o U128s(<<"pre_sqrt_price", "post_sqrt_price">>)
        \o U64s(<<"input_amount", "output_amount", "input_transfer_fee",
              "output_transfer_fee", "lp_fee", "protocol_fee">>))

parse_liquidity_increased_from_data ==
    Decoder("OrcaWhirlpoolLiquidityIncreased", Keys(<<"whirlpool", "position">>)
        \o U32s(<<"tick_lower_index", "tick_upper_index">>)
        \o U128s(<<"liquidity">>)
        \o U64s(<<"token_a_amount", "token_b_amount", "token_a_transfer_fee",
              "token_b_transfer_fee">>))

parse_liquidity_decreased_from_data ==
    Decoder("OrcaWhirlpoolLiquidityDecreased", Keys(<<"whirlpool", "position">>)
        \o U32s(<<"tick_lower_index", "tick_upper_index">>)
        \o U128s(<<"liquidity">>)
        \o U64s(<<"token_a_amount", "token_b_amount", "token_a_transfer_fee",
              "token_b_transfer_fee">>))

parse_pool_initialized_from_data ==
    Decoder("OrcaWhirlpoolPoolInitialized",
        Keys(<<"whirlpool", "whirlpools_config", "token_mint_a", "token_mint_b">>)
        \o U16s(<<"tick_spacing">>)
        \o Keys(<<"token_program_a", "token_program_b">>)
        \o U8s(<<"decimals_a", "decimals_b">>) \o U128s(<<"initial_sqrt_price">>))

parse_traded_event ==
    Decoder("OrcaWhirlpoolSwap", Keys(<<"whirlpool">>) \o U8s(<<"a_to_b">>)
        \o U128s(<<"pre_sqrt_price", "post_sqrt_price">>)
        \o U64s(<<"input_amount", "output_amount", "input_transfer_fee",
              "output_transfer_fee", "lp_fee", "protocol_fee">>))

parse_liquidity_increased_event ==
    Decoder("OrcaWhirlpoolLiquidityIncreased", Keys(<<"whirlpool", "position">>)
        \o U32s(<<"tick_lower_index", "tick_upper_index">>)
        \o U128s(<<"liquidity">>)
        \o U64s(<<"token_a_amount", "token_b_amount", "token_a_transfer_fee",
              "token_b_transfer_fee">>))

parse_liquidity_decreased_event ==
    Decoder("OrcaWhirlpoolLiquidityDecreased", Keys(<<"whirlpool", "position">>)
        \o U32s(<<"tick_lower_index", "tick_upper_index">>)
        \o U128s(<<"liquidity">>)
        \o U64s(<<"token_a_amount", "token_b_amount", "token_a_transfer_fee",
              "token_b_transfer_fee">>))

parse_pool_initialized_event ==
    Decoder("OrcaWhirlpoolPoolInitialized",
        Keys(<<"whirlpool", "whirlpools_config", "token_mint_a", "token_mint_b">>)
        \o U16s(<<"tick_spacing">>)
        \o Keys(<<"token_program_a", "token_program_b">>)
        \o U8s(<<"decimals_a", "decimals_b">>) \o U128s(<<"initial_sqrt_price">>))

parse_structured_log ==
       "e1ca49af932ba096" :> parse_traded_event
    @@ "1e0790b566fe9ba1" :> parse_liquidity_increased_event
    @@ "a601244770cab5ab" :> parse_liquidity_decreased_event
    @@ "6476ad570cc6fee5" :> parse_pool_initialized_event
==============================================================================
