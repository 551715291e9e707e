---------------------------- MODULE MeteoraDamm ----------------------------
(*****************************************************************************)
(* The decoders of the Meteora DAMM V2 events: in logs                       *)
(* (logs/meteora_damm.rs) and in event CPIs (instr/all_inner/meteora_damm.rs)*)
(* under the build features parse-borsh and parse-zero-copy.  The tag is the *)
(* swap mode of a swap2 body, and the presence byte of the optional dynamic  *)
(* fee in the pool fee parameters.                                           *)
(*****************************************************************************)
EXTENDS EventStructs

(* Logs. *)

skip_pool_fee_parameters(t) ==
    Hop(30) \o Skip(1)
    \o CASE t = 0 -> <<>> [] t = 1 -> Skip(32) [] OTHER -> Refuse

parse_swap_from_data ==
    Decoder("MeteoraDammV2Swap",
        Keys(<<"pool">>) \o Skip(32) \o U8s(<<"trade_direction", "has_referral">>)
        \o U64s(<<"amount_in", "minimum_amount_out", "actual_amount_in", "output_amount">>)
        \o U128s(<<"next_sqrt_price">>)
        \o U64s(<<"lp_fee", "protocol_fee", "referral_fee">>) \o Skip(8)
        \o U64s(<<"current_timestamp">>))

parse_swap2_from_data ==
    ByTag(LAMBDA t : "MeteoraDammV2Swap", LAMBDA t :
        Keys(<<"pool">>) \o U8s(<<"trade_direction">>) \o Skip(1) \o U8s(<<"has_referral">>)
        \o U64s(IF t = 0 THEN <<"amount_in", "minimum_amount_out">>
                         ELSE <<"minimum_amount_out", "amount_in">>)
        \o Skip(1) \o U64s(<<"actual_amount_in">>) \o Skip(16) \o U64s(<<"output_amount">>)
        \o U128s(<<"next_sqrt_price">>) \o U64s(<<"lp_fee", "protocol_fee", "referral_fee">>)
        \o Skip(16) \o U64s(<<"current_timestamp">>))

parse_add_liquidity_from_data ==
    Decoder("MeteoraDammV2AddLiquidity",
        Keys(<<"pool", "position", "owner">>) \o U128s(<<"liquidity_delta">>)
        \o U64s(<<"token_a_amount_threshold", "token_b_amount_threshold",
              "token_a_amount", "token_b_amount", "total_amount_a", "total_amount_b">>))

parse_remove_liquidity_from_data ==
    Decoder("MeteoraDammV2RemoveLiquidity",
        Keys(<<"pool", "position", "owner">>) \o U128s(<<"liquidity_delta">>)
        \o U64s(<<"token_a_amount_threshold", "token_b_amount_threshold",
              "token_a_amount", "token_b_amount">>))

parse_initialize_pool_from_data ==
    ByTag(LAMBDA t : "MeteoraDammV2InitializePool", LAMBDA t :
        Keys(<<"pool", "token_a_mint", "token_b_mint", "creator", "payer", "alpha_vault">>)
        \o skip_pool_fee_parameters(t)
        \o U128s(<<"sqrt_min_price", "sqrt_max_price">>)
        \o U8s(<<"activation_type", "collect_fee_mode">>) \o U128s(<<"liquidity", "sqrt_price">>)
        \o U64s(<<"activation_point">>) \o U8s(<<"token_a_flag", "token_b_flag">>)
        \o U64s(<<"token_a_amount", "token_b_amount", "total_amount_a", "total_amount_b">>)
        \o U8s(<<"pool_type">>))

parse_create_position_from_data ==
    Decoder("MeteoraDammV2CreatePosition",
        Keys(<<"pool", "owner", "position", "position_nft_mint">>))

parse_close_position_from_data ==
    Decoder("MeteoraDammV2ClosePosition",
        Keys(<<"pool", "owner", "position", "position_nft_mint">>))

parse_claim_position_fee_from_data ==
    Decoder("MeteoraDammV2ClaimPositionFee", Exact(112) \o Keys(<<"pool", "position", "owner">>)
        \o U64s(<<"fee_a_claimed", "fee_b_claimed">>))

parse_initialize_reward_from_data ==
    Decoder("MeteoraDammV2InitializeReward",
        Exact(137) \o Keys(<<"pool", "reward_mint", "funder", "creator">>)
        \o U8s(<<"reward_index">>) \o U64s(<<"reward_duration">>))

parse_fund_reward_from_data ==
    Decoder("MeteoraDammV2FundReward", Exact(153) \o Keys(<<"pool", "funder", "mint_reward">>)
        \o U8s(<<"reward_index">>)
        \o U64s(<<"amount", "transfer_fee_excluded_amount_in", "reward_duration_end">>)
        \o U128s(<<"pre_reward_rate", "post_reward_rate">>))

parse_claim_reward_from_data ==
    Decoder("MeteoraDammV2ClaimReward",
        Exact(137) \o Keys(<<"pool", "position", "owner", "mint_reward">>)
        \o U8s(<<"reward_index">>) \o U64s(<<"total_reward">>))

parse_swap_event == parse_swap_from_data

parse_swap2_event == parse_swap2_from_data

parse_add_liquidity_event == parse_add_liquidity_from_data

parse_remove_liquidity_event == parse_remove_liquidity_from_data

parse_initialize_pool_event == parse_initialize_pool_from_data

parse_create_position_event == parse_create_position_from_data

parse_close_position_event == parse_close_position_from_data

parse_claim_position_fee_event == parse_claim_position_fee_from_data

parse_initialize_reward_event == parse_initialize_reward_from_data

parse_fund_reward_event == parse_fund_reward_from_data

parse_claim_reward_event == parse_claim_reward_from_data

parse_structured_log ==
       "1b3c15d58aaabb93" :> parse_swap_event
    @@ "bd4233a826507599" :> parse_swap2_event
    @@ "aff2089d1ef7b9a9" :> parse_add_liquidity_event
    @@ "572e5862af60225b" :> parse_remove_liquidity_event
    @@ "e432f655cb428625" :> parse_initialize_pool_event
    @@ "9c0f77c61db5dd37" :> parse_create_position_event
    @@ "149190448f8ed6b2" :> parse_close_position_event
    @@ "c6b6b734610c3138" :> parse_claim_position_fee_event
    @@ "815bbc03f634b9f9" :> parse_initialize_reward_event
    @@ "68e9ed7ac7bf7955" :> parse_fund_reward_event
    @@ "da5693c8ebbcd7e7" :> parse_claim_reward_event

-----------------------------------------------------------------------------
(* Event CPIs. *)

parse_swap_borsh ==
    FromSlice("MeteoraDammV2Swap", 48, MeteoraDammV2SwapEvent)

parse_swap_zero_copy ==
    Decoder("MeteoraDammV2Swap",
        Min(48) \o Raw(Keys(<<"pool">>) \o U64s(<<"amount_in", "output_amount">>)))

parse_swap(feature) ==
    IF feature = "parse-borsh" THEN parse_swap_borsh ELSE parse_swap_zero_copy

\* Reads one field after the other, so the time of a swap is read behind the 171
\* bytes before it.
parse_swap2_borsh ==
    ByTag(LAMBDA t : "MeteoraDammV2Swap", LAMBDA t :
        Min(177) \o Raw(Keys(<<"pool">>) \o Skip(32) \o U8s(<<"trade_direction", "has_referral">>)
            \o U64s(IF t = 0 THEN <<"amount_in", "minimum_amount_out">>
                             ELSE <<"minimum_amount_out", "amount_in">>) \o Skip(1)
            \o U64s(<<"actual_amount_in">>) \o Skip(16) \o U64s(<<"output_amount">>)
            \o U128s(<<"next_sqrt_price">>) \o U64s(<<"lp_fee", "protocol_fee", "referral_fee">>)
            \o Skip(16) \o U64s(<<"current_timestamp">>)))

\* Reads every field at an offset of its own; the time is read at byte 169.
parse_swap2_zero_copy ==
    ByTag(LAMBDA t : "MeteoraDammV2Swap", LAMBDA t :
        Min(177) \o Raw(Keys(<<"pool">>) \o Hop(32) \o U8s(<<"trade_direction", "has_referral">>)
            \o U64s(IF t = 0 THEN <<"amount_in", "minimum_amount_out">>
                             ELSE <<"minimum_amount_out", "amount_in">>) \o Hop(1)
            \o U64s(<<"actual_amount_in">>) \o Hop(16) \o U64s(<<"output_amount">>)
            \o U128s(<<"next_sqrt_price">>) \o U64s(<<"lp_fee", "protocol_fee", "referral_fee">>)
            \o Hop(14) \o U64s(<<"current_timestamp">>)))

parse_swap2(feature) ==
    IF feature = "parse-borsh" THEN parse_swap2_borsh ELSE parse_swap2_zero_copy

parse_add_liquidity_borsh ==
    FromSlice("MeteoraDammV2AddLiquidity", 112, MeteoraDammV2AddLiquidityEvent)

parse_add_liquidity_zero_copy ==
    Decoder("MeteoraDammV2AddLiquidity",
        Min(112) \o Raw(Keys(<<"pool", "position", "owner">>)
            \o U64s(<<"token_a_amount", "token_b_amount">>)))

parse_add_liquidity(feature) ==
    IF feature = "parse-borsh" THEN parse_add_liquidity_borsh ELSE parse_add_liquidity_zero_copy

parse_remove_liquidity_borsh ==
    FromSlice("MeteoraDammV2RemoveLiquidity", 112, MeteoraDammV2RemoveLiquidityEvent)

parse_remove_liquidity_zero_copy ==
    Decoder("MeteoraDammV2RemoveLiquidity",
        Min(112) \o Raw(Keys(<<"pool", "position", "owner">>)
            \o U64s(<<"token_a_amount", "token_b_amount">>)))

parse_remove_liquidity(feature) ==
    IF feature = "parse-borsh" THEN parse_remove_liquidity_borsh
    ELSE parse_remove_liquidity_zero_copy

parse_create_position_borsh ==
    FromSlice("MeteoraDammV2CreatePosition", 128, MeteoraDammV2CreatePositionEvent)

parse_create_position_zero_copy ==
    Decoder("MeteoraDammV2CreatePosition",
        Min(128) \o Raw(Keys(<<"pool", "owner", "position", "position_nft_mint">>)))

parse_create_position(feature) ==
    IF feature = "parse-borsh" THEN parse_create_position_borsh ELSE parse_create_position_zero_copy

parse_close_position_borsh ==
    FromSlice("MeteoraDammV2ClosePosition", 128, MeteoraDammV2ClosePositionEvent)

parse_close_position_zero_copy ==
    Decoder("MeteoraDammV2ClosePosition",
        Min(128) \o Raw(Keys(<<"pool", "owner", "position", "position_nft_mint">>)))

parse_close_position(feature) ==
    IF feature = "parse-borsh" THEN parse_close_position_borsh ELSE parse_close_position_zero_copy

\* The decoder of an event CPI by its event discriminator and form.
parse(feature) ==
       <<"1b3c15d58aaabb93", "anchor">> :> parse_swap(feature)
    @@ <<"bd4233a826507599", "anchor">> :> parse_swap2(feature)
    @@ <<"aff2089d1ef7b9a9", "anchor">> :> parse_add_liquidity(feature)
    @@ <<"572e5862af60225b", "anchor">> :> parse_remove_liquidity(feature)
    @@ <<"e432f655cb428625", "anchor">> :> parse_initialize_pool_from_data
    @@ <<"9c0f77c61db5dd37", "anchor">> :> parse_create_position(feature)
    @@ <<"149190448f8ed6b2", "anchor">> :> parse_close_position(feature)
    @@ <<"c6b6b734610c3138", "anchor">> :> parse_claim_position_fee_from_data
    @@ <<"815bbc03f634b9f9", "anchor">> :> parse_initialize_reward_from_data
    @@ <<"68e9ed7ac7bf7955", "anchor">> :> parse_fund_reward_from_data
    @@ <<"da5693c8ebbcd7e7", "anchor">> :> parse_claim_reward_from_data
=============================================================================
