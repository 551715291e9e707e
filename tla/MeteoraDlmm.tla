---------------------------- MODULE MeteoraDlmm ----------------------------
(*****************************************************************************)
(* The decoders of the Meteora DLMM events: in logs (logs/meteora_dlmm.rs)   *)
(* and in event CPIs (instr/all_inner/meteora_dlmm.rs) under the build       *)
(* features parse-borsh and parse-zero-copy.  The tag 4 of a swap2 body      *)
(* stands for three fees whose sum overflows a u64.                          *)
(*****************************************************************************)
EXTENDS EventStructs

(* Logs. *)

parse_swap_from_data ==
    Decoder("MeteoraDlmmSwap", Keys(<<"pool", "from">>) \o U32s(<<"start_bin_id", "end_bin_id">>)
        \o U64s(<<"amount_in", "amount_out">>) \o U8s(<<"swap_for_y">>)
        \o U64s(<<"fee", "protocol_fee">>) \o U128s(<<"fee_bps">>)
        \o U64s(<<"host_fee">>))

parse_swap2_from_data ==
    ByTag(LAMBDA t : "MeteoraDlmmSwap", LAMBDA t :
        Min(147) \o Keys(<<"pool", "from">>) \o U32s(<<"start_bin_id", "end_bin_id">>)
        \o Flags(<<"swap_for_y">>) \o U128s(<<"fee_bps">>)
        \o U64s(<<"amount_in", "amount_left", "amount_out">>)
        \o U64s(<<"mm_fee", "protocol_fee", "limit_order_fee">>)
        \o (IF t = 4 THEN Refuse ELSE Also("fee", 24))
        \o U64s(<<"host_fee">>) \o Flags(<<"fees_on_input", "fees_on_token_x">>))

parse_add_liquidity_from_data ==
    Decoder("MeteoraDlmmAddLiquidity", Keys(<<"pool", "from", "position">>) \o Bytes("amounts", 16)
        \o U32s(<<"active_bin_id">>))

parse_remove_liquidity_from_data ==
    Decoder("MeteoraDlmmRemoveLiquidity",
        Keys(<<"pool", "from", "position">>) \o Bytes("amounts", 16)
        \o U32s(<<"active_bin_id">>))

parse_initialize_pool_from_data ==
    Decoder("MeteoraDlmmInitializePool", Keys(<<"pool", "creator">>) \o U32s(<<"active_bin_id">>)
        \o U16s(<<"bin_step">>))

parse_initialize_bin_array_from_data ==
    Decoder("MeteoraDlmmInitializeBinArray", Keys(<<"pool", "bin_array">>) \o U64s(<<"index">>))

parse_create_position_from_data ==
    Decoder("MeteoraDlmmCreatePosition",
        Keys(<<"pool", "position", "owner">>) \o U32s(<<"lower_bin_id", "width">>))

parse_close_position_from_data ==
    Decoder("MeteoraDlmmClosePosition", Keys(<<"pool", "position", "owner">>))

parse_claim_fee_from_data ==
    Decoder("MeteoraDlmmClaimFee",
        Keys(<<"pool", "position", "owner">>) \o U64s(<<"fee_x", "fee_y">>))

parse_lb_pair_create_from_data ==
    Decoder("MeteoraDlmmInitializePool", Keys(<<"pool">>) \o U16s(<<"bin_step">>))

parse_position_create_from_data ==
    Decoder("MeteoraDlmmCreatePosition", Keys(<<"pool", "position", "owner">>))

parse_position_close_from_data ==
    Decoder("MeteoraDlmmClosePosition", Keys(<<"position", "owner">>))

parse_swap_event ==
    Decoder("MeteoraDlmmSwap", Keys(<<"pool", "from">>) \o U32s(<<"start_bin_id", "end_bin_id">>)
        \o U64s(<<"amount_in", "amount_out">>) \o U8s(<<"swap_for_y">>)
        \o U64s(<<"fee", "protocol_fee">>) \o U128s(<<"fee_bps">>)
        \o U64s(<<"host_fee">>))

parse_add_liquidity_event ==
    Decoder("MeteoraDlmmAddLiquidity", Keys(<<"pool", "from", "position">>) \o Bytes("amounts", 16)
        \o U32s(<<"active_bin_id">>))

parse_remove_liquidity_event ==
    Decoder("MeteoraDlmmRemoveLiquidity",
        Keys(<<"pool", "from", "position">>) \o Bytes("amounts", 16)
        \o U32s(<<"active_bin_id">>))

parse_initialize_pool_event ==
    Decoder("MeteoraDlmmInitializePool", Keys(<<"pool", "creator">>) \o U32s(<<"active_bin_id">>)
        \o U16s(<<"bin_step">>))

parse_initialize_bin_array_event ==
    Decoder("MeteoraDlmmInitializeBinArray", Keys(<<"pool", "bin_array">>) \o U64s(<<"index">>))

parse_create_position_event ==
    Decoder("MeteoraDlmmCreatePosition",
        Keys(<<"pool", "position", "owner">>) \o U32s(<<"lower_bin_id", "width">>))

parse_close_position_event ==
    Decoder("MeteoraDlmmClosePosition", Keys(<<"pool", "position", "owner">>))

parse_claim_fee_event ==
    Decoder("MeteoraDlmmClaimFee",
        Keys(<<"pool", "position", "owner">>) \o U64s(<<"fee_x", "fee_y">>))

parse_claim_fee2_from_data == After(Min(116), parse_claim_fee_from_data)

parse_swap2_event == parse_swap2_from_data

parse_lb_pair_create_event == parse_lb_pair_create_from_data

parse_position_create_event == parse_position_create_from_data

parse_position_close_event == parse_position_close_from_data

parse_claim_fee2_event == parse_claim_fee2_from_data

parse_structured_log ==
       "516ce3becdd00ac4" :> parse_swap_event
    @@ "8fbe5adac41e33de" :> parse_swap_event
    @@ "2e7452d7941b544d" :> parse_swap2_event
    @@ "1f5e7d5ae3343dba" :> parse_add_liquidity_event
    @@ "b59d59438fb63448" :> parse_add_liquidity_event
    @@ "74f461e8671f983a" :> parse_remove_liquidity_event
    @@ "5055d14818ce23b2" :> parse_remove_liquidity_event
    @@ "0b129bc22173ee77" :> parse_initialize_bin_array_event
    @@ "b94afc7d1bd7bc6f" :> parse_lb_pair_create_event
    @@ "5fb40aac54aee828" :> parse_initialize_pool_event
    @@ "908efc549d352579" :> parse_position_create_event
    @@ "7be90b2b92b46177" :> parse_create_position_event
    @@ "ffc4106b1cca3580" :> parse_position_close_event
    @@ "5ea8662d3b7a8936" :> parse_close_position_event
    @@ "4b7a9a308c4a7ba3" :> parse_claim_fee_event
    @@ "9846d06f685b2c01" :> parse_claim_fee_event
    @@ "e8abf2613a4d232d" :> parse_claim_fee2_event

-----------------------------------------------------------------------------
(* Event CPIs. *)

parse_lb_pair_create ==
    Decoder("MeteoraDlmmInitializePool", Min(98) \o Raw(Keys(<<"pool">>) \o U16s(<<"bin_step">>)))

parse_position_create ==
    Decoder("MeteoraDlmmCreatePosition", Min(96) \o Raw(Keys(<<"pool", "position", "owner">>)))

parse_position_close ==
    Decoder("MeteoraDlmmClosePosition", Min(64) \o Raw(Keys(<<"position", "owner">>)))

parse_swap2 ==
    parse_swap2_from_data

parse_swap_borsh ==
    FromSlice("MeteoraDlmmSwap", 129, MeteoraDlmmSwapEvent)

\* Mutant: parse_swap_zero_copy with a size check that forgets the host fee.
SwapSizeWithoutHostFee ==
    Decoder("MeteoraDlmmSwap", Min(121)
        \o Raw(Keys(<<"pool", "from">>) \o U32s(<<"start_bin_id", "end_bin_id">>)
               \o U64s(<<"amount_in", "amount_out">>) \o U8s(<<"swap_for_y">>)
               \o U64s(<<"fee", "protocol_fee">>) \o U128s(<<"fee_bps">>) \o U64s(<<"host_fee">>)))

parse_swap_zero_copy ==
    Decoder("MeteoraDlmmSwap",
        Min(129) \o Raw(Keys(<<"pool", "from">>) \o U32s(<<"start_bin_id", "end_bin_id">>)
        \o U64s(<<"amount_in", "amount_out">>) \o U8s(<<"swap_for_y">>)
        \o U64s(<<"fee", "protocol_fee">>) \o U128s(<<"fee_bps">>) \o U64s(<<"host_fee">>)))

parse_swap(feature) ==
    IF feature = "parse-borsh" THEN parse_swap_borsh ELSE parse_swap_zero_copy

parse_add_liquidity_borsh ==
    FromSlice("MeteoraDlmmAddLiquidity", 116, MeteoraDlmmAddLiquidityEvent)

parse_add_liquidity_zero_copy ==
    Decoder("MeteoraDlmmAddLiquidity",
        Min(116) \o Raw(Keys(<<"pool", "from", "position">>) \o Bytes("amounts", 16)
            \o U32s(<<"active_bin_id">>)))

parse_add_liquidity(feature) ==
    IF feature = "parse-borsh" THEN parse_add_liquidity_borsh ELSE parse_add_liquidity_zero_copy

parse_remove_liquidity_borsh ==
    FromSlice("MeteoraDlmmRemoveLiquidity", 116, MeteoraDlmmRemoveLiquidityEvent)

parse_remove_liquidity_zero_copy ==
    Decoder("MeteoraDlmmRemoveLiquidity",
        Min(116) \o Raw(Keys(<<"pool", "from", "position">>) \o Bytes("amounts", 16)
            \o U32s(<<"active_bin_id">>)))

parse_remove_liquidity(feature) ==
    IF feature = "parse-borsh" THEN parse_remove_liquidity_borsh
    ELSE parse_remove_liquidity_zero_copy

parse_initialize_bin_array_borsh ==
    FromSlice("MeteoraDlmmInitializeBinArray", 72, MeteoraDlmmInitializeBinArrayEvent)

parse_initialize_bin_array_zero_copy ==
    Decoder("MeteoraDlmmInitializeBinArray",
        Min(72) \o Raw(Keys(<<"pool", "bin_array">>) \o U64s(<<"index">>)))

parse_initialize_bin_array(feature) ==
    IF feature = "parse-borsh" THEN parse_initialize_bin_array_borsh
    ELSE parse_initialize_bin_array_zero_copy

parse_claim_fee_borsh ==
    FromSlice("MeteoraDlmmClaimFee", 112, MeteoraDlmmClaimFeeEvent)

parse_claim_fee_zero_copy ==
    Decoder("MeteoraDlmmClaimFee",
        Min(112) \o Raw(Keys(<<"pool", "position", "owner">>) \o U64s(<<"fee_x", "fee_y">>)))

parse_claim_fee(feature) ==
    IF feature = "parse-borsh" THEN parse_claim_fee_borsh ELSE parse_claim_fee_zero_copy

parse_claim_fee2(feature) ==
    After(Min(116), parse_claim_fee(feature))

\* The decoder of an event CPI by its event discriminator, in either form.
parse(feature) ==
       "516ce3becdd00ac4" :> parse_swap(feature)
    @@ "2e7452d7941b544d" :> parse_swap2
    @@ "1f5e7d5ae3343dba" :> parse_add_liquidity(feature)
    @@ "74f461e8671f983a" :> parse_remove_liquidity(feature)
    @@ "b94afc7d1bd7bc6f" :> parse_lb_pair_create
    @@ "0b129bc22173ee77" :> parse_initialize_bin_array(feature)
    @@ "908efc549d352579" :> parse_position_create
    @@ "ffc4106b1cca3580" :> parse_position_close
    @@ "4b7a9a308c4a7ba3" :> parse_claim_fee(feature)
    @@ "e8abf2613a4d232d" :> parse_claim_fee2(feature)
=============================================================================
