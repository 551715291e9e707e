--------------------------- MODULE RaydiumCpmmLogs ----------------------------
(*****************************************************************************)
(* The decoders of the Raydium CPMM program events (logs/raydium_cpmm.rs).   *)
(*****************************************************************************)
EXTENDS Layouts

parse_lp_change_from_data ==
    Decoder("RaydiumCpmmLpChange", Exact(89) \o Keys(<<"pool_id">>)
        \o U64s(<<"lp_amount_before", "token_0_vault_before", "token_1_vault_before",
            "token_0_amount", "token_1_amount", "token_0_transfer_fee",
            "token_1_transfer_fee">>) \o Flags(<<"change_type">>))

parse_swap_event_from_data ==
    Decoder("RaydiumCpmmSwap",
        Keys(<<"pool_id">>) \o U64s(<<"input_vault_before", "output_vault_before", "input_amount",
            "output_amount", "input_transfer_fee", "output_transfer_fee">>)
        \o Flags(<<"base_input">>)
        \o Stage(81, Keys(<<"input_mint", "output_mint">>) \o U64s(<<"trade_fee", "creator_fee">>)
                     \o Flags(<<"creator_fee_on_input">>)))

parse_swap_base_in_from_data ==
    Decoder("RaydiumCpmmSwap",
        Keys(<<"pool_id">>) \o Skip(32) \o U64s(<<"input_amount">>) \o Skip(8)
        \o U64s(<<"output_amount">>) \o U8s(<<"base_input">>))

parse_swap_base_out_from_data ==
    Decoder("RaydiumCpmmSwap",
        Keys(<<"pool_id">>) \o Skip(40) \o U64s(<<"output_amount", "input_amount">>)
        \o U8s(<<"base_input">>))

parse_create_pool_from_data ==
    Decoder("RaydiumCpmmInitialize", Keys(<<"pool">>) \o Skip(64) \o Keys(<<"creator">>)
        \o U64s(<<"init_amount0", "init_amount1">>))

parse_deposit_from_data ==
    Decoder("RaydiumCpmmDeposit", Keys(<<"pool", "user">>)
        \o U64s(<<"lp_token_amount", "token0_amount", "token1_amount">>))

parse_withdraw_from_data ==
    Decoder("RaydiumCpmmWithdraw", Keys(<<"pool", "user">>)
        \o U64s(<<"lp_token_amount", "token0_amount", "token1_amount">>))

parse_swap_base_in_event ==
    Decoder("RaydiumCpmmSwap",
        Keys(<<"pool_id">>) \o Skip(32) \o U64s(<<"input_amount">>) \o Skip(8)
        \o U64s(<<"output_amount">>) \o U8s(<<"base_input">>))

parse_swap_base_out_event ==
    Decoder("RaydiumCpmmSwap",
        Keys(<<"pool_id">>) \o Skip(40) \o U64s(<<"output_amount", "input_amount">>)
        \o U8s(<<"base_input">>))

parse_create_pool_event ==
    Decoder("RaydiumCpmmInitialize", Keys(<<"pool">>) \o Skip(64) \o Keys(<<"creator">>)
        \o U64s(<<"init_amount0", "init_amount1">>))

parse_deposit_event ==
    Decoder("RaydiumCpmmDeposit", Keys(<<"pool", "user">>)
        \o U64s(<<"lp_token_amount", "token0_amount", "token1_amount">>))

parse_withdraw_event ==
    Decoder("RaydiumCpmmWithdraw", Keys(<<"pool", "user">>)
        \o U64s(<<"lp_token_amount", "token0_amount", "token1_amount">>))

parse_structured_log ==
       "79a3cdc939da753c" :> parse_lp_change_from_data
    @@ "40c6cde8260871e2" :> parse_swap_event_from_data
    @@ "8fbe5adac41e33de" :> parse_swap_base_in_event
    @@ "37d96256a34ab4ad" :> parse_swap_base_out_event
    @@ "e992d18ecf6840bc" :> parse_create_pool_event
    @@ "f223c68952e1f2b6" :> parse_deposit_event
    @@ "b712469c946da122" :> parse_withdraw_event

-----------------------------------------------------------------------------
(* LaunchLab, whose pools migrate to CPMM (logs/raydium_launchlab.rs). *)

parse_mint_params ==
    U8s(<<"decimals">>) \o Strs(<<"name", "symbol", "uri">>)

parse_trade_from_data ==
    Decoder("RaydiumLaunchlabTrade", Exact(139) \o Keys(<<"pool_state">>)
        \o U64s(<<"total_base_sell", "virtual_base", "virtual_quote", "real_base_before",
                  "real_quote_before", "real_base_after", "real_quote_after", "amount_in",
                  "amount_out", "protocol_fee", "platform_fee", "creator_fee", "share_fee">>)
        \o Flags(<<"trade_direction">>) \o Byte("pool_status", 2) \o Flags(<<"exact_in">>))

parse_pool_create_from_data ==
    Decoder("RaydiumLaunchlabPoolCreate", Keys(<<"pool_state", "creator">>) \o Skip(32)
        \o parse_mint_params)

parse_log ==
       "bddb7fd34ee661ee" :> parse_trade_from_data
    @@ "97d7e20976a173ae" :> parse_pool_create_from_data
==============================================================================
