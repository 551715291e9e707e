---------------------------- MODULE RaydiumAmmLogs ----------------------------
(*****************************************************************************)
(* The decoders of the Raydium AMM V4 events (logs/raydium_amm.rs).  The tag *)
(* of a ray_log record is its first byte: 3 for a swap with a fixed input, 4 *)
(* for one with a fixed output.                                              *)
(*****************************************************************************)
EXTENDS Layouts

parse_ray_log_swap ==
    ByTag(LAMBDA t : "RaydiumAmmV4Swap", LAMBDA t :
        Exact(57) \o (IF t \in {3, 4} THEN Skip(1) ELSE Refuse)
        \o U64s(IF t = 3 THEN <<"amount_in", "minimum_amount_out">>
                         ELSE <<"max_amount_in", "amount_out">>)
        \o Hop(32) \o U64s(<<IF t = 3 THEN "amount_out" ELSE "amount_in">>))

parse_swap_base_in_from_data ==
    Decoder("RaydiumAmmV4Swap", Keys(<<"amm", "user_source_owner">>)
        \o U64s(<<"amount_in", "minimum_amount_out">>))

parse_swap_base_out_from_data ==
    Decoder("RaydiumAmmV4Swap", Keys(<<"amm", "user_source_owner">>)
        \o U64s(<<"max_amount_in", "amount_out">>))

parse_deposit_from_data ==
    Decoder("RaydiumAmmV4Deposit", Keys(<<"amm", "user_owner">>)
        \o U64s(<<"max_coin_amount", "max_pc_amount", "base_side">>))

parse_withdraw_from_data ==
    Decoder("RaydiumAmmV4Withdraw", Keys(<<"amm", "user_owner">>) \o U64s(<<"amount">>))

parse_initialize2_from_data ==
    Decoder("RaydiumAmmV4Initialize2", Keys(<<"amm", "user_wallet">>) \o U8s(<<"nonce">>)
        \o U64s(<<"open_time", "init_pc_amount", "init_coin_amount">>))

parse_withdraw_pnl_from_data ==
    Decoder("RaydiumAmmV4WithdrawPnl", Keys(<<"amm", "pnl_owner">>))

parse_swap_base_in_event ==
    Decoder("RaydiumAmmV4Swap", Keys(<<"amm", "user_source_owner">>)
        \o U64s(<<"amount_in", "minimum_amount_out">>))

parse_swap_base_out_event ==
    Decoder("RaydiumAmmV4Swap", Keys(<<"amm", "user_source_owner">>)
        \o U64s(<<"max_amount_in", "amount_out">>))

parse_deposit_event ==
    Decoder("RaydiumAmmV4Deposit", Keys(<<"amm", "user_owner">>)
        \o U64s(<<"max_coin_amount", "max_pc_amount", "base_side">>))

parse_withdraw_event ==
    Decoder("RaydiumAmmV4Withdraw", Keys(<<"amm", "user_owner">>) \o U64s(<<"amount">>))

parse_initialize2_event ==
    Decoder("RaydiumAmmV4Initialize2", Keys(<<"amm", "user_wallet">>) \o U8s(<<"nonce">>)
        \o U64s(<<"open_time", "init_pc_amount", "init_coin_amount">>))

parse_withdraw_pnl_event ==
    Decoder("RaydiumAmmV4WithdrawPnl", Keys(<<"amm", "pnl_owner">>))

parse_structured_log ==
       "0000000000000009" :> parse_swap_base_in_event
    @@ "000000000000000b" :> parse_swap_base_out_event
    @@ "0000000000000003" :> parse_deposit_event
    @@ "0000000000000004" :> parse_withdraw_event
    @@ "0000000000000001" :> parse_initialize2_event
    @@ "0000000000000007" :> parse_withdraw_pnl_event
==============================================================================
