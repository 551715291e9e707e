----------------------------- MODULE InnerEvents ------------------------------
(*****************************************************************************)
(* The event CPI parsers that hand a body to the decoder of the same log     *)
(* event (instr/*_inner.rs and instr/all_inner/*.rs).  A table has the       *)
(* decoder for an event discriminator and the form of the CPI: behind the    *)
(* anchor tag ("anchor") or in front of the historical suffix ("suffix");    *)
(* the one of the fee program takes both.                                    *)
(*****************************************************************************)
EXTENDS Layouts

Clmm == INSTANCE RaydiumClmmLogs

Cpmm == INSTANCE RaydiumCpmmLogs

Amm == INSTANCE RaydiumAmmLogs

Orca == INSTANCE OrcaWhirlpoolLogs

Pools == INSTANCE MeteoraPoolsLogs


Swap == INSTANCE PumpSwapLogs

Pump == INSTANCE PumpLogs

raydium_clmm_inner ==
       <<"40c6cde8260871e2", "suffix">> :> Clmm!parse_swap_from_data
    @@ <<"314f69d420221e54", "suffix">> :> Clmm!parse_increase_liquidity_from_data
    @@ <<"3ade563a44325538", "suffix">> :> Clmm!parse_decrease_liquidity_from_data
    @@ <<"7ef0afce9e58996b", "suffix">> :> Clmm!parse_liquidity_change_from_data
    @@ <<"f7bd07776a705f97", "suffix">> :> Clmm!parse_config_change_from_data
    @@ <<"641e57f9c4df9ace", "suffix">> :> Clmm!parse_create_personal_position_from_data
    @@ <<"ed7094e63954b4a2", "suffix">> :> Clmm!parse_liquidity_calculate_from_data
    @@ <<"6a18475539a99ed8", "suffix">> :> Clmm!parse_open_limit_order_from_data
    @@ <<"0b780dccc75713c8", "suffix">> :> Clmm!parse_increase_limit_order_from_data
    @@ <<"463028dddbedd4a3", "suffix">> :> Clmm!parse_decrease_limit_order_from_data
    @@ <<"58774da47d7c0ac2", "suffix">> :> Clmm!parse_settle_limit_order_from_data
    @@ <<"6d7fba4e724125ec", "suffix">> :> Clmm!parse_update_reward_infos_from_data
    @@ <<"195e4b2f7063353f", "suffix">> :> Clmm!parse_create_pool_from_data
    @@ <<"a6ae69c051a15369", "suffix">> :> Clmm!parse_collect_personal_fee_from_data
    @@ <<"ce57114f2d29d53d", "suffix">> :> Clmm!parse_collect_protocol_fee_from_data

raydium_cpmm_inner ==
       <<"79a3cdc939da753c", "anchor">> :> Cpmm!parse_lp_change_from_data
    @@ <<"8fbe5adac41e33de", "suffix">> :> Cpmm!parse_swap_base_in_from_data
    @@ <<"37d96256a34ab4ad", "suffix">> :> Cpmm!parse_swap_base_out_from_data
    @@ <<"e992d18ecf6840bc", "suffix">> :> Cpmm!parse_create_pool_from_data
    @@ <<"f223c68952e1f2b6", "suffix">> :> Cpmm!parse_deposit_from_data
    @@ <<"b712469c946da122", "suffix">> :> Cpmm!parse_withdraw_from_data

raydium_amm_inner ==
       <<"0000000000000009", "suffix">> :> Amm!parse_swap_base_in_from_data
    @@ <<"000000000000000b", "suffix">> :> Amm!parse_swap_base_out_from_data
    @@ <<"0000000000000003", "suffix">> :> Amm!parse_deposit_from_data
    @@ <<"0000000000000004", "suffix">> :> Amm!parse_withdraw_from_data
    @@ <<"0000000000000001", "suffix">> :> Amm!parse_initialize2_from_data
    @@ <<"0000000000000007", "suffix">> :> Amm!parse_withdraw_pnl_from_data

orca_inner ==
       <<"e1ca49af932ba096", "suffix">> :> Orca!parse_traded_from_data
    @@ <<"1e0790b566fe9ba1", "suffix">> :> Orca!parse_liquidity_increased_from_data
    @@ <<"a601244770cab5ab", "suffix">> :> Orca!parse_liquidity_decreased_from_data
    @@ <<"6476ad570cc6fee5", "suffix">> :> Orca!parse_pool_initialized_from_data

meteora_amm_inner ==
       <<"516ce3becdd00ac4", "suffix">> :> Pools!parse_swap_from_data
    @@ <<"1f5e7d5ae3343dba", "suffix">> :> Pools!parse_add_liquidity_from_data
    @@ <<"74f461e8671f983a", "suffix">> :> Pools!parse_remove_liquidity_from_data
    @@ <<"797f26885c370ef7", "suffix">> :> Pools!parse_bootstrap_liquidity_from_data
    @@ <<"ca2c295868dc9d52", "suffix">> :> Pools!parse_pool_created_from_data
    @@ <<"f51ac6a458124b09", "suffix">> :> Pools!parse_set_pool_fees_from_data

raydium_launchlab_inner ==
       <<"bddb7fd34ee661ee", "suffix">> :> Cpmm!parse_trade_from_data
    @@ <<"97d7e20976a173ae", "suffix">> :> Cpmm!parse_pool_create_from_data

pump_fees_inner ==
       "8569aac8b874fb58" :> Swap!parse_create_fee_sharing_config_from_data
    @@ "598af4e60a38e27e" :> Swap!parse_initialize_fee_config_from_data
    @@ "cbcc97e27837d6f3" :> Swap!parse_reset_fee_sharing_config_from_data
    @@ "7217653c0ebe993e" :> Swap!parse_revoke_fee_sharing_authority_from_data
    @@ "7c8fc6f54db808ec" :> Swap!parse_transfer_fee_sharing_authority_from_data
    @@ "e198ab57f63f42ea" :> Swap!parse_update_admin_from_data
    @@ "5a1741233ef4bcd0" :> Swap!parse_update_fee_config_from_data
    @@ "15bac4b85be4e1cb" :> Swap!parse_update_fee_shares_from_data
    @@ "ab59a9bb7aba21cc" :> Swap!parse_upsert_fee_tiers_from_data

parse_buy_inner ==
    Swap!parse_buy_from_data

\* A sale is also marked as one of a pump pool.
parse_sell_inner ==
    Swap!parse_sell_from_data

parse_create_pool_inner ==
    Swap!parse_create_pool_from_data

parse_add_liquidity_inner ==
    Swap!parse_add_liquidity_from_data

parse_remove_liquidity_inner ==
    Swap!parse_remove_liquidity_from_data

parse_pumpswap_inner_instruction(disc, form) ==
    IF Pump!event_type(disc, "pumpswap") # Unknown THEN Pump!event_type(disc, "pumpswap")
    ELSE IF form # "anchor" THEN Unknown
    ELSE CASE disc = "67f4521f2cf57777" -> parse_buy_inner
           [] disc = "3e2f370aa503dc2a" -> parse_sell_inner
           [] disc = "b1310cd2a076a774" -> parse_create_pool_inner
           [] disc = "78f83d531f8e6b90" -> parse_add_liquidity_inner
           [] disc = "1609851aa02c47c0" -> parse_remove_liquidity_inner
           [] OTHER -> Unknown
==============================================================================
