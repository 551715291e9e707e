------------------------------ MODULE LogMatcher ------------------------------
(*****************************************************************************)
(* The router of log lines (logs/optimized_matcher.rs): the discriminator of *)
(* a line of program data, with or without the program that emitted it, and  *)
(* the event filter of the subscriber select a decoder; and the lookup table *)
(* with the same purpose (logs/discriminator_lut.rs).                        *)
(*****************************************************************************)
EXTENDS Layouts, EventTypeFilter

Pump == INSTANCE PumpLogs
Swap == INSTANCE PumpSwapLogs
Clmm == INSTANCE RaydiumClmmLogs
Cpmm == INSTANCE RaydiumCpmmLogs
Amm == INSTANCE RaydiumAmmLogs
Orca == INSTANCE OrcaWhirlpoolLogs
Pools == INSTANCE MeteoraPoolsLogs
Damm == INSTANCE MeteoraDamm
Dlmm == INSTANCE MeteoraDlmm
Dbc == INSTANCE MeteoraPoolsLogs

PUMPFUN_CREATE == "1b72a94ddeeb6376"
PUMPFUN_TRADE == "bddb7fd34ee661ee"
PUMPFUN_MIGRATE == "bde95db95c94ea94"
PUMPFUN_MIGRATE_BONDING_CURVE_CREATOR == "9ba768dcd56cf303"
RAYDIUM_LAUNCHLAB_POOL_CREATE == "97d7e20976a173ae"
RAYDIUM_LAUNCHLAB_TRADE == "bddb7fd34ee661ee"
PUMP_FEES_CREATE_FEE_SHARING_CONFIG == "8569aac8b874fb58"
PUMP_FEES_INITIALIZE_FEE_CONFIG == "598af4e60a38e27e"
PUMP_FEES_RESET_FEE_SHARING_CONFIG == "cbcc97e27837d6f3"
PUMP_FEES_REVOKE_FEE_SHARING_AUTHORITY == "7217653c0ebe993e"
PUMP_FEES_TRANSFER_FEE_SHARING_AUTHORITY == "7c8fc6f54db808ec"
PUMP_FEES_UPDATE_ADMIN == "e198ab57f63f42ea"
PUMP_FEES_UPDATE_FEE_CONFIG == "5a1741233ef4bcd0"
PUMP_FEES_UPDATE_FEE_SHARES == "15bac4b85be4e1cb"
PUMP_FEES_UPSERT_FEE_TIERS == "ab59a9bb7aba21cc"
PUMPSWAP_BUY == "67f4521f2cf57777"
PUMPSWAP_SELL == "3e2f370aa503dc2a"
PUMPSWAP_CREATE_POOL == "b1310cd2a076a774"
PUMPSWAP_ADD_LIQUIDITY == "78f83d531f8e6b90"
PUMPSWAP_REMOVE_LIQUIDITY == "1609851aa02c47c0"
RAYDIUM_CLMM_SWAP == "40c6cde8260871e2"
RAYDIUM_CLMM_INCREASE_LIQUIDITY == "314f69d420221e54"
RAYDIUM_CLMM_DECREASE_LIQUIDITY == "3ade563a44325538"
RAYDIUM_CLMM_LIQUIDITY_CHANGE == "7ef0afce9e58996b"
RAYDIUM_CLMM_CONFIG_CHANGE == "f7bd07776a705f97"
RAYDIUM_CLMM_CREATE_PERSONAL_POSITION == "641e57f9c4df9ace"
RAYDIUM_CLMM_LIQUIDITY_CALCULATE == "ed7094e63954b4a2"
RAYDIUM_CLMM_OPEN_LIMIT_ORDER == "6a18475539a99ed8"
RAYDIUM_CLMM_INCREASE_LIMIT_ORDER == "0b780dccc75713c8"
RAYDIUM_CLMM_DECREASE_LIMIT_ORDER == "463028dddbedd4a3"
RAYDIUM_CLMM_SETTLE_LIMIT_ORDER == "58774da47d7c0ac2"
RAYDIUM_CLMM_UPDATE_REWARD_INFOS == "6d7fba4e724125ec"
RAYDIUM_CLMM_CREATE_POOL == "195e4b2f7063353f"
RAYDIUM_CLMM_COLLECT_PERSONAL_FEE == "a6ae69c051a15369"
RAYDIUM_CLMM_COLLECT_PROTOCOL_FEE == "ce57114f2d29d53d"
RAYDIUM_CPMM_LP_CHANGE_EVENT == "79a3cdc939da753c"
RAYDIUM_CPMM_SWAP_BASE_IN == "8fbe5adac41e33de"
RAYDIUM_CPMM_SWAP_EVENT == "40c6cde8260871e2"
RAYDIUM_CPMM_SWAP_BASE_OUT == "37d96256a34ab4ad"
RAYDIUM_CPMM_CREATE_POOL == "e992d18ecf6840bc"
RAYDIUM_CPMM_DEPOSIT == "f223c68952e1f2b6"
RAYDIUM_CPMM_WITHDRAW == "b712469c946da122"
RAYDIUM_AMM_SWAP_BASE_IN == "0000000000000009"
RAYDIUM_AMM_SWAP_BASE_OUT == "000000000000000b"
RAYDIUM_AMM_DEPOSIT == "0000000000000003"
RAYDIUM_AMM_WITHDRAW == "0000000000000004"
RAYDIUM_AMM_INITIALIZE2 == "0000000000000001"
RAYDIUM_AMM_WITHDRAW_PNL == "0000000000000007"
ORCA_TRADED == "e1ca49af932ba096"
ORCA_LIQUIDITY_INCREASED == "1e0790b566fe9ba1"
ORCA_LIQUIDITY_DECREASED == "a601244770cab5ab"
ORCA_POOL_INITIALIZED == "6476ad570cc6fee5"
METEORA_AMM_SWAP == "516ce3becdd00ac4"
METEORA_AMM_ADD_LIQUIDITY == "1f5e7d5ae3343dba"
METEORA_AMM_REMOVE_LIQUIDITY == "74f461e8671f983a"
METEORA_AMM_BOOTSTRAP_LIQUIDITY == "797f26885c370ef7"
METEORA_AMM_POOL_CREATED == "ca2c295868dc9d52"
METEORA_AMM_SET_POOL_FEES == "f51ac6a458124b09"
METEORA_DAMM_SWAP == "1b3c15d58aaabb93"
METEORA_DAMM_SWAP2 == "bd4233a826507599"
METEORA_DAMM_ADD_LIQUIDITY == "aff2089d1ef7b9a9"
METEORA_DAMM_REMOVE_LIQUIDITY == "572e5862af60225b"
METEORA_DAMM_INITIALIZE_POOL == "e432f655cb428625"
METEORA_DAMM_CREATE_POSITION == "9c0f77c61db5dd37"
METEORA_DAMM_CLOSE_POSITION == "149190448f8ed6b2"
METEORA_DAMM_CLAIM_POSITION_FEE == "c6b6b734610c3138"
METEORA_DAMM_INITIALIZE_REWARD == "815bbc03f634b9f9"
METEORA_DAMM_FUND_REWARD == "68e9ed7ac7bf7955"
METEORA_DAMM_CLAIM_REWARD == "da5693c8ebbcd7e7"
METEORA_DBC_SWAP2 == "bd4233a826507599"
METEORA_DBC_SWAP2_TRANSFER_HOOK == "863ba8785e3372e7"
METEORA_DBC_SWAP == "1b3c15d58aaabb93"
METEORA_DBC_INITIALIZE_POOL == "e432f655cb428625"
METEORA_DBC_CURVE_COMPLETE == "e5e756549c864b18"
METEORA_DLMM_SWAP == "516ce3becdd00ac4"
METEORA_DLMM_SWAP2 == "2e7452d7941b544d"
METEORA_DLMM_ADD_LIQUIDITY == "1f5e7d5ae3343dba"
METEORA_DLMM_REMOVE_LIQUIDITY == "74f461e8671f983a"
METEORA_DLMM_INITIALIZE_POOL == "b94afc7d1bd7bc6f"
METEORA_DLMM_INITIALIZE_BIN_ARRAY == "0b129bc22173ee77"
METEORA_DLMM_CREATE_POSITION == "908efc549d352579"
METEORA_DLMM_CLOSE_POSITION == "ffc4106b1cca3580"
METEORA_DLMM_CLAIM_FEE == "4b7a9a308c4a7ba3"
METEORA_DLMM_CLAIM_FEE2 == "e8abf2613a4d232d"

Types_pump ==
       PUMPFUN_CREATE :> "PumpFunCreate"
    @@ PUMPFUN_TRADE :> "PumpFunTrade"
    @@ PUMPFUN_MIGRATE :> "PumpFunMigrate"
    @@ PUMPFUN_MIGRATE_BONDING_CURVE_CREATOR :> "PumpFunMigrateBondingCurveCreator"

Types_pump_fees ==
       PUMP_FEES_CREATE_FEE_SHARING_CONFIG :> "PumpFeesCreateFeeSharingConfig"
    @@ PUMP_FEES_INITIALIZE_FEE_CONFIG :> "PumpFeesInitializeFeeConfig"
    @@ PUMP_FEES_RESET_FEE_SHARING_CONFIG :> "PumpFeesResetFeeSharingConfig"
    @@ PUMP_FEES_REVOKE_FEE_SHARING_AUTHORITY :> "PumpFeesRevokeFeeSharingAuthority"
    @@ PUMP_FEES_TRANSFER_FEE_SHARING_AUTHORITY :> "PumpFeesTransferFeeSharingAuthority"
    @@ PUMP_FEES_UPDATE_ADMIN :> "PumpFeesUpdateAdmin"
    @@ PUMP_FEES_UPDATE_FEE_CONFIG :> "PumpFeesUpdateFeeConfig"
    @@ PUMP_FEES_UPDATE_FEE_SHARES :> "PumpFeesUpdateFeeShares"
    @@ PUMP_FEES_UPSERT_FEE_TIERS :> "PumpFeesUpsertFeeTiers"

Types_pumpswap ==
       PUMPSWAP_BUY :> "PumpSwapBuy"
    @@ PUMPSWAP_SELL :> "PumpSwapSell"
    @@ PUMPSWAP_CREATE_POOL :> "PumpSwapCreatePool"
    @@ PUMPSWAP_ADD_LIQUIDITY :> "PumpSwapLiquidityAdded"
    @@ PUMPSWAP_REMOVE_LIQUIDITY :> "PumpSwapLiquidityRemoved"

Types_launchlab ==
       RAYDIUM_LAUNCHLAB_TRADE :> "RaydiumLaunchlabTrade"
    @@ RAYDIUM_LAUNCHLAB_POOL_CREATE :> "RaydiumLaunchlabPoolCreate"

Types_clmm ==
       RAYDIUM_CLMM_SWAP :> "RaydiumClmmSwap"
    @@ RAYDIUM_CLMM_INCREASE_LIQUIDITY :> "RaydiumClmmIncreaseLiquidity"
    @@ RAYDIUM_CLMM_DECREASE_LIQUIDITY :> "RaydiumClmmDecreaseLiquidity"
    @@ RAYDIUM_CLMM_LIQUIDITY_CHANGE :> "RaydiumClmmLiquidityChange"
    @@ RAYDIUM_CLMM_CONFIG_CHANGE :> "RaydiumClmmConfigChange"
    @@ RAYDIUM_CLMM_CREATE_PERSONAL_POSITION :> "RaydiumClmmCreatePersonalPosition"
    @@ RAYDIUM_CLMM_LIQUIDITY_CALCULATE :> "RaydiumClmmLiquidityCalculate"
    @@ RAYDIUM_CLMM_OPEN_LIMIT_ORDER :> "RaydiumClmmOpenLimitOrder"
    @@ RAYDIUM_CLMM_INCREASE_LIMIT_ORDER :> "RaydiumClmmIncreaseLimitOrder"
    @@ RAYDIUM_CLMM_DECREASE_LIMIT_ORDER :> "RaydiumClmmDecreaseLimitOrder"
    @@ RAYDIUM_CLMM_SETTLE_LIMIT_ORDER :> "RaydiumClmmSettleLimitOrder"
    @@ RAYDIUM_CLMM_UPDATE_REWARD_INFOS :> "RaydiumClmmUpdateRewardInfos"
    @@ RAYDIUM_CLMM_CREATE_POOL :> "RaydiumClmmCreatePool"
    @@ RAYDIUM_CLMM_COLLECT_PERSONAL_FEE :> "RaydiumClmmCollectFee"
    @@ RAYDIUM_CLMM_COLLECT_PROTOCOL_FEE :> "RaydiumClmmCollectFee"

Types_cpmm ==
       RAYDIUM_CPMM_SWAP_EVENT :> "RaydiumCpmmSwap"
    @@ RAYDIUM_CPMM_SWAP_BASE_IN :> "RaydiumCpmmSwap"
    @@ RAYDIUM_CPMM_SWAP_BASE_OUT :> "RaydiumCpmmSwap"
    @@ RAYDIUM_CPMM_CREATE_POOL :> "RaydiumCpmmInitialize"
    @@ RAYDIUM_CPMM_DEPOSIT :> "RaydiumCpmmDeposit"
    @@ RAYDIUM_CPMM_WITHDRAW :> "RaydiumCpmmWithdraw"

Types_amm ==
       RAYDIUM_AMM_SWAP_BASE_IN :> "RaydiumAmmV4Swap"
    @@ RAYDIUM_AMM_SWAP_BASE_OUT :> "RaydiumAmmV4Swap"
    @@ RAYDIUM_AMM_DEPOSIT :> "RaydiumAmmV4Deposit"
    @@ RAYDIUM_AMM_WITHDRAW :> "RaydiumAmmV4Withdraw"
    @@ RAYDIUM_AMM_INITIALIZE2 :> "RaydiumAmmV4Initialize2"
    @@ RAYDIUM_AMM_WITHDRAW_PNL :> "RaydiumAmmV4WithdrawPnl"

Types_orca ==
       ORCA_TRADED :> "OrcaWhirlpoolSwap"
    @@ ORCA_LIQUIDITY_INCREASED :> "OrcaWhirlpoolLiquidityIncreased"
    @@ ORCA_LIQUIDITY_DECREASED :> "OrcaWhirlpoolLiquidityDecreased"
    @@ ORCA_POOL_INITIALIZED :> "OrcaWhirlpoolPoolInitialized"

Types_pools ==
       METEORA_AMM_SWAP :> "MeteoraPoolsSwap"
    @@ METEORA_AMM_ADD_LIQUIDITY :> "MeteoraPoolsAddLiquidity"
    @@ METEORA_AMM_REMOVE_LIQUIDITY :> "MeteoraPoolsRemoveLiquidity"
    @@ METEORA_AMM_BOOTSTRAP_LIQUIDITY :> "MeteoraPoolsBootstrapLiquidity"
    @@ METEORA_AMM_POOL_CREATED :> "MeteoraPoolsPoolCreated"
    @@ METEORA_AMM_SET_POOL_FEES :> "MeteoraPoolsSetPoolFees"

Types_damm ==
       METEORA_DAMM_SWAP :> "MeteoraDammV2Swap"
    @@ METEORA_DAMM_SWAP2 :> "MeteoraDammV2Swap"
    @@ METEORA_DAMM_ADD_LIQUIDITY :> "MeteoraDammV2AddLiquidity"
    @@ METEORA_DAMM_REMOVE_LIQUIDITY :> "MeteoraDammV2RemoveLiquidity"
    @@ METEORA_DAMM_INITIALIZE_POOL :> "MeteoraDammV2InitializePool"
    @@ METEORA_DAMM_CREATE_POSITION :> "MeteoraDammV2CreatePosition"
    @@ METEORA_DAMM_CLOSE_POSITION :> "MeteoraDammV2ClosePosition"
    @@ METEORA_DAMM_CLAIM_POSITION_FEE :> "MeteoraDammV2ClaimPositionFee"
    @@ METEORA_DAMM_INITIALIZE_REWARD :> "MeteoraDammV2InitializeReward"
    @@ METEORA_DAMM_FUND_REWARD :> "MeteoraDammV2FundReward"
    @@ METEORA_DAMM_CLAIM_REWARD :> "MeteoraDammV2ClaimReward"

Types_dbc ==
       METEORA_DBC_SWAP :> "MeteoraDbcSwap"
    @@ METEORA_DBC_SWAP2 :> "MeteoraDbcSwap"
    @@ METEORA_DBC_SWAP2_TRANSFER_HOOK :> "MeteoraDbcSwap"
    @@ METEORA_DBC_INITIALIZE_POOL :> "MeteoraDbcInitializePool"
    @@ METEORA_DBC_CURVE_COMPLETE :> "MeteoraDbcCurveComplete"

Types_dlmm ==
       METEORA_DLMM_SWAP :> "MeteoraDlmmSwap"
    @@ METEORA_DLMM_SWAP2 :> "MeteoraDlmmSwap"
    @@ METEORA_DLMM_ADD_LIQUIDITY :> "MeteoraDlmmAddLiquidity"
    @@ METEORA_DLMM_REMOVE_LIQUIDITY :> "MeteoraDlmmRemoveLiquidity"
    @@ METEORA_DLMM_INITIALIZE_POOL :> "MeteoraDlmmInitializePool"
    @@ METEORA_DLMM_INITIALIZE_BIN_ARRAY :> "MeteoraDlmmInitializeBinArray"
    @@ METEORA_DLMM_CREATE_POSITION :> "MeteoraDlmmCreatePosition"
    @@ METEORA_DLMM_CLOSE_POSITION :> "MeteoraDlmmClosePosition"
    @@ METEORA_DLMM_CLAIM_FEE :> "MeteoraDlmmClaimFee"
    @@ METEORA_DLMM_CLAIM_FEE2 :> "MeteoraDlmmClaimFee"

Decoders_pump ==
       PUMPFUN_TRADE :> Pump!parse_trade_from_data
    @@ PUMPFUN_CREATE :> Pump!parse_create_from_data
    @@ PUMPFUN_MIGRATE :> Pump!parse_migrate_from_data
    @@ PUMPFUN_MIGRATE_BONDING_CURVE_CREATOR :> Pump!parse_migrate_bonding_curve_creator_from_data

Decoders_pump_fees ==
       PUMP_FEES_CREATE_FEE_SHARING_CONFIG :> Swap!parse_create_fee_sharing_config_from_data
    @@ PUMP_FEES_INITIALIZE_FEE_CONFIG :> Swap!parse_initialize_fee_config_from_data
    @@ PUMP_FEES_RESET_FEE_SHARING_CONFIG :> Swap!parse_reset_fee_sharing_config_from_data
    @@ PUMP_FEES_REVOKE_FEE_SHARING_AUTHORITY :> Swap!parse_revoke_fee_sharing_authority_from_data
    @@ PUMP_FEES_TRANSFER_FEE_SHARING_AUTHORITY :> Swap!parse_transfer_fee_sharing_authority_from_data
    @@ PUMP_FEES_UPDATE_ADMIN :> Swap!parse_update_admin_from_data
    @@ PUMP_FEES_UPDATE_FEE_CONFIG :> Swap!parse_update_fee_config_from_data
    @@ PUMP_FEES_UPDATE_FEE_SHARES :> Swap!parse_update_fee_shares_from_data
    @@ PUMP_FEES_UPSERT_FEE_TIERS :> Swap!parse_upsert_fee_tiers_from_data

Decoders_pumpswap ==
       PUMPSWAP_BUY :> Swap!parse_buy_from_data
    @@ PUMPSWAP_SELL :> Swap!parse_sell_from_data
    @@ PUMPSWAP_CREATE_POOL :> Swap!parse_create_pool_from_data
    @@ PUMPSWAP_ADD_LIQUIDITY :> Swap!parse_add_liquidity_from_data
    @@ PUMPSWAP_REMOVE_LIQUIDITY :> Swap!parse_remove_liquidity_from_data

Decoders_launchlab ==
       RAYDIUM_LAUNCHLAB_TRADE :> Cpmm!parse_trade_from_data
    @@ RAYDIUM_LAUNCHLAB_POOL_CREATE :> Cpmm!parse_pool_create_from_data

Decoders_clmm ==
       RAYDIUM_CLMM_SWAP :> Clmm!parse_swap_from_data
    @@ RAYDIUM_CLMM_INCREASE_LIQUIDITY :> Clmm!parse_increase_liquidity_from_data
    @@ RAYDIUM_CLMM_DECREASE_LIQUIDITY :> Clmm!parse_decrease_liquidity_from_data
    @@ RAYDIUM_CLMM_LIQUIDITY_CHANGE :> Clmm!parse_liquidity_change_from_data
    @@ RAYDIUM_CLMM_CONFIG_CHANGE :> Clmm!parse_config_change_from_data
    @@ RAYDIUM_CLMM_CREATE_PERSONAL_POSITION :> Clmm!parse_create_personal_position_from_data
    @@ RAYDIUM_CLMM_LIQUIDITY_CALCULATE :> Clmm!parse_liquidity_calculate_from_data
    @@ RAYDIUM_CLMM_OPEN_LIMIT_ORDER :> Clmm!parse_open_limit_order_from_data
    @@ RAYDIUM_CLMM_INCREASE_LIMIT_ORDER :> Clmm!parse_increase_limit_order_from_data
    @@ RAYDIUM_CLMM_DECREASE_LIMIT_ORDER :> Clmm!parse_decrease_limit_order_from_data
    @@ RAYDIUM_CLMM_SETTLE_LIMIT_ORDER :> Clmm!parse_settle_limit_order_from_data
    @@ RAYDIUM_CLMM_UPDATE_REWARD_INFOS :> Clmm!parse_update_reward_infos_from_data
    @@ RAYDIUM_CLMM_CREATE_POOL :> Clmm!parse_create_pool_from_data
    @@ RAYDIUM_CLMM_COLLECT_PERSONAL_FEE :> Clmm!parse_collect_personal_fee_from_data
    @@ RAYDIUM_CLMM_COLLECT_PROTOCOL_FEE :> Clmm!parse_collect_protocol_fee_from_data

Decoders_cpmm ==
       RAYDIUM_CPMM_LP_CHANGE_EVENT :> Cpmm!parse_lp_change_from_data
    @@ RAYDIUM_CPMM_SWAP_EVENT :> Cpmm!parse_swap_event_from_data
    @@ RAYDIUM_CPMM_SWAP_BASE_IN :> Cpmm!parse_swap_base_in_from_data
    @@ RAYDIUM_CPMM_SWAP_BASE_OUT :> Cpmm!parse_swap_base_out_from_data
    @@ RAYDIUM_CPMM_CREATE_POOL :> Cpmm!parse_create_pool_from_data
    @@ RAYDIUM_CPMM_DEPOSIT :> Cpmm!parse_deposit_from_data
    @@ RAYDIUM_CPMM_WITHDRAW :> Cpmm!parse_withdraw_from_data

Decoders_amm ==
       RAYDIUM_AMM_SWAP_BASE_IN :> Amm!parse_swap_base_in_from_data
    @@ RAYDIUM_AMM_SWAP_BASE_OUT :> Amm!parse_swap_base_out_from_data
    @@ RAYDIUM_AMM_DEPOSIT :> Amm!parse_deposit_from_data
    @@ RAYDIUM_AMM_WITHDRAW :> Amm!parse_withdraw_from_data
    @@ RAYDIUM_AMM_INITIALIZE2 :> Amm!parse_initialize2_from_data
    @@ RAYDIUM_AMM_WITHDRAW_PNL :> Amm!parse_withdraw_pnl_from_data

Decoders_orca ==
       ORCA_TRADED :> Orca!parse_traded_from_data
    @@ ORCA_LIQUIDITY_INCREASED :> Orca!parse_liquidity_increased_from_data
    @@ ORCA_LIQUIDITY_DECREASED :> Orca!parse_liquidity_decreased_from_data
    @@ ORCA_POOL_INITIALIZED :> Orca!parse_pool_initialized_from_data

Decoders_pools ==
       METEORA_AMM_SWAP :> Pools!parse_swap_from_data
    @@ METEORA_AMM_ADD_LIQUIDITY :> Pools!parse_add_liquidity_from_data
    @@ METEORA_AMM_REMOVE_LIQUIDITY :> Pools!parse_remove_liquidity_from_data
    @@ METEORA_AMM_BOOTSTRAP_LIQUIDITY :> Pools!parse_bootstrap_liquidity_from_data
    @@ METEORA_AMM_POOL_CREATED :> Pools!parse_pool_created_from_data
    @@ METEORA_AMM_SET_POOL_FEES :> Pools!parse_set_pool_fees_from_data

Decoders_damm ==
       METEORA_DAMM_SWAP :> Damm!parse_swap_from_data
    @@ METEORA_DAMM_SWAP2 :> Damm!parse_swap2_from_data
    @@ METEORA_DAMM_ADD_LIQUIDITY :> Damm!parse_add_liquidity_from_data
    @@ METEORA_DAMM_REMOVE_LIQUIDITY :> Damm!parse_remove_liquidity_from_data
    @@ METEORA_DAMM_INITIALIZE_POOL :> Damm!parse_initialize_pool_from_data
    @@ METEORA_DAMM_CREATE_POSITION :> Damm!parse_create_position_from_data
    @@ METEORA_DAMM_CLOSE_POSITION :> Damm!parse_close_position_from_data
    @@ METEORA_DAMM_CLAIM_POSITION_FEE :> Damm!parse_claim_position_fee_from_data
    @@ METEORA_DAMM_INITIALIZE_REWARD :> Damm!parse_initialize_reward_from_data
    @@ METEORA_DAMM_FUND_REWARD :> Damm!parse_fund_reward_from_data
    @@ METEORA_DAMM_CLAIM_REWARD :> Damm!parse_claim_reward_from_data

Decoders_dbc ==
       METEORA_DBC_SWAP :> Dbc!parse_dbc_swap_from_data
    @@ METEORA_DBC_SWAP2 :> Dbc!parse_dbc_swap2_from_data
    @@ METEORA_DBC_SWAP2_TRANSFER_HOOK :> Dbc!parse_dbc_swap2_from_data
    @@ METEORA_DBC_INITIALIZE_POOL :> Dbc!parse_dbc_initialize_pool_from_data
    @@ METEORA_DBC_CURVE_COMPLETE :> Dbc!parse_dbc_curve_complete_from_data

Decoders_dlmm ==
       METEORA_DLMM_SWAP :> Dlmm!parse_swap_from_data
    @@ METEORA_DLMM_SWAP2 :> Dlmm!parse_swap2_from_data
    @@ METEORA_DLMM_ADD_LIQUIDITY :> Dlmm!parse_add_liquidity_from_data
    @@ METEORA_DLMM_REMOVE_LIQUIDITY :> Dlmm!parse_remove_liquidity_from_data
    @@ METEORA_DLMM_INITIALIZE_POOL :> Dlmm!parse_lb_pair_create_from_data
    @@ METEORA_DLMM_INITIALIZE_BIN_ARRAY :> Dlmm!parse_initialize_bin_array_from_data
    @@ METEORA_DLMM_CREATE_POSITION :> Dlmm!parse_position_create_from_data
    @@ METEORA_DLMM_CLOSE_POSITION :> Dlmm!parse_position_close_from_data
    @@ METEORA_DLMM_CLAIM_FEE :> Dlmm!parse_claim_fee_from_data
    @@ METEORA_DLMM_CLAIM_FEE2 :> Dlmm!parse_claim_fee2_from_data

ProgramTypes ==
    [pump |-> Types_pump,
     pump_fees |-> Types_pump_fees,
     pumpswap |-> Types_pumpswap,
     launchlab |-> Types_launchlab,
     clmm |-> Types_clmm,
     cpmm |-> Types_cpmm,
     amm |-> Types_amm,
     orca |-> Types_orca,
     pools |-> Types_pools,
     damm |-> Types_damm,
     dbc |-> Types_dbc,
     dlmm |-> Types_dlmm]

ProgramDecoders ==
    [pump |-> Decoders_pump,
     pump_fees |-> Decoders_pump_fees,
     pumpswap |-> Decoders_pumpswap,
     launchlab |-> Decoders_launchlab,
     clmm |-> Decoders_clmm,
     cpmm |-> Decoders_cpmm,
     amm |-> Decoders_amm,
     orca |-> Decoders_orca,
     pools |-> Decoders_pools,
     damm |-> Decoders_damm,
     dbc |-> Decoders_dbc,
     dlmm |-> Decoders_dlmm]

UnscopedTypes ==
       PUMPFUN_CREATE :> "PumpFunCreate"
    @@ PUMPFUN_TRADE :> "PumpFunTrade"
    @@ PUMPFUN_MIGRATE :> "PumpFunMigrate"
    @@ PUMP_FEES_CREATE_FEE_SHARING_CONFIG :> "PumpFeesCreateFeeSharingConfig"
    @@ PUMP_FEES_INITIALIZE_FEE_CONFIG :> "PumpFeesInitializeFeeConfig"
    @@ PUMP_FEES_RESET_FEE_SHARING_CONFIG :> "PumpFeesResetFeeSharingConfig"
    @@ PUMP_FEES_REVOKE_FEE_SHARING_AUTHORITY :> "PumpFeesRevokeFeeSharingAuthority"
    @@ PUMP_FEES_TRANSFER_FEE_SHARING_AUTHORITY :> "PumpFeesTransferFeeSharingAuthority"
    @@ PUMP_FEES_UPDATE_ADMIN :> "PumpFeesUpdateAdmin"
    @@ PUMP_FEES_UPDATE_FEE_CONFIG :> "PumpFeesUpdateFeeConfig"
    @@ PUMP_FEES_UPDATE_FEE_SHARES :> "PumpFeesUpdateFeeShares"
    @@ PUMP_FEES_UPSERT_FEE_TIERS :> "PumpFeesUpsertFeeTiers"
    @@ PUMPFUN_MIGRATE_BONDING_CURVE_CREATOR :> "PumpFunMigrateBondingCurveCreator"
    @@ PUMPSWAP_BUY :> "PumpSwapBuy"
    @@ PUMPSWAP_SELL :> "PumpSwapSell"
    @@ PUMPSWAP_CREATE_POOL :> "PumpSwapCreatePool"
    @@ PUMPSWAP_ADD_LIQUIDITY :> "PumpSwapLiquidityAdded"
    @@ PUMPSWAP_REMOVE_LIQUIDITY :> "PumpSwapLiquidityRemoved"
    @@ RAYDIUM_LAUNCHLAB_POOL_CREATE :> "RaydiumLaunchlabPoolCreate"
    @@ RAYDIUM_CLMM_SWAP :> "RaydiumClmmSwap"
    @@ RAYDIUM_CLMM_INCREASE_LIQUIDITY :> "RaydiumClmmIncreaseLiquidity"
    @@ RAYDIUM_CLMM_DECREASE_LIQUIDITY :> "RaydiumClmmDecreaseLiquidity"
    @@ RAYDIUM_CLMM_LIQUIDITY_CHANGE :> "RaydiumClmmLiquidityChange"
    @@ RAYDIUM_CLMM_CONFIG_CHANGE :> "RaydiumClmmConfigChange"
    @@ RAYDIUM_CLMM_CREATE_PERSONAL_POSITION :> "RaydiumClmmCreatePersonalPosition"
    @@ RAYDIUM_CLMM_LIQUIDITY_CALCULATE :> "RaydiumClmmLiquidityCalculate"
    @@ RAYDIUM_CLMM_OPEN_LIMIT_ORDER :> "RaydiumClmmOpenLimitOrder"
    @@ RAYDIUM_CLMM_INCREASE_LIMIT_ORDER :> "RaydiumClmmIncreaseLimitOrder"
    @@ RAYDIUM_CLMM_DECREASE_LIMIT_ORDER :> "RaydiumClmmDecreaseLimitOrder"
    @@ RAYDIUM_CLMM_SETTLE_LIMIT_ORDER :> "RaydiumClmmSettleLimitOrder"
    @@ RAYDIUM_CLMM_UPDATE_REWARD_INFOS :> "RaydiumClmmUpdateRewardInfos"
    @@ RAYDIUM_CLMM_CREATE_POOL :> "RaydiumClmmCreatePool"
    @@ RAYDIUM_CLMM_COLLECT_PERSONAL_FEE :> "RaydiumClmmCollectFee"
    @@ RAYDIUM_CLMM_COLLECT_PROTOCOL_FEE :> "RaydiumClmmCollectFee"
    @@ RAYDIUM_CPMM_SWAP_BASE_IN :> "RaydiumCpmmSwap"
    @@ RAYDIUM_CPMM_SWAP_BASE_OUT :> "RaydiumCpmmSwap"
    @@ RAYDIUM_CPMM_DEPOSIT :> "RaydiumCpmmDeposit"
    @@ RAYDIUM_CPMM_WITHDRAW :> "RaydiumCpmmWithdraw"
    @@ RAYDIUM_AMM_SWAP_BASE_IN :> "RaydiumAmmV4Swap"
    @@ RAYDIUM_AMM_SWAP_BASE_OUT :> "RaydiumAmmV4Swap"
    @@ RAYDIUM_AMM_DEPOSIT :> "RaydiumAmmV4Deposit"
    @@ RAYDIUM_AMM_WITHDRAW :> "RaydiumAmmV4Withdraw"
    @@ RAYDIUM_AMM_INITIALIZE2 :> "RaydiumAmmV4Initialize2"
    @@ RAYDIUM_AMM_WITHDRAW_PNL :> "RaydiumAmmV4WithdrawPnl"
    @@ ORCA_TRADED :> "OrcaWhirlpoolSwap"
    @@ ORCA_LIQUIDITY_INCREASED :> "OrcaWhirlpoolLiquidityIncreased"
    @@ ORCA_LIQUIDITY_DECREASED :> "OrcaWhirlpoolLiquidityDecreased"
    @@ ORCA_POOL_INITIALIZED :> "OrcaWhirlpoolPoolInitialized"
    @@ METEORA_AMM_SWAP :> "MeteoraPoolsSwap"
    @@ METEORA_AMM_ADD_LIQUIDITY :> "MeteoraPoolsAddLiquidity"
    @@ METEORA_AMM_REMOVE_LIQUIDITY :> "MeteoraPoolsRemoveLiquidity"
    @@ METEORA_AMM_BOOTSTRAP_LIQUIDITY :> "MeteoraPoolsBootstrapLiquidity"
    @@ METEORA_AMM_POOL_CREATED :> "MeteoraPoolsPoolCreated"
    @@ METEORA_AMM_SET_POOL_FEES :> "MeteoraPoolsSetPoolFees"
    @@ METEORA_DAMM_SWAP :> "MeteoraDammV2Swap"
    @@ METEORA_DAMM_SWAP2 :> "MeteoraDammV2Swap"
    @@ METEORA_DAMM_ADD_LIQUIDITY :> "MeteoraDammV2AddLiquidity"
    @@ METEORA_DAMM_REMOVE_LIQUIDITY :> "MeteoraDammV2RemoveLiquidity"
    @@ METEORA_DAMM_INITIALIZE_POOL :> "MeteoraDammV2InitializePool"
    @@ METEORA_DAMM_CREATE_POSITION :> "MeteoraDammV2CreatePosition"
    @@ METEORA_DAMM_CLOSE_POSITION :> "MeteoraDammV2ClosePosition"
    @@ METEORA_DAMM_CLAIM_POSITION_FEE :> "MeteoraDammV2ClaimPositionFee"
    @@ METEORA_DAMM_INITIALIZE_REWARD :> "MeteoraDammV2InitializeReward"
    @@ METEORA_DAMM_FUND_REWARD :> "MeteoraDammV2FundReward"
    @@ METEORA_DAMM_CLAIM_REWARD :> "MeteoraDammV2ClaimReward"

\* The discriminators tested first, before the large match.
HotDecoders ==
       RAYDIUM_CLMM_SWAP :> Clmm!parse_swap_from_data
    @@ RAYDIUM_AMM_SWAP_BASE_IN :> Amm!parse_swap_base_in_from_data
    @@ PUMPSWAP_BUY :> Swap!parse_buy_from_data
    @@ PUMPSWAP_SELL :> Swap!parse_sell_from_data

ColdDecoders ==
       PUMPFUN_CREATE :> Pump!parse_create_from_data
    @@ PUMPFUN_MIGRATE :> Pump!parse_migrate_from_data
    @@ PUMP_FEES_CREATE_FEE_SHARING_CONFIG :> Swap!parse_create_fee_sharing_config_from_data
    @@ PUMP_FEES_INITIALIZE_FEE_CONFIG :> Swap!parse_initialize_fee_config_from_data
    @@ PUMP_FEES_RESET_FEE_SHARING_CONFIG :> Swap!parse_reset_fee_sharing_config_from_data
    @@ PUMP_FEES_REVOKE_FEE_SHARING_AUTHORITY :> Swap!parse_revoke_fee_sharing_authority_from_data
    @@ PUMP_FEES_TRANSFER_FEE_SHARING_AUTHORITY :> Swap!parse_transfer_fee_sharing_authority_from_data
    @@ PUMP_FEES_UPDATE_ADMIN :> Swap!parse_update_admin_from_data
    @@ PUMP_FEES_UPDATE_FEE_CONFIG :> Swap!parse_update_fee_config_from_data
    @@ PUMP_FEES_UPDATE_FEE_SHARES :> Swap!parse_update_fee_shares_from_data
    @@ PUMP_FEES_UPSERT_FEE_TIERS :> Swap!parse_upsert_fee_tiers_from_data
    @@ PUMPFUN_MIGRATE_BONDING_CURVE_CREATOR :> Pump!parse_migrate_bonding_curve_creator_from_data
    @@ PUMPSWAP_CREATE_POOL :> Swap!parse_create_pool_from_data
    @@ PUMPSWAP_ADD_LIQUIDITY :> Swap!parse_add_liquidity_from_data
    @@ PUMPSWAP_REMOVE_LIQUIDITY :> Swap!parse_remove_liquidity_from_data
    @@ RAYDIUM_CLMM_INCREASE_LIQUIDITY :> Clmm!parse_increase_liquidity_from_data
    @@ RAYDIUM_CLMM_DECREASE_LIQUIDITY :> Clmm!parse_decrease_liquidity_from_data
    @@ RAYDIUM_CLMM_LIQUIDITY_CHANGE :> Clmm!parse_liquidity_change_from_data
    @@ RAYDIUM_CLMM_CONFIG_CHANGE :> Clmm!parse_config_change_from_data
    @@ RAYDIUM_CLMM_CREATE_PERSONAL_POSITION :> Clmm!parse_create_personal_position_from_data
    @@ RAYDIUM_CLMM_LIQUIDITY_CALCULATE :> Clmm!parse_liquidity_calculate_from_data
    @@ RAYDIUM_CLMM_OPEN_LIMIT_ORDER :> Clmm!parse_open_limit_order_from_data
    @@ RAYDIUM_CLMM_INCREASE_LIMIT_ORDER :> Clmm!parse_increase_limit_order_from_data
    @@ RAYDIUM_CLMM_DECREASE_LIMIT_ORDER :> Clmm!parse_decrease_limit_order_from_data
    @@ RAYDIUM_CLMM_SETTLE_LIMIT_ORDER :> Clmm!parse_settle_limit_order_from_data
    @@ RAYDIUM_CLMM_UPDATE_REWARD_INFOS :> Clmm!parse_update_reward_infos_from_data
    @@ RAYDIUM_CLMM_CREATE_POOL :> Clmm!parse_create_pool_from_data
    @@ RAYDIUM_CLMM_COLLECT_PERSONAL_FEE :> Clmm!parse_collect_personal_fee_from_data
    @@ RAYDIUM_CLMM_COLLECT_PROTOCOL_FEE :> Clmm!parse_collect_protocol_fee_from_data
    @@ RAYDIUM_CPMM_LP_CHANGE_EVENT :> Cpmm!parse_lp_change_from_data
    @@ RAYDIUM_CPMM_SWAP_BASE_IN :> Cpmm!parse_swap_base_in_from_data
    @@ RAYDIUM_CPMM_SWAP_BASE_OUT :> Cpmm!parse_swap_base_out_from_data
    @@ RAYDIUM_CPMM_DEPOSIT :> Cpmm!parse_deposit_from_data
    @@ RAYDIUM_CPMM_WITHDRAW :> Cpmm!parse_withdraw_from_data

ColderDecoders ==
       RAYDIUM_AMM_SWAP_BASE_IN :> Amm!parse_swap_base_in_from_data
    @@ RAYDIUM_AMM_SWAP_BASE_OUT :> Amm!parse_swap_base_out_from_data
    @@ RAYDIUM_AMM_DEPOSIT :> Amm!parse_deposit_from_data
    @@ RAYDIUM_AMM_WITHDRAW :> Amm!parse_withdraw_from_data
    @@ RAYDIUM_AMM_INITIALIZE2 :> Amm!parse_initialize2_from_data
    @@ RAYDIUM_AMM_WITHDRAW_PNL :> Amm!parse_withdraw_pnl_from_data
    @@ ORCA_TRADED :> Orca!parse_traded_from_data
    @@ ORCA_LIQUIDITY_INCREASED :> Orca!parse_liquidity_increased_from_data
    @@ ORCA_LIQUIDITY_DECREASED :> Orca!parse_liquidity_decreased_from_data
    @@ ORCA_POOL_INITIALIZED :> Orca!parse_pool_initialized_from_data
    @@ METEORA_AMM_SWAP :> Pools!parse_swap_from_data
    @@ METEORA_AMM_ADD_LIQUIDITY :> Pools!parse_add_liquidity_from_data
    @@ METEORA_AMM_REMOVE_LIQUIDITY :> Pools!parse_remove_liquidity_from_data
    @@ METEORA_AMM_BOOTSTRAP_LIQUIDITY :> Pools!parse_bootstrap_liquidity_from_data
    @@ METEORA_AMM_POOL_CREATED :> Pools!parse_pool_created_from_data
    @@ METEORA_AMM_SET_POOL_FEES :> Pools!parse_set_pool_fees_from_data
    @@ METEORA_DAMM_SWAP :> Damm!parse_swap_from_data
    @@ METEORA_DAMM_SWAP2 :> Damm!parse_swap2_from_data
    @@ METEORA_DAMM_ADD_LIQUIDITY :> Damm!parse_add_liquidity_from_data
    @@ METEORA_DAMM_REMOVE_LIQUIDITY :> Damm!parse_remove_liquidity_from_data
    @@ METEORA_DAMM_INITIALIZE_POOL :> Damm!parse_initialize_pool_from_data
    @@ METEORA_DAMM_CREATE_POSITION :> Damm!parse_create_position_from_data
    @@ METEORA_DAMM_CLOSE_POSITION :> Damm!parse_close_position_from_data
    @@ METEORA_DAMM_CLAIM_POSITION_FEE :> Damm!parse_claim_position_fee_from_data
    @@ METEORA_DAMM_INITIALIZE_REWARD :> Damm!parse_initialize_reward_from_data
    @@ METEORA_DAMM_FUND_REWARD :> Damm!parse_fund_reward_from_data
    @@ METEORA_DAMM_CLAIM_REWARD :> Damm!parse_claim_reward_from_data

\* The first of two tables to know a discriminator decides.
UnscopedDecoders == HotDecoders @@ ColdDecoders @@ ColderDecoders

\* Whether a filter wants any event of a program.
IncludesProgram(program, filter) ==
    CASE program = "pump" -> includes_pumpfun(filter)
      [] program = "pump_fees" -> includes_pump_fees(filter)
      [] program = "pumpswap" -> includes_pumpswap(filter)
      [] program = "launchlab" -> includes_raydium_launchlab(filter)
      [] program = "clmm" -> includes_raydium_clmm(filter)
      [] program = "cpmm" -> includes_raydium_cpmm(filter)
      [] program = "amm" -> includes_raydium_amm_v4(filter)
      [] program = "orca" -> includes_orca_whirlpool(filter)
      [] program = "pools" -> includes_meteora_pools(filter)
      [] program = "damm" -> includes_meteora_damm_v2(filter)
      [] program = "dlmm" -> includes_meteora_dlmm(filter)
      [] program = "dbc" -> includes_meteora_dbc(filter)

filter_includes_known_program(program, filter) ==
    program \in DOMAIN ProgramTypes => IncludesProgram(program, filter)

filter_wants_supported_logs(filter) ==
    \E program \in DOMAIN ProgramTypes : IncludesProgram(program, filter)

filter_wants_pumpfun_trade_event(filter) ==
    includes_any(filter, {"PumpFunTrade"} \cup TradeVariants)

filter_wants_launchlab_trade_event(filter) ==
    should_include(filter, "RaydiumLaunchlabTrade")

\* The type of event behind a discriminator: a set with at most one element.
discriminator_to_event_type(disc) ==
    LET upgrade == Pump!event_type(disc, "none").event[0]
    IN IF upgrade # "" THEN {upgrade}
       ELSE IF disc \in DOMAIN UnscopedTypes THEN {UnscopedTypes[disc]} ELSE {}

program_scoped_discriminator_to_event_type(program, disc) ==
    LET upgrade == Pump!event_type(disc, program).event[0]
    IN IF upgrade # "" THEN {upgrade}
       ELSE IF program \in DOMAIN ProgramTypes /\ disc \in DOMAIN ProgramTypes[program]
       THEN {ProgramTypes[program][disc]} ELSE {}

unscoped_filter_allows_discriminator(disc, filter) ==
    CASE disc = PUMPFUN_TRADE ->
            \/ filter_wants_pumpfun_trade_event(filter)
            \/ should_include(filter, "RaydiumLaunchlabTrade")
      [] disc = RAYDIUM_CPMM_SWAP_BASE_IN ->
            includes_any(filter, {"RaydiumCpmmSwap", "MeteoraDlmmSwap"})
      [] OTHER -> IF discriminator_to_event_type(disc) = {} THEN filter_wants_supported_logs(filter)
                  ELSE includes_any(filter, discriminator_to_event_type(disc))

filter_allows_discriminator(program, disc, filter) ==
    \/ filter = NoFilter
    \/ /\ program = "none"
       /\ unscoped_filter_allows_discriminator(disc, filter)
    \/ /\ program # "none"
       /\ LET types == program_scoped_discriminator_to_event_type(program, disc)
          IN IF program = "pump" /\ disc = PUMPFUN_TRADE
             THEN filter_wants_pumpfun_trade_event(filter)
             ELSE IF types # {} THEN includes_any(filter, types)
             ELSE filter_includes_known_program(program, filter)

NoEvent == [status |-> "none", event |-> "", fields |-> <<>>]

apply_event_type_filter(body, result, filter) ==
    IF result.status = "event" /\ ~should_include_dex_event(filter, result.event, body.tag, FALSE)
    THEN NoEvent ELSE result

filter_pumpfun_trade_variant(result, filter) ==
    LET types == filter.types
        specific == /\ filter.mode = "only" /\ "PumpFunTrade" \notin types
                    /\ types \cap (TradeVariants \cup PumpFunCreateFamily) # {}
        matches == CASE result.event \in {"PumpFunBuy", "PumpFunBuyExactSolIn"} ->
                            types \cap {"PumpFunBuy", "PumpFunBuyExactSolIn"} # {}
                     [] result.event \in {"PumpFunSell", "PumpFunTrade"} -> result.event \in types
                     [] OTHER -> FALSE
    IN IF result.status # "event" THEN result
       ELSE IF \/ specific /\ ~matches
               \/ /\ filter.mode = "except"
                  /\ ~should_include_dex_event(filter, result.event, 0, FALSE)
       THEN NoEvent ELSE result

Filtered(body, decoder, filter) == apply_event_type_filter(body, Decode(body, decoder), filter)

parse_unscoped_pumpfun_launchlab_trade(body, filter) ==
    LET trade == IF filter_wants_pumpfun_trade_event(filter)
                 THEN Filtered(body, Pump!parse_trade_from_data, filter) ELSE NoEvent
    IN IF trade.status # "none" THEN trade
       ELSE IF filter_wants_launchlab_trade_event(filter)
       THEN Filtered(body, Cpmm!parse_trade_from_data, filter)
       ELSE NoEvent

\* The scoped path checks the filter before it decodes, by the table of types;
\* only trades and changes of liquidity are looked at again afterwards.
parse_program_scoped_event(program, disc, body, filter) ==
    LET types == program_scoped_discriminator_to_event_type(program, disc)
        trade == program = "pump" /\ disc = PUMPFUN_TRADE
        wanted == IF trade THEN filter_wants_pumpfun_trade_event(filter)
                  ELSE types = {} \/ includes_any(filter, types)
    IN IF \/ ~wanted
          \/ program \notin DOMAIN ProgramDecoders
          \/ ~IncludesProgram(program, filter)
          \/ disc \notin DOMAIN ProgramDecoders[program]
       THEN NoEvent
       ELSE LET result == Decode(body, ProgramDecoders[program][disc])
            IN CASE trade -> filter_pumpfun_trade_variant(result, filter)
                 [] program = "cpmm" /\ disc = RAYDIUM_CPMM_LP_CHANGE_EVENT ->
                        apply_event_type_filter(body, result, filter)
                 [] OTHER -> result

\* The text record of the AMM V4 program is recognised before anything else.
parse_ray_log(body, filter) ==
    IF ~should_include(filter, "RaydiumAmmV4Swap") THEN NoEvent
    ELSE Decode(body, Amm!parse_ray_log_swap)

\* A line of program data: its discriminator, the body after it and the program
\* that emitted it ("none" when the caller does not know it).
parse_log_optimized_inner(program, disc, body, filter) ==
    IF ~filter_allows_discriminator(program, disc, filter) THEN NoEvent
    ELSE IF Pump!event_type(disc, program) # Unknown
    THEN Filtered(body, Pump!event_type(disc, program), filter)
    ELSE IF program # "none" THEN parse_program_scoped_event(program, disc, body, filter)
    ELSE IF disc = PUMPFUN_TRADE THEN parse_unscoped_pumpfun_launchlab_trade(body, filter)
    ELSE IF disc \in DOMAIN UnscopedDecoders
    THEN Filtered(body, UnscopedDecoders[disc], filter)
    ELSE IF disc \in DOMAIN Dlmm!parse_structured_log
    THEN Filtered(body, Dlmm!parse_structured_log[disc], filter)
    ELSE NoEvent

\* The sorted lookup table over all protocols, in parts; the names of the
\* wrappers around the decoders are left out.
LUT_1 ==
       RAYDIUM_AMM_INITIALIZE2 :> Amm!parse_initialize2_from_data
    @@ RAYDIUM_AMM_DEPOSIT :> Amm!parse_deposit_from_data
    @@ PUMPFUN_MIGRATE_BONDING_CURVE_CREATOR :> Pump!parse_migrate_bonding_curve_creator_from_data
    @@ RAYDIUM_AMM_WITHDRAW :> Amm!parse_withdraw_from_data
    @@ "5f72619cd42e9808" :> Pump!event_type("5f72619cd42e9808", "none")
    @@ RAYDIUM_AMM_SWAP_BASE_IN :> Amm!parse_swap_base_in_from_data
    @@ "a6417204a75cbb0a" :> Orca!parse_liquidity_decreased_from_data
    @@ RAYDIUM_AMM_SWAP_BASE_OUT :> Amm!parse_swap_base_out_from_data
    @@ RAYDIUM_CPMM_WITHDRAW :> Cpmm!parse_withdraw_from_data
    @@ PUMPSWAP_SELL :> Swap!parse_sell_from_data
    @@ "742b4dbd117a482b" :> Pump!event_type("742b4dbd117a482b", "none")
    @@ METEORA_DAMM_CLAIM_POSITION_FEE :> Damm!parse_claim_position_fee_from_data
    @@ RAYDIUM_CLMM_DECREASE_LIQUIDITY :> Clmm!parse_decrease_liquidity_from_data
    @@ METEORA_AMM_REMOVE_LIQUIDITY :> Pools!parse_remove_liquidity_from_data
    @@ RAYDIUM_CPMM_LP_CHANGE_EVENT :> Cpmm!parse_lp_change_from_data
    @@ RAYDIUM_CLMM_COLLECT_PROTOCOL_FEE :> Clmm!parse_collect_protocol_fee_from_data
    @@ PUMP_FEES_REVOKE_FEE_SHARING_AUTHORITY :> Swap!parse_revoke_fee_sharing_authority_from_data
    @@ RAYDIUM_CLMM_CREATE_POOL :> Clmm!parse_create_pool_from_data
    @@ METEORA_AMM_POOL_CREATED :> Pools!parse_pool_created_from_data
    @@ RAYDIUM_CLMM_INCREASE_LIQUIDITY :> Clmm!parse_increase_liquidity_from_data
    @@ METEORA_DAMM_FUND_REWARD :> Damm!parse_fund_reward_from_data
    @@ PUMP_FEES_CREATE_FEE_SHARING_CONFIG :> Swap!parse_create_fee_sharing_config_from_data
    @@ RAYDIUM_CLMM_COLLECT_PERSONAL_FEE :> Clmm!parse_collect_personal_fee_from_data
    @@ RAYDIUM_CLMM_LIQUIDITY_CHANGE :> Clmm!parse_liquidity_change_from_data
    @@ PUMPSWAP_CREATE_POOL :> Swap!parse_create_pool_from_data
    @@ "1b1ba94ddeeb6376" :> Pump!parse_create_from_data

LUT_2 ==
       PUMPSWAP_BUY :> Swap!parse_buy_from_data
    @@ PUMP_FEES_INITIALIZE_FEE_CONFIG :> Swap!parse_initialize_fee_config_from_data
    @@ PUMPSWAP_ADD_LIQUIDITY :> Swap!parse_add_liquidity_from_data
    @@ "bde95db95d94ea94" :> Pump!parse_migrate_from_data
    @@ ORCA_TRADED :> Orca!parse_traded_from_data
    @@ RAYDIUM_CLMM_CONFIG_CHANGE :> Clmm!parse_config_change_from_data
    @@ "1e1e079066fe9ba1" :> Orca!parse_liquidity_increased_from_data
    @@ RAYDIUM_CLMM_LIQUIDITY_CALCULATE :> Clmm!parse_liquidity_calculate_from_data
    @@ RAYDIUM_CLMM_DECREASE_LIMIT_ORDER :> Clmm!parse_decrease_limit_order_from_data
    @@ "82a42461e48287a5" :> Pump!event_type("82a42461e48287a5", "none")
    @@ RAYDIUM_CPMM_SWAP_BASE_OUT :> Cpmm!parse_swap_base_out_from_data
    @@ RAYDIUM_CPMM_DEPOSIT :> Cpmm!parse_deposit_from_data
    @@ METEORA_AMM_ADD_LIQUIDITY :> Pools!parse_add_liquidity_from_data
    @@ PUMPSWAP_REMOVE_LIQUIDITY :> Swap!parse_remove_liquidity_from_data
    @@ RAYDIUM_CLMM_SETTLE_LIMIT_ORDER :> Clmm!parse_settle_limit_order_from_data
    @@ "51e36cbecdd00ac4" :> Pools!parse_swap_from_data
    @@ RAYDIUM_CLMM_INCREASE_LIMIT_ORDER :> Clmm!parse_increase_limit_order_from_data
    @@ PUMP_FEES_UPDATE_FEE_SHARES :> Swap!parse_update_fee_shares_from_data
    @@ PUMP_FEES_UPSERT_FEE_TIERS :> Swap!parse_upsert_fee_tiers_from_data
    @@ RAYDIUM_CLMM_CREATE_PERSONAL_POSITION :> Clmm!parse_create_personal_position_from_data
    @@ PUMP_FEES_UPDATE_FEE_CONFIG :> Swap!parse_update_fee_config_from_data
    @@ RAYDIUM_CLMM_OPEN_LIMIT_ORDER :> Clmm!parse_open_limit_order_from_data
    @@ RAYDIUM_CPMM_SWAP_BASE_IN :> Cpmm!parse_swap_base_in_from_data
    @@ RAYDIUM_CLMM_SWAP :> Clmm!parse_swap_from_data
    @@ ORCA_POOL_INITIALIZED :> Orca!parse_pool_initialized_from_data

LUT_3 ==
       METEORA_DAMM_CLAIM_REWARD :> Damm!parse_claim_reward_from_data
    @@ PUMP_FEES_UPDATE_ADMIN :> Swap!parse_update_admin_from_data
    @@ PUMP_FEES_TRANSFER_FEE_SHARING_AUTHORITY :> Swap!parse_transfer_fee_sharing_authority_from_data
    @@ RAYDIUM_CLMM_UPDATE_REWARD_INFOS :> Clmm!parse_update_reward_infos_from_data
    @@ PUMPFUN_TRADE :> Pump!parse_trade_from_data
    @@ PUMP_FEES_RESET_FEE_SHARING_CONFIG :> Swap!parse_reset_fee_sharing_config_from_data
    @@ METEORA_AMM_BOOTSTRAP_LIQUIDITY :> Pools!parse_bootstrap_liquidity_from_data
    @@ METEORA_DAMM_INITIALIZE_REWARD :> Damm!parse_initialize_reward_from_data
    @@ "6fb06d8b316cd5fb" :> Pump!event_type("6fb06d8b316cd5fb", "none")

DISCRIMINATOR_LUT == LUT_1 @@ LUT_2 @@ LUT_3

lookup_discriminator(disc) ==
    IF disc \in DOMAIN DISCRIMINATOR_LUT THEN DISCRIMINATOR_LUT[disc] ELSE Unknown

parse_with_discriminator(disc, body) == Decode(body, lookup_discriminator(disc))
==============================================================================
