--------------------------- MODULE EventTypeFilter ----------------------------
(*****************************************************************************)
(* The event types of the public interface and the filters over them         *)
(* (grpc/types.rs).                                                          *)
(*****************************************************************************)
EXTENDS TLC

EventType == {
    "BlockMeta", "RaydiumLaunchlabTrade", "RaydiumLaunchlabPoolCreate",
    "RaydiumLaunchlabMigrateAmm", "PumpFunTrade", "PumpFunBuy", "PumpFunSell",
    "PumpFunBuyExactSolIn", "PumpFunCreate", "PumpFunCreateV2", "PumpFunComplete",
    "PumpFunMigrate", "PumpFeesCreateFeeSharingConfig", "PumpFeesInitializeFeeConfig",
    "PumpFeesResetFeeSharingConfig", "PumpFeesRevokeFeeSharingAuthority",
    "PumpFeesTransferFeeSharingAuthority", "PumpFeesUpdateAdmin",
    "PumpFeesUpdateFeeConfig", "PumpFeesUpdateFeeShares", "PumpFeesUpsertFeeTiers",
    "PumpFunMigrateBondingCurveCreator", "PumpSwapTrade", "PumpSwapBuy", "PumpSwapSell",
    "PumpSwapCreatePool", "PumpSwapLiquidityAdded", "PumpSwapLiquidityRemoved",
    "RaydiumCpmmSwap", "RaydiumCpmmDeposit", "RaydiumCpmmWithdraw",
    "RaydiumCpmmInitialize", "RaydiumCpmmCollectCreatorFee",
    "AccountRaydiumCpmmCreatorFeeShare", "RaydiumClmmSwap", "RaydiumClmmCreatePool",
    "RaydiumClmmOpenPosition", "RaydiumClmmClosePosition", "RaydiumClmmIncreaseLiquidity",
    "RaydiumClmmDecreaseLiquidity", "RaydiumClmmLiquidityChange",
    "RaydiumClmmConfigChange", "RaydiumClmmCreatePersonalPosition",
    "RaydiumClmmLiquidityCalculate", "RaydiumClmmOpenLimitOrder",
    "RaydiumClmmIncreaseLimitOrder", "RaydiumClmmDecreaseLimitOrder",
    "RaydiumClmmSettleLimitOrder", "RaydiumClmmUpdateRewardInfos",
    "RaydiumClmmOpenPositionWithTokenExtNft", "RaydiumClmmCollectFee", "RaydiumAmmV4Swap",
    "RaydiumAmmV4Deposit", "RaydiumAmmV4Withdraw", "RaydiumAmmV4Initialize2",
    "RaydiumAmmV4WithdrawPnl", "OrcaWhirlpoolSwap", "OrcaWhirlpoolLiquidityIncreased",
    "OrcaWhirlpoolLiquidityDecreased", "OrcaWhirlpoolPoolInitialized", "MeteoraPoolsSwap",
    "MeteoraPoolsAddLiquidity", "MeteoraPoolsRemoveLiquidity",
    "MeteoraPoolsBootstrapLiquidity", "MeteoraPoolsPoolCreated", "MeteoraPoolsSetPoolFees",
    "MeteoraDammV2Swap", "MeteoraDammV2AddLiquidity", "MeteoraDammV2RemoveLiquidity",
    "MeteoraDammV2InitializePool", "MeteoraDammV2CreatePosition",
    "MeteoraDammV2ClosePosition", "MeteoraDammV2ClaimPositionFee",
    "MeteoraDammV2InitializeReward", "MeteoraDammV2FundReward", "MeteoraDammV2ClaimReward",
    "MeteoraDbcSwap", "MeteoraDbcInitializePool", "MeteoraDbcCurveComplete",
    "MeteoraDlmmSwap", "MeteoraDlmmAddLiquidity", "MeteoraDlmmRemoveLiquidity",
    "MeteoraDlmmInitializePool", "MeteoraDlmmInitializeBinArray",
    "MeteoraDlmmCreatePosition", "MeteoraDlmmClosePosition", "MeteoraDlmmClaimFee",
    "TokenAccount", "TokenInfo", "NonceAccount", "AccountPumpFunGlobal",
    "AccountPumpFunBondingCurve", "AccountPumpFunFeeConfig", "AccountPumpFunSharingConfig",
    "AccountPumpFunGlobalVolumeAccumulator", "AccountPumpFunUserVolumeAccumulator",
    "AccountPumpSwapGlobalConfig", "AccountPumpSwapPool", "AccountRaydiumClmmAmmConfig",
    "AccountRaydiumClmmPoolState", "AccountRaydiumClmmTickArrayState",
    "AccountRaydiumCpmmAmmConfig", "AccountRaydiumCpmmPoolState", "AccountOrcaWhirlpool",
    "AccountOrcaPosition", "AccountOrcaTickArray", "AccountOrcaFeeTier",
    "AccountOrcaWhirlpoolsConfig", "PumpFunPostCompleteBuy", "PumpFunSweepBondingCurveFee",
    "PumpSwapSweepPoolFee" }

\* A filter keeps the listed types ("only"), or all but the listed ones
\* ("except").  NoFilter stands for the absence of a filter.
Only(types) == [mode |-> "only", types |-> types]

Except(types) == [mode |-> "except", types |-> types]

NoFilter == [mode |-> "all", types |-> {}]

TradeVariants == {"PumpFunBuy", "PumpFunSell", "PumpFunBuyExactSolIn"}

pumpfun_trade_filter_is_generic(types) ==
    "PumpFunTrade" \in types /\ types \cap TradeVariants = {}

pumpfun_buy_filter_is_generic(types) ==
    "PumpFunBuy" \in types /\ "PumpFunBuyExactSolIn" \notin types

PumpFunCreateFamily == {"PumpFunCreate", "PumpFunCreateV2"}

IncludedBy(types, type) ==
    \/ type \in types
    \/ type \in TradeVariants /\ pumpfun_trade_filter_is_generic(types)
    \/ type = "PumpFunBuyExactSolIn" /\ pumpfun_buy_filter_is_generic(types)
    \/ type \in PumpFunCreateFamily /\ types \cap PumpFunCreateFamily # {}
    \/ type \in {"PumpSwapBuy", "PumpSwapSell"} /\ "PumpSwapTrade" \in types

ExcludedBy(types, type) ==
    \/ type \in types
    \/ type \in TradeVariants /\ "PumpFunTrade" \in types
    \/ type = "PumpFunBuyExactSolIn" /\ "PumpFunBuy" \in types
    \/ type \in PumpFunCreateFamily /\ types \cap PumpFunCreateFamily # {}
    \/ type \in {"PumpSwapBuy", "PumpSwapSell"} /\ "PumpSwapTrade" \in types

should_include(filter, type) ==
    CASE filter.mode = "only"   -> IncludedBy(filter.types, type)
      [] filter.mode = "except" -> ~ExcludedBy(filter.types, type)
      [] filter.mode = "all"    -> TRUE

includes_any(filter, types) == \E type \in types : should_include(filter, type)

includes_pumpfun(filter) == includes_any(filter, {
    "PumpFunTrade", "PumpFunBuy", "PumpFunSell", "PumpFunBuyExactSolIn", "PumpFunCreate",
    "PumpFunCreateV2", "PumpFunComplete", "PumpFunMigrate",
    "PumpFunMigrateBondingCurveCreator", "PumpFunPostCompleteBuy",
    "PumpFunSweepBondingCurveFee" })

includes_pump_fees(filter) == includes_any(filter, {
    "PumpFeesCreateFeeSharingConfig", "PumpFeesInitializeFeeConfig",
    "PumpFeesResetFeeSharingConfig", "PumpFeesRevokeFeeSharingAuthority",
    "PumpFeesTransferFeeSharingAuthority", "PumpFeesUpdateAdmin",
    "PumpFeesUpdateFeeConfig", "PumpFeesUpdateFeeShares", "PumpFeesUpsertFeeTiers" })

includes_pumpswap(filter) == includes_any(filter, {
    "PumpSwapTrade", "PumpSwapBuy", "PumpSwapSell", "PumpSwapCreatePool",
    "PumpSwapSweepPoolFee", "PumpSwapLiquidityAdded", "PumpSwapLiquidityRemoved" })

includes_raydium_launchlab(filter) == includes_any(filter, {
    "RaydiumLaunchlabTrade", "RaydiumLaunchlabPoolCreate", "RaydiumLaunchlabMigrateAmm" })

includes_raydium_cpmm(filter) == includes_any(filter, {
    "RaydiumCpmmSwap", "RaydiumCpmmDeposit", "RaydiumCpmmWithdraw",
    "RaydiumCpmmInitialize", "RaydiumCpmmCollectCreatorFee" })

\* Mutant: includes_raydium_clmm with the later event types left out of the list.
IncludesClmmPositions(filter) == includes_any(filter, {
    "RaydiumClmmSwap", "RaydiumClmmCreatePool", "RaydiumClmmOpenPosition",
    "RaydiumClmmClosePosition", "RaydiumClmmIncreaseLiquidity",
    "RaydiumClmmDecreaseLiquidity", "RaydiumClmmCollectFee" })

includes_raydium_clmm(filter) == includes_any(filter, {
    "RaydiumClmmSwap", "RaydiumClmmCreatePool", "RaydiumClmmOpenPosition",
    "RaydiumClmmClosePosition", "RaydiumClmmIncreaseLiquidity",
    "RaydiumClmmDecreaseLiquidity", "RaydiumClmmLiquidityChange",
    "RaydiumClmmConfigChange", "RaydiumClmmCreatePersonalPosition",
    "RaydiumClmmLiquidityCalculate", "RaydiumClmmOpenLimitOrder",
    "RaydiumClmmIncreaseLimitOrder", "RaydiumClmmDecreaseLimitOrder",
    "RaydiumClmmSettleLimitOrder", "RaydiumClmmUpdateRewardInfos",
    "RaydiumClmmOpenPositionWithTokenExtNft", "RaydiumClmmCollectFee" })

includes_raydium_amm_v4(filter) == includes_any(filter, {
    "RaydiumAmmV4Swap", "RaydiumAmmV4Deposit", "RaydiumAmmV4Withdraw",
    "RaydiumAmmV4Initialize2", "RaydiumAmmV4WithdrawPnl" })

includes_orca_whirlpool(filter) == includes_any(filter, {
    "OrcaWhirlpoolSwap", "OrcaWhirlpoolLiquidityIncreased",
    "OrcaWhirlpoolLiquidityDecreased", "OrcaWhirlpoolPoolInitialized" })

includes_meteora_pools(filter) == includes_any(filter, {
    "MeteoraPoolsSwap", "MeteoraPoolsAddLiquidity", "MeteoraPoolsRemoveLiquidity",
    "MeteoraPoolsBootstrapLiquidity", "MeteoraPoolsPoolCreated", "MeteoraPoolsSetPoolFees" })

includes_meteora_damm_v2(filter) == includes_any(filter, {
    "MeteoraDammV2Swap", "MeteoraDammV2AddLiquidity", "MeteoraDammV2CreatePosition",
    "MeteoraDammV2ClosePosition", "MeteoraDammV2InitializePool",
    "MeteoraDammV2RemoveLiquidity", "MeteoraDammV2ClaimPositionFee",
    "MeteoraDammV2InitializeReward", "MeteoraDammV2FundReward", "MeteoraDammV2ClaimReward" })

includes_meteora_dlmm(filter) == includes_any(filter, {
    "MeteoraDlmmSwap", "MeteoraDlmmAddLiquidity", "MeteoraDlmmRemoveLiquidity",
    "MeteoraDlmmInitializePool", "MeteoraDlmmInitializeBinArray",
    "MeteoraDlmmCreatePosition", "MeteoraDlmmClosePosition", "MeteoraDlmmClaimFee" })

includes_meteora_dbc(filter) == includes_any(filter, {
    "MeteoraDbcSwap", "MeteoraDbcInitializePool", "MeteoraDbcCurveComplete" })

\* A trade that shreds show without its direction: kept by a filter that wants
\* all trades, unless trades are excluded by name.
includes_unresolved_pumpfun(filter) ==
    /\ ~(filter.mode = "except" /\ "PumpFunTrade" \in filter.types)
    /\ should_include(filter, "PumpFunTrade")

AccountEventType ==
       "PumpFunGlobalAccount" :> "AccountPumpFunGlobal"
    @@ "PumpFunBondingCurveAccount" :> "AccountPumpFunBondingCurve"
    @@ "PumpFunFeeConfigAccount" :> "AccountPumpFunFeeConfig"
    @@ "PumpFunSharingConfigAccount" :> "AccountPumpFunSharingConfig"
    @@ "PumpFunGlobalVolumeAccumulatorAccount" :> "AccountPumpFunGlobalVolumeAccumulator"
    @@ "PumpFunUserVolumeAccumulatorAccount" :> "AccountPumpFunUserVolumeAccumulator"
    @@ "RaydiumClmmAmmConfigAccount" :> "AccountRaydiumClmmAmmConfig"
    @@ "RaydiumClmmPoolStateAccount" :> "AccountRaydiumClmmPoolState"
    @@ "RaydiumClmmTickArrayStateAccount" :> "AccountRaydiumClmmTickArrayState"
    @@ "RaydiumCpmmCreatorFeeShareAccount" :> "AccountRaydiumCpmmCreatorFeeShare"
    @@ "RaydiumCpmmAmmConfigAccount" :> "AccountRaydiumCpmmAmmConfig"
    @@ "RaydiumCpmmPoolStateAccount" :> "AccountRaydiumCpmmPoolState"
    @@ "OrcaWhirlpoolAccount" :> "AccountOrcaWhirlpool"
    @@ "OrcaPositionAccount" :> "AccountOrcaPosition"
    @@ "OrcaTickArrayAccount" :> "AccountOrcaTickArray"
    @@ "OrcaFeeTierAccount" :> "AccountOrcaFeeTier"
    @@ "OrcaWhirlpoolsConfigAccount" :> "AccountOrcaWhirlpoolsConfig"
    @@ "PumpSwapGlobalConfigAccount" :> "AccountPumpSwapGlobalConfig"
    @@ "PumpSwapPoolAccount" :> "AccountPumpSwapPool"

\* An event has the type of its own name, except a change of CPMM liquidity,
\* which is a deposit or a withdrawal, and the account events.
event_type_from_dex_event(event, tag) ==
    CASE event = "RaydiumCpmmLpChange" ->
            IF tag = 0 THEN "RaydiumCpmmDeposit" ELSE "RaydiumCpmmWithdraw"
      [] event \in DOMAIN AccountEventType -> AccountEventType[event]
      [] OTHER -> event

should_include_dex_event(filter, event, tag, unresolved) ==
    IF event = "PumpFunTrade" /\ unresolved THEN includes_unresolved_pumpfun(filter)
    ELSE should_include(filter, event_type_from_dex_event(event, tag))

\* The event handed to the user: a filter for all trades sees trades, a filter
\* for buys sees buys.
normalize_dex_event(filter, event) ==
    IF filter.mode # "only" THEN event
    ELSE IF event \in TradeVariants /\ pumpfun_trade_filter_is_generic(filter.types)
    THEN "PumpFunTrade"
    ELSE IF event = "PumpFunBuyExactSolIn" /\ pumpfun_buy_filter_is_generic(filter.types)
    THEN "PumpFunBuy"
    ELSE event
==============================================================================
