------------------------------- MODULE PumpLogs -------------------------------
(*****************************************************************************)
(* The decoders of the pump.fun program: the log lines (logs/pump.rs), the   *)
(* events added by the upgrade (logs/pump_upgrade.rs) and the bodies of      *)
(* event CPIs (instr/pump_inner.rs), which the two build features            *)
(* parse-borsh and parse-zero-copy decode with different code.  The tag of a *)
(* trade is the instruction name in it: 1 for buy and buy_exact_quote_in, 2  *)
(* for sell, 3 for buy_exact_sol_in, 0 for any other (after                  *)
(* normalize_pumpfun_ix_name).                                               *)
(*****************************************************************************)
EXTENDS Layouts

read_trade_shareholders ==
    FewIfAny("shareholders", 34, 64)

read_trade_event_extensions ==
    Try(U64s(<<"buyback_fee_basis_points", "buyback_fee">>)) \o read_trade_shareholders
    \o Try(Keys(<<"quote_mint">>)
           \o U64s(<<"quote_amount", "virtual_quote_reserves", "real_quote_reserves",
                     "holder_rewards_bps", "holder_rewards">>))

\* The event a trade becomes.
TradeKind(t) ==
    CASE t = 1 -> "PumpFunBuy" [] t = 2 -> "PumpFunSell"
      [] t = 3 -> "PumpFunBuyExactSolIn" [] OTHER -> "PumpFunTrade"

\* The complete historical layouts after the three strings; the bytes that must
\* be 0 or 1 are read as flags below.
valid_create_event_body ==
    Rest({96, 201, 202, 234, 242, 250, 251, 252})

parse_trade_event_optimized ==
    ByField("ix_name", TradeKind,
        Min(266) \o Raw(Keys(<<"mint">>) \o U64s(<<"sol_amount", "token_amount">>)
            \o U8s(<<"is_buy">>)
            \o Keys(<<"user">>)
            \o U64s(<<"timestamp", "virtual_sol_reserves", "virtual_token_reserves",
                      "real_sol_reserves", "real_token_reserves">>)
            \o Keys(<<"fee_recipient">>) \o U64s(<<"fee_basis_points", "fee">>)
            \o Keys(<<"creator">>) \o U64s(<<"creator_fee_basis_points", "creator_fee">>))
        \o Opt(U8s(<<"track_volume">>)
               \o U64s(<<"total_unclaimed_tokens", "total_claimed_tokens", "current_sol_volume",
                         "last_update_timestamp">>))
        \o Try(Strs(<<"ix_name">>))
        \o Opt(U8s(<<"mayhem_mode">>) \o U64s(<<"cashback_fee_basis_points", "cashback">>))
        \o read_trade_event_extensions \o Try(U64s(<<"creator_fee_unclaimed">>)))

parse_trade_from_data ==
    ByField("ix_name", TradeKind,
        Min(266) \o Raw(Keys(<<"mint">>) \o U64s(<<"sol_amount", "token_amount">>)
            \o U8s(<<"is_buy">>)
            \o Keys(<<"user">>)
            \o U64s(<<"timestamp", "virtual_sol_reserves", "virtual_token_reserves",
                      "real_sol_reserves", "real_token_reserves">>)
            \o Keys(<<"fee_recipient">>) \o U64s(<<"fee_basis_points", "fee">>)
            \o Keys(<<"creator">>) \o U64s(<<"creator_fee_basis_points", "creator_fee">>))
        \o Opt(U8s(<<"track_volume">>)
               \o U64s(<<"total_unclaimed_tokens", "total_claimed_tokens", "current_sol_volume",
                         "last_update_timestamp">>))
        \o Try(Strs(<<"ix_name">>))
        \o Opt(U8s(<<"mayhem_mode">>) \o U64s(<<"cashback_fee_basis_points", "cashback">>))
        \o read_trade_event_extensions \o Try(U64s(<<"creator_fee_unclaimed">>)))

parse_buy_from_data ==
    OnlyEvent("PumpFunBuy", parse_trade_from_data)

parse_sell_from_data ==
    OnlyEvent("PumpFunSell", parse_trade_from_data)

parse_buy_exact_sol_in_from_data ==
    OnlyEvent("PumpFunBuyExactSolIn", parse_trade_from_data)

parse_pumpfun_trade ==
    parse_trade_from_data

parse_create_event_optimized ==
    Decoder("PumpFunCreate", Strs(<<"name", "symbol", "uri">>) \o valid_create_event_body
        \o Raw(Keys(<<"mint", "bonding_curve", "user">>))
        \o Last(Raw(Keys(<<"creator">>)
            \o U64s(<<"timestamp", "virtual_token_reserves", "virtual_sol_reserves",
                      "real_token_reserves", "token_total_supply">>)
            \o Keys(<<"token_program">>)) \o Flags(<<"is_mayhem_mode">>))
        \o Last(Flags(<<"is_cashback_enabled">>)) \o Last(Keys(<<"quote_mint">>))
        \o Last(U64s(<<"virtual_quote_reserves">>)) \o Last(U64s(<<"creator_fee_bps">>))
        \o Last(Flags(<<"is_holder_reward">>)) \o Last(U8s(<<"depth">>)))

parse_create_from_data ==
    Decoder("PumpFunCreate", Strs(<<"name", "symbol", "uri">>) \o valid_create_event_body
        \o Raw(Keys(<<"mint", "bonding_curve", "user">>))
        \o Last(Raw(Keys(<<"creator">>)
            \o U64s(<<"timestamp", "virtual_token_reserves", "virtual_sol_reserves",
                      "real_token_reserves", "token_total_supply">>)
            \o Keys(<<"token_program">>)) \o Flags(<<"is_mayhem_mode">>))
        \o Last(Flags(<<"is_cashback_enabled">>)) \o Last(Keys(<<"quote_mint">>))
        \o Last(U64s(<<"virtual_quote_reserves">>)) \o Last(U64s(<<"creator_fee_bps">>))
        \o Last(Flags(<<"is_holder_reward">>)) \o Last(U8s(<<"depth">>)))

parse_migrate_event_optimized ==
    Decoder("PumpFunMigrate", Min(160) \o Raw(Keys(<<"user", "mint">>)
            \o U64s(<<"mint_amount", "sol_amount", "pool_migration_fee">>)
            \o Keys(<<"bonding_curve">>) \o U64s(<<"timestamp">>) \o Keys(<<"pool">>)))

parse_migrate_from_data ==
    Decoder("PumpFunMigrate", Min(160) \o Raw(Keys(<<"user", "mint">>)
            \o U64s(<<"mint_amount", "sol_amount", "pool_migration_fee">>)
            \o Keys(<<"bonding_curve">>) \o U64s(<<"timestamp">>) \o Keys(<<"pool">>)))

parse_migrate_bonding_curve_creator_from_data ==
    Decoder("PumpFunMigrateBondingCurveCreator", Min(168) \o Raw(U64s(<<"timestamp">>)
            \o Keys(<<"mint", "bonding_curve", "sharing_config", "old_creator", "new_creator">>)))

parse_migrate_bonding_curve_creator_event_optimized ==
    parse_migrate_bonding_curve_creator_from_data

\* The discriminator of a log line selects the decoder.  The fee sharing
\* configuration is decoded by PumpSwapLogs.
parse_log ==
    "1b72a94ddeeb6376" :> parse_create_event_optimized
    @@ "bddb7fd34ee661ee" :> parse_trade_event_optimized
    @@ "bde95db95c94ea94" :> parse_migrate_event_optimized
    @@ "9ba768dcd56cf303" :> parse_migrate_bonding_curve_creator_event_optimized

PostCompleteBuy ==
    Decoder("PumpFunPostCompleteBuy", Exact(224)
        \o Keys(<<"user", "mint", "bonding_curve", "quote_mint">>)
        \o U64s(<<"timestamp", "base_out", "quote_in", "fee_basis_points", "fee",
                  "creator_fee_basis_points", "creator_fee", "buyback_fee",
                  "pool_base_reserves_before", "pool_quote_reserves_before",
                  "pool_base_reserves_after", "pool_quote_reserves_after">>))

SweepBondingCurveFee ==
    Decoder("PumpFunSweepBondingCurveFee", Exact(145) \o U64s(<<"timestamp">>)
        \o Keys(<<"mint", "bonding_curve", "quote_mint", "recipient">>)
        \o U64s(<<"amount">>) \o U8s(<<"bucket">>))

Complete ==
    Decoder("PumpFunComplete", Rest({104, 136}) \o Keys(<<"user", "mint", "bonding_curve">>)
        \o U64s(<<"timestamp">>) \o Last(Keys(<<"quote_mint">>)))

SweepPoolFee ==
    Decoder("PumpSwapSweepPoolFee", Exact(177) \o U64s(<<"timestamp">>)
        \o Keys(<<"pool", "base_mint", "quote_mint", "recipient", "payer">>)
        \o U64s(<<"amount">>) \o U8s(<<"bucket">>))

\* The upgrade's decoder for a discriminator, under the program that emitted it
\* (or under no program, when the caller does not know it).
event_type(disc, program) ==
    CASE program \in {"none", "pump"} /\ disc = "6fb06d8b316cd5fb" -> PostCompleteBuy
      [] program \in {"none", "pump"} /\ disc = "742b4dbd117a482b" -> SweepBondingCurveFee
      [] program \in {"none", "pump"} /\ disc = "5f72619cd42e9808" -> Complete
      [] program \in {"none", "pumpswap"} /\ disc = "82a42461e48287a5" -> SweepPoolFee
      [] OTHER -> Unknown

parse_trade_event_inner_borsh ==
    parse_trade_from_data

parse_trade_event_inner_zero_copy ==
    ByField("ix_name", TradeKind,
        Min(266) \o Raw(Keys(<<"mint">>) \o U64s(<<"sol_amount", "token_amount">>)
            \o U8s(<<"is_buy">>)
            \o Keys(<<"user">>)
            \o U64s(<<"timestamp", "virtual_sol_reserves", "virtual_token_reserves",
                      "real_sol_reserves", "real_token_reserves">>)
            \o Keys(<<"fee_recipient">>) \o U64s(<<"fee_basis_points", "fee">>)
            \o Keys(<<"creator">>) \o U64s(<<"creator_fee_basis_points", "creator_fee">>))
        \o Opt(U8s(<<"track_volume">>)
               \o U64s(<<"total_unclaimed_tokens", "total_claimed_tokens", "current_sol_volume",
                         "last_update_timestamp">>))
        \o Try(Strs(<<"ix_name">>))
        \o Opt(U8s(<<"mayhem_mode">>) \o U64s(<<"cashback_fee_basis_points", "cashback">>))
        \o read_trade_event_extensions \o Try(U64s(<<"creator_fee_unclaimed">>)))

parse_create_event_fields ==
    Decoder("PumpFunCreate", Strs(<<"name", "symbol", "uri">>) \o valid_create_event_body
        \o Keys(<<"mint", "bonding_curve", "user">>)
        \o Last(Keys(<<"creator">>)
            \o U64s(<<"timestamp", "virtual_token_reserves", "virtual_sol_reserves",
                      "real_token_reserves", "token_total_supply">>)
            \o Keys(<<"token_program">>) \o Flags(<<"is_mayhem_mode">>))
        \o Last(Flags(<<"is_cashback_enabled">>)) \o Last(Keys(<<"quote_mint">>))
        \o Last(U64s(<<"virtual_quote_reserves">>)) \o Last(U64s(<<"creator_fee_bps">>))
        \o Last(Flags(<<"is_holder_reward">>)) \o Last(U8s(<<"depth">>)))

parse_create_event_inner_compatible ==
    parse_create_event_fields

parse_create_event_inner_zero_copy ==
    Decoder("PumpFunCreate", Strs(<<"name", "symbol", "uri">>) \o valid_create_event_body
        \o Raw(Keys(<<"mint", "bonding_curve", "user">>))
        \o Last(Raw(Keys(<<"creator">>)
            \o U64s(<<"timestamp", "virtual_token_reserves", "virtual_sol_reserves",
                      "real_token_reserves", "token_total_supply">>)
            \o Keys(<<"token_program">>)) \o Flags(<<"is_mayhem_mode">>))
        \o Last(Flags(<<"is_cashback_enabled">>)) \o Last(Keys(<<"quote_mint">>))
        \o Last(U64s(<<"virtual_quote_reserves">>)) \o Last(U64s(<<"creator_fee_bps">>))
        \o Last(Flags(<<"is_holder_reward">>)) \o Last(U8s(<<"depth">>)))

parse_migrate_event_inner_borsh ==
    Decoder("PumpFunMigrate", Min(160) \o Keys(<<"user", "mint">>)
            \o U64s(<<"mint_amount", "sol_amount", "pool_migration_fee">>)
            \o Keys(<<"bonding_curve">>) \o U64s(<<"timestamp">>) \o Keys(<<"pool">>))

parse_migrate_event_inner_zero_copy ==
    Decoder("PumpFunMigrate", Min(160) \o Raw(Keys(<<"user", "mint">>)
            \o U64s(<<"mint_amount", "sol_amount", "pool_migration_fee">>)
            \o Keys(<<"bonding_curve">>) \o U64s(<<"timestamp">>) \o Keys(<<"pool">>)))

parse_trade_event_inner(feature) ==
    IF feature = "parse-borsh" THEN parse_trade_event_inner_borsh
    ELSE parse_trade_event_inner_zero_copy

parse_create_event_inner(feature) ==
    IF feature = "parse-borsh" THEN parse_create_event_inner_compatible
    ELSE parse_create_event_inner_zero_copy

parse_migrate_event_inner(feature) ==
    IF feature = "parse-borsh" THEN parse_migrate_event_inner_borsh
    ELSE parse_migrate_event_inner_zero_copy

\* An event CPI names its event after the anchor tag ("anchor") or before the
\* historical suffix ("suffix"); a migration is only known in the latter form.
parse_pumpfun_inner_instruction(disc, form, feature) ==
    IF event_type(disc, "pump") # Unknown THEN event_type(disc, "pump")
    ELSE CASE disc = "bddb7fd34ee661ee" -> parse_trade_event_inner(feature)
           [] disc = "1b72a94ddeeb6376" -> parse_create_event_inner(feature)
           [] disc = "bde95db95c94ea94" /\ form = "suffix" -> parse_migrate_event_inner(feature)
           [] OTHER -> Unknown
==============================================================================
