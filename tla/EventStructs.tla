----------------------------- MODULE EventStructs -----------------------------
(*****************************************************************************)
(* The event structs (core/events/types.rs), without their metadata.         *)
(*****************************************************************************)
EXTENDS Layouts

\* A struct has the fields that BorshDeserialize reads, in wire order, and the ones
\* it skips (borsh(skip)); a struct that does not derive it has only the latter.
Struct(wire, skipped) ==
    [wire |-> wire, fields |-> {wire[i].name : i \in DOMAIN wire}
        \cup {skipped[i] : i \in DOMAIN skipped}]

Fields(names) == Struct(<<>>, names)

\* borsh::from_slice of the first w bytes of a body that has at least as many: the
\* struct must fill them exactly.
FromSlice(event, w, struct) == Decoder(event, Min(w) \o struct.wire \o Filled(w))

RaydiumLaunchlabPoolCreateEvent ==
    Fields(<<"base_mint_param", "pool_state", "payer", "creator", "global_config",
             "platform_config", "base_mint", "quote_mint", "base_vault", "quote_vault",
             "base_token_program", "quote_token_program">>)

RaydiumLaunchlabTradeEvent ==
    Struct(Keys(<<"pool_state", "user">>) \o U64s(<<"amount_in", "amount_out">>)
           \o Flags(<<"is_buy">>),
           <<"third_program", "total_base_sell", "virtual_base", "virtual_quote",
             "real_base_before", "real_quote_before", "real_base_after",
             "real_quote_after", "protocol_fee", "platform_fee", "creator_fee",
             "share_fee", "trade_direction", "pool_status", "exact_in", "global_config",
             "platform_config", "user_base_token", "user_quote_token", "base_vault",
             "quote_vault", "base_mint", "quote_mint", "base_token_program",
             "quote_token_program", "system_program", "platform_associated_account",
             "creator_associated_account">>)

RaydiumLaunchlabMigrateAmmEvent ==
    Fields(<<"old_pool", "new_pool", "user", "liquidity_amount", "liquidity_amount_known",
             "base_mint", "quote_mint", "platform_config", "destination_program">>)

PumpFunTradeEvent ==
    Struct(Keys(<<"mint">>) \o U64s(<<"sol_amount", "token_amount">>)
           \o Flags(<<"is_buy">>) \o Keys(<<"user">>)
           \o U64s(<<"timestamp", "virtual_sol_reserves",
                 "virtual_token_reserves", "real_sol_reserves", "real_token_reserves">>)
           \o Keys(<<"fee_recipient">>) \o U64s(<<"fee_basis_points", "fee">>)
           \o Keys(<<"creator">>)
           \o U64s(<<"creator_fee_basis_points", "creator_fee">>)
           \o Flags(<<"track_volume">>)
           \o U64s(<<"total_unclaimed_tokens", "total_claimed_tokens",
                 "current_sol_volume", "last_update_timestamp">>)
           \o Strs(<<"ix_name">>) \o Flags(<<"mayhem_mode">>)
           \o U64s(<<"cashback_fee_basis_points", "cashback",
                 "buyback_fee_basis_points", "buyback_fee">>)
           \o Vec("shareholders", 34) \o Keys(<<"quote_mint">>)
           \o U64s(<<"quote_amount", "virtual_quote_reserves",
                 "real_quote_reserves", "holder_rewards_bps", "holder_rewards">>),
           <<"third_program", "creator_fee_unclaimed", "is_created_buy",
             "is_cashback_coin", "amount", "max_sol_cost", "min_sol_output",
             "spendable_sol_in", "spendable_quote_in", "min_tokens_out", "global",
             "bonding_curve", "bonding_curve_v2", "associated_bonding_curve",
             "associated_user", "system_program", "token_program", "quote_token_program",
             "associated_token_program", "creator_vault", "associated_quote_fee_recipient",
             "buyback_fee_recipient", "associated_quote_buyback_fee_recipient",
             "associated_quote_bonding_curve", "associated_quote_user",
             "associated_creator_vault", "sharing_config", "event_authority", "program",
             "global_volume_accumulator", "user_volume_accumulator",
             "associated_user_volume_accumulator", "fee_config", "fee_program", "account">>)

PumpFunMigrateEvent ==
    Struct(Keys(<<"user", "mint">>)
           \o U64s(<<"mint_amount", "sol_amount", "pool_migration_fee">>)
           \o Keys(<<"bonding_curve">>) \o U64s(<<"timestamp">>) \o Keys(<<"pool">>),
           <<>>)

PumpFeesCreateFeeSharingConfigEvent ==
    Fields(<<"timestamp", "mint", "bonding_curve", "pool", "sharing_config", "admin",
             "initial_shareholders", "status">>)

PumpFeesInitializeFeeConfigEvent ==
    Fields(<<"timestamp", "admin", "fee_config">>)

PumpFeesResetFeeSharingConfigEvent ==
    Fields(<<"timestamp", "mint", "sharing_config", "old_admin", "old_shareholders",
             "new_admin", "new_shareholders">>)

PumpFeesRevokeFeeSharingAuthorityEvent ==
    Fields(<<"timestamp", "mint", "sharing_config", "admin">>)

PumpFeesTransferFeeSharingAuthorityEvent ==
    Fields(<<"timestamp", "mint", "sharing_config", "old_admin", "new_admin">>)

PumpFeesUpdateAdminEvent ==
    Fields(<<"timestamp", "old_admin", "new_admin">>)

PumpFeesUpdateFeeConfigEvent ==
    Fields(<<"timestamp", "admin", "fee_config", "fee_tiers", "flat_fees">>)

PumpFeesUpdateFeeSharesEvent ==
    Fields(<<"timestamp", "mint", "sharing_config", "admin", "bonding_curve",
             "pump_creator_vault", "new_shareholders">>)

PumpFeesUpsertFeeTiersEvent ==
    Fields(<<"timestamp", "admin", "fee_config", "fee_tiers", "offset">>)

PumpFunMigrateBondingCurveCreatorEvent ==
    Fields(<<"timestamp", "mint", "bonding_curve", "sharing_config", "old_creator",
             "new_creator">>)

PumpFunCreateTokenEvent ==
    Struct(Strs(<<"name", "symbol", "uri">>)
           \o Keys(<<"mint", "bonding_curve", "user", "creator">>)
           \o U64s(<<"timestamp", "virtual_token_reserves",
                 "virtual_sol_reserves", "real_token_reserves", "token_total_supply">>)
           \o Keys(<<"token_program">>)
           \o Flags(<<"is_mayhem_mode", "is_cashback_enabled">>)
           \o Keys(<<"quote_mint">>)
           \o U64s(<<"virtual_quote_reserves", "creator_fee_bps">>)
           \o Flags(<<"is_holder_reward">>),
           <<"alt_addresses", "transaction_version", "depth", "quote_vault",
             "quote_token_program", "ix_name", "mint_authority",
             "associated_bonding_curve", "global", "system_program",
             "associated_token_program", "mayhem_program_id", "global_params", "sol_vault",
             "mayhem_state", "mayhem_token_vault", "event_authority", "program",
             "observed_fee_recipient">>)

PumpFunCreateV2TokenEvent ==
    Struct(Strs(<<"name", "symbol", "uri">>)
           \o Keys(<<"mint", "bonding_curve", "user", "creator">>)
           \o U64s(<<"timestamp", "virtual_token_reserves",
                 "virtual_sol_reserves", "real_token_reserves", "token_total_supply">>)
           \o Keys(<<"token_program">>)
           \o Flags(<<"is_mayhem_mode", "is_cashback_enabled">>)
           \o U64s(<<"creator_fee_bps">>) \o Flags(<<"is_holder_reward">>),
           <<"alt_addresses", "transaction_version", "quote_mint", "quote_vault",
             "quote_token_program", "virtual_quote_reserves", "ix_name", "mint_authority",
             "associated_bonding_curve", "global", "system_program",
             "associated_token_program", "mayhem_program_id", "global_params", "sol_vault",
             "mayhem_state", "mayhem_token_vault", "event_authority", "program",
             "observed_fee_recipient">>)

PumpSwapTradeEvent ==
    Fields(<<"third_program", "mint", "sol_amount", "token_amount", "is_buy", "user",
             "timestamp", "virtual_sol_reserves", "virtual_token_reserves",
             "real_sol_reserves", "real_token_reserves", "fee_recipient",
             "fee_basis_points", "fee", "creator", "creator_fee_basis_points",
             "creator_fee", "track_volume", "total_unclaimed_tokens",
             "total_claimed_tokens", "current_sol_volume", "last_update_timestamp",
             "ix_name">>)

PumpSwapBuyEvent ==
    Struct(U64s(<<"timestamp", "base_amount_out", "max_quote_amount_in",
                 "user_base_token_reserves", "user_quote_token_reserves",
                 "pool_base_token_reserves", "pool_quote_token_reserves",
                 "quote_amount_in", "lp_fee_basis_points", "lp_fee",
                 "protocol_fee_basis_points", "protocol_fee",
                 "quote_amount_in_with_lp_fee", "user_quote_amount_in">>)
           \o Keys(<<"pool", "user", "user_base_token_account",
                 "user_quote_token_account", "protocol_fee_recipient",
                 "protocol_fee_recipient_token_account", "coin_creator">>)
           \o U64s(<<"coin_creator_fee_basis_points", "coin_creator_fee">>)
           \o Flags(<<"track_volume">>)
           \o U64s(<<"total_unclaimed_tokens", "total_claimed_tokens",
                 "current_sol_volume", "last_update_timestamp", "min_base_amount_out">>)
           \o Strs(<<"ix_name">>)
           \o U64s(<<"cashback_fee_basis_points", "cashback",
                 "buyback_fee_basis_points", "buyback_fee">>)
           \o U128s(<<"virtual_quote_reserves">>) \o Flags(<<"can_boost">>)
           \o U64s(<<"base_supply", "holder_rewards_bps", "holder_rewards">>),
           <<"third_program", "creator_fee_unclaimed", "is_pump_pool", "base_mint",
             "quote_mint", "pool_base_token_account", "pool_quote_token_account",
             "coin_creator_vault_ata", "coin_creator_vault_authority",
             "base_token_program", "quote_token_program", "pool_v2", "fee_recipient",
             "fee_recipient_quote_token_account">>)

PumpSwapSellEvent ==
    Struct(U64s(<<"timestamp", "base_amount_in", "min_quote_amount_out",
                 "user_base_token_reserves", "user_quote_token_reserves",
                 "pool_base_token_reserves", "pool_quote_token_reserves",
                 "quote_amount_out", "lp_fee_basis_points", "lp_fee",
                 "protocol_fee_basis_points", "protocol_fee",
                 "quote_amount_out_without_lp_fee", "user_quote_amount_out">>)
           \o Keys(<<"pool", "user", "user_base_token_account",
                 "user_quote_token_account", "protocol_fee_recipient",
                 "protocol_fee_recipient_token_account", "coin_creator">>)
           \o U64s(<<"coin_creator_fee_basis_points", "coin_creator_fee",
                 "cashback_fee_basis_points", "cashback",
                 "buyback_fee_basis_points", "buyback_fee">>)
           \o U128s(<<"virtual_quote_reserves">>) \o Flags(<<"can_boost">>)
           \o U64s(<<"base_supply", "holder_rewards_bps", "holder_rewards">>),
           <<"third_program", "creator_fee_unclaimed", "is_pump_pool", "base_mint",
             "quote_mint", "pool_base_token_account", "pool_quote_token_account",
             "coin_creator_vault_ata", "coin_creator_vault_authority",
             "base_token_program", "quote_token_program", "pool_v2", "fee_recipient",
             "fee_recipient_quote_token_account">>)

PumpSwapCreatePoolEvent ==
    Fields(<<"timestamp", "index", "creator", "base_mint", "quote_mint",
             "base_mint_decimals", "quote_mint_decimals", "base_amount_in",
             "quote_amount_in", "pool_base_amount", "pool_quote_amount",
             "minimum_liquidity", "initial_liquidity", "lp_token_amount_out", "pool_bump",
             "pool", "lp_mint", "user_base_token_account", "user_quote_token_account",
             "coin_creator", "is_mayhem_mode", "is_cashback_coin", "creator_fee_bps",
             "can_edit_creator_fee", "is_holder_reward">>)

PumpSwapPoolCreated ==
    Fields(<<"pool_account", "token_a_mint", "token_b_mint", "token_a_vault",
             "token_b_vault", "lp_mint", "creator", "authority", "initial_token_a_amount",
             "initial_token_b_amount">>)

PumpSwapLiquidityAdded ==
    Fields(<<"timestamp", "lp_token_amount_out", "max_base_amount_in",
             "max_quote_amount_in", "user_base_token_reserves",
             "user_quote_token_reserves", "pool_base_token_reserves",
             "pool_quote_token_reserves", "base_amount_in", "quote_amount_in",
             "lp_mint_supply", "pool", "user", "user_base_token_account",
             "user_quote_token_account", "user_pool_token_account">>)

PumpSwapLiquidityRemoved ==
    Fields(<<"timestamp", "lp_token_amount_in", "min_base_amount_out",
             "min_quote_amount_out", "user_base_token_reserves",
             "user_quote_token_reserves", "pool_base_token_reserves",
             "pool_quote_token_reserves", "base_amount_out", "quote_amount_out",
             "lp_mint_supply", "pool", "user", "user_base_token_account",
             "user_quote_token_account", "user_pool_token_account">>)

PumpSwapPoolUpdated ==
    Fields(<<"pool_account", "authority", "admin", "new_fee_rate">>)

PumpSwapFeesClaimed ==
    Fields(<<"pool_account", "authority", "admin", "admin_token_a_account",
             "admin_token_b_account", "pool_fee_vault">>)

PumpSwapDepositEvent ==
    Fields(<<"pool", "user", "amount">>)

PumpSwapWithdrawEvent ==
    Fields(<<"pool", "user", "amount">>)

RaydiumCpmmSwapEvent ==
    Struct(Keys(<<"pool_id">>) \o U64s(<<"input_amount", "output_amount">>),
           <<"third_program", "input_vault_before", "output_vault_before",
             "input_transfer_fee", "output_transfer_fee", "base_input", "amm_config",
             "input_vault", "output_vault", "input_token_program", "output_token_program",
             "input_token_mint", "output_token_mint", "observation_state", "ix_name",
             "amount_in", "minimum_amount_out", "max_amount_in", "amount_out", "payer",
             "authority", "input_token_account", "output_token_account", "input_mint",
             "output_mint", "trade_fee", "creator_fee", "creator_fee_on_input">>)

RaydiumCpmmLpChangeEvent ==
    Fields(<<"pool_id", "lp_amount_before", "token_0_vault_before", "token_1_vault_before",
             "token_0_amount", "token_1_amount", "token_0_transfer_fee",
             "token_1_transfer_fee", "change_type">>)

RaydiumCpmmDepositEvent ==
    Struct(Keys(<<"pool">>)
           \o U64s(<<"token0_amount", "token1_amount", "lp_token_amount">>),
           <<"user">>)

RaydiumCpmmInitializeEvent ==
    Fields(<<"pool", "creator", "init_amount0", "init_amount1">>)

RaydiumCpmmWithdrawEvent ==
    Struct(Keys(<<"pool">>)
           \o U64s(<<"lp_token_amount", "token0_amount", "token1_amount">>),
           <<"user">>)

RaydiumClmmSwapEvent ==
    Struct(Keys(<<"pool_state", "sender", "token_account_0", "token_account_1">>)
           \o U64s(<<"amount_0", "transfer_fee_0", "amount_1", "transfer_fee_1">>)
           \o Flags(<<"zero_for_one">>) \o U128s(<<"sqrt_price_x64", "liquidity">>)
           \o U32s(<<"tick">>),
           <<"third_program", "amm_config", "input_vault", "output_vault",
             "observation_state", "input_mint", "output_mint",
             "tick_array_bitmap_extension", "tick_arrays", "ix_name", "amount",
             "other_amount_threshold", "sqrt_price_limit_x64", "is_base_input">>)

RaydiumClmmClosePositionEvent ==
    Fields(<<"pool", "user", "position_nft_mint">>)

RaydiumClmmDecreaseLiquidityEvent ==
    Struct(Keys(<<"position_nft_mint">>) \o U128s(<<"liquidity">>)
           \o U64s(<<"decrease_amount_0", "decrease_amount_1", "fee_amount_0",
                 "fee_amount_1">>)
           \o Bytes("reward_amounts", 24)
           \o U64s(<<"transfer_fee_0", "transfer_fee_1">>),
           <<"pool", "amount0_min", "amount1_min", "user">>)

RaydiumClmmCollectFeeEvent ==
    Fields(<<"pool_state", "position_nft_mint", "recipient_token_account_0",
             "recipient_token_account_1", "amount_0", "amount_1">>)

RaydiumClmmCreatePoolEvent ==
    Struct(Keys(<<"token_0_mint", "token_1_mint">>) \o U16s(<<"tick_spacing">>)
           \o Keys(<<"pool">>) \o U128s(<<"sqrt_price_x64">>) \o U32s(<<"tick">>)
           \o Keys(<<"token_vault_0", "token_vault_1">>),
           <<"fee_rate", "creator", "open_time">>)

RaydiumClmmIncreaseLiquidityEvent ==
    Struct(Keys(<<"position_nft_mint">>) \o U128s(<<"liquidity">>)
           \o U64s(<<"amount_0", "amount_1", "amount_0_transfer_fee",
                 "amount_1_transfer_fee">>),
           <<"pool", "amount0_max", "amount1_max", "user">>)

RaydiumClmmLiquidityChangeEvent ==
    Struct(Keys(<<"pool_state">>) \o U32s(<<"tick", "tick_lower", "tick_upper">>)
           \o U128s(<<"liquidity_before", "liquidity_after">>),
           <<>>)

RaydiumClmmConfigChangeEvent ==
    Struct(U16s(<<"index">>) \o Keys(<<"owner">>)
           \o U32s(<<"protocol_fee_rate", "trade_fee_rate">>)
           \o U16s(<<"tick_spacing">>) \o U32s(<<"fund_fee_rate">>)
           \o Keys(<<"fund_owner">>),
           <<>>)

RaydiumClmmCreatePersonalPositionEvent ==
    Struct(Keys(<<"pool_state", "minter", "nft_owner">>)
           \o U32s(<<"tick_lower_index", "tick_upper_index">>)
           \o U128s(<<"liquidity">>)
           \o U64s(<<"deposit_amount_0", "deposit_amount_1",
                 "deposit_amount_0_transfer_fee", "deposit_amount_1_transfer_fee">>),
           <<>>)

RaydiumClmmLiquidityCalculateEvent ==
    Struct(U128s(<<"pool_liquidity", "pool_sqrt_price_x64">>)
           \o U32s(<<"pool_tick">>)
           \o U64s(<<"calc_amount_0", "calc_amount_1", "trade_fee_owed_0",
                 "trade_fee_owed_1", "transfer_fee_0", "transfer_fee_1">>),
           <<>>)

RaydiumClmmOpenLimitOrderEvent ==
    Struct(Keys(<<"pool_id", "limit_order">>) \o Flags(<<"zero_for_one">>)
           \o U32s(<<"tick_index">>) \o U64s(<<"total_amount", "transfer_fee">>),
           <<>>)

RaydiumClmmIncreaseLimitOrderEvent ==
    Struct(Keys(<<"pool_id", "limit_order">>) \o Flags(<<"zero_for_one">>)
           \o U32s(<<"tick_index">>)
           \o U64s(<<"total_amount", "increased_amount", "transfer_fee">>),
           <<>>)

RaydiumClmmDecreaseLimitOrderEvent ==
    Struct(Keys(<<"pool_id", "limit_order">>) \o Flags(<<"zero_for_one">>)
           \o U32s(<<"tick_index">>)
           \o U64s(<<"total_amount", "filled_amount", "settled_output_amount",
                 "decreased_amount">>),
           <<>>)

RaydiumClmmSettleLimitOrderEvent ==
    Struct(Keys(<<"pool_id", "limit_order">>) \o Flags(<<"zero_for_one">>)
           \o U32s(<<"tick_index">>)
           \o U64s(<<"total_amount", "filled_amount", "settled_amount_out">>),
           <<>>)

RaydiumClmmUpdateRewardInfosEvent ==
    Struct(Bytes("reward_growth_global_x64", 48),
           <<>>)

RaydiumClmmOpenPositionWithTokenExtNftEvent ==
    Fields(<<"pool", "user", "position_nft_mint", "tick_lower_index", "tick_upper_index",
             "liquidity">>)

RaydiumClmmOpenPositionEvent ==
    Fields(<<"pool", "user", "position_nft_mint", "tick_lower_index", "tick_upper_index",
             "liquidity">>)

RaydiumAmmDepositEvent ==
    Fields(<<"amm_id", "user", "max_coin_amount", "max_pc_amount">>)

RaydiumAmmInitializeAltEvent ==
    Fields(<<"amm_id", "creator", "nonce", "open_time">>)

RaydiumAmmWithdrawEvent ==
    Fields(<<"amm_id", "user", "pool_coin_amount">>)

RaydiumAmmWithdrawPnlEvent ==
    Fields(<<"amm_id", "user">>)

RaydiumAmmV4SwapEvent ==
    Struct(Keys(<<"amm">>) \o U64s(<<"amount_in", "amount_out">>),
           <<"third_program", "minimum_amount_out", "max_amount_in", "token_program",
             "amm_authority", "amm_open_orders", "amm_target_orders",
             "pool_coin_token_account", "pool_pc_token_account", "serum_program",
             "serum_market", "serum_bids", "serum_asks", "serum_event_queue",
             "serum_coin_vault_account", "serum_pc_vault_account", "serum_vault_signer",
             "user_source_token_account", "user_destination_token_account",
             "user_source_owner", "ix_name", "instruction_amount_in",
             "instruction_amount_out">>)

RaydiumAmmV4DepositEvent ==
    Struct(Keys(<<"amm">>) \o U64s(<<"max_coin_amount", "max_pc_amount">>),
           <<"base_side", "token_program", "amm_authority", "amm_open_orders",
             "amm_target_orders", "lp_mint_address", "pool_coin_token_account",
             "pool_pc_token_account", "serum_market", "user_coin_token_account",
             "user_pc_token_account", "user_lp_token_account", "user_owner",
             "serum_event_queue">>)

RaydiumAmmV4Initialize2Event ==
    Fields(<<"nonce", "open_time", "init_pc_amount", "init_coin_amount", "token_program",
             "spl_associated_token_account", "system_program", "rent", "amm",
             "amm_authority", "amm_open_orders", "lp_mint", "coin_mint", "pc_mint",
             "pool_coin_token_account", "pool_pc_token_account", "pool_withdraw_queue",
             "amm_target_orders", "pool_temp_lp", "serum_program", "serum_market",
             "user_wallet", "user_token_coin", "user_token_pc", "user_lp_token_account">>)

RaydiumAmmV4WithdrawEvent ==
    Struct(Keys(<<"amm">>) \o U64s(<<"amount">>),
           <<"token_program", "amm_authority", "amm_open_orders", "amm_target_orders",
             "lp_mint_address", "pool_coin_token_account", "pool_pc_token_account",
             "pool_withdraw_queue", "pool_temp_lp_token_account", "serum_program",
             "serum_market", "serum_coin_vault_account", "serum_pc_vault_account",
             "serum_vault_signer", "user_lp_token_account", "user_coin_token_account",
             "user_pc_token_account", "user_owner", "serum_event_queue", "serum_bids",
             "serum_asks">>)

RaydiumAmmV4WithdrawPnlEvent ==
    Fields(<<"token_program", "amm", "amm_config", "amm_authority", "amm_open_orders",
             "pool_coin_token_account", "pool_pc_token_account", "coin_pnl_token_account",
             "pc_pnl_token_account", "pnl_owner", "amm_target_orders", "serum_program",
             "serum_market", "serum_event_queue", "serum_coin_vault_account",
             "serum_pc_vault_account", "serum_vault_signer">>)

OrcaWhirlpoolSwapEvent ==
    Struct(Keys(<<"whirlpool">>) \o U64s(<<"input_amount", "output_amount">>)
           \o Flags(<<"a_to_b">>),
           <<"third_program", "pre_sqrt_price", "post_sqrt_price", "input_transfer_fee",
             "output_transfer_fee", "lp_fee", "protocol_fee", "token_program_a",
             "token_program_b", "token_mint_a", "token_mint_b", "token_vault_a",
             "token_vault_b", "tick_array_0", "tick_array_1", "tick_array_2", "oracle",
             "ix_name", "amount", "other_amount_threshold", "sqrt_price_limit",
             "amount_specified_is_input", "token_authority", "token_owner_account_a",
             "token_owner_account_b">>)

OrcaWhirlpoolLiquidityIncreasedEvent ==
    Struct(Keys(<<"whirlpool">>) \o U128s(<<"liquidity">>)
           \o U64s(<<"token_a_amount", "token_b_amount">>),
           <<"position", "tick_lower_index", "tick_upper_index", "token_a_transfer_fee",
             "token_b_transfer_fee">>)

OrcaWhirlpoolLiquidityDecreasedEvent ==
    Struct(Keys(<<"whirlpool">>) \o U128s(<<"liquidity">>)
           \o U64s(<<"token_a_amount", "token_b_amount">>),
           <<"position", "tick_lower_index", "tick_upper_index", "token_a_transfer_fee",
             "token_b_transfer_fee">>)

OrcaWhirlpoolPoolInitializedEvent ==
    Fields(<<"whirlpool", "whirlpools_config", "token_mint_a", "token_mint_b",
             "tick_spacing", "token_program_a", "token_program_b", "decimals_a",
             "decimals_b", "initial_sqrt_price">>)

MeteoraPoolsSwapEvent ==
    Fields(<<"third_program", "in_amount", "out_amount", "trade_fee", "admin_fee",
             "host_fee", "ix_name", "amount_in", "minimum_out_amount", "pool",
             "user_source_token", "user_destination_token", "a_vault", "b_vault",
             "a_token_vault", "b_token_vault", "a_vault_lp_mint", "b_vault_lp_mint",
             "a_vault_lp", "b_vault_lp", "protocol_token_fee", "user", "vault_program",
             "token_program">>)

MeteoraPoolsAddLiquidityEvent ==
    Fields(<<"lp_mint_amount", "token_a_amount", "token_b_amount", "ix_name",
             "pool_token_amount", "maximum_token_a_amount", "maximum_token_b_amount",
             "minimum_pool_token_amount", "token_a_in_amount", "token_b_in_amount", "pool",
             "lp_mint", "user_pool_lp", "a_vault_lp", "b_vault_lp", "a_vault", "b_vault",
             "a_vault_lp_mint", "b_vault_lp_mint", "a_token_vault", "b_token_vault",
             "user_a_token", "user_b_token", "user", "vault_program", "token_program">>)

MeteoraPoolsRemoveLiquidityEvent ==
    Fields(<<"lp_unmint_amount", "token_a_out_amount", "token_b_out_amount", "ix_name",
             "pool_token_amount", "minimum_a_token_out", "minimum_b_token_out", "pool",
             "lp_mint", "user_pool_lp", "a_vault_lp", "b_vault_lp", "a_vault", "b_vault",
             "a_vault_lp_mint", "b_vault_lp_mint", "a_token_vault", "b_token_vault",
             "user_a_token", "user_b_token", "user", "vault_program", "token_program",
             "minimum_out_amount", "user_destination_token">>)

MeteoraPoolsBootstrapLiquidityEvent ==
    Fields(<<"lp_mint_amount", "token_a_amount", "token_b_amount", "pool", "ix_name",
             "token_a_in_amount", "token_b_in_amount", "lp_mint", "user_pool_lp",
             "a_vault_lp", "b_vault_lp", "a_vault", "b_vault", "a_vault_lp_mint",
             "b_vault_lp_mint", "a_token_vault", "b_token_vault", "user_a_token",
             "user_b_token", "user", "vault_program", "token_program">>)

MeteoraPoolsPoolCreatedEvent ==
    Fields(<<"lp_mint", "token_a_mint", "token_b_mint", "pool_type", "pool", "ix_name",
             "token_a_in_amount", "token_b_in_amount", "activation_point", "config",
             "a_vault", "b_vault", "a_token_vault", "b_token_vault", "a_vault_lp_mint",
             "b_vault_lp_mint", "a_vault_lp", "b_vault_lp", "payer_token_a",
             "payer_token_b", "payer_pool_lp", "protocol_token_a_fee",
             "protocol_token_b_fee", "payer", "rent", "mint_metadata", "metadata_program",
             "vault_program", "token_program", "associated_token_program",
             "system_program", "stable_curve", "trade_fee_bps", "customizable_params",
             "admin_token_a", "admin_token_b", "admin_pool_lp", "admin", "fee_owner">>)

MeteoraPoolsSetPoolFeesEvent ==
    Fields(<<"trade_fee_numerator", "trade_fee_denominator", "owner_trade_fee_numerator",
             "owner_trade_fee_denominator", "pool", "ix_name",
             "protocol_trade_fee_numerator", "protocol_trade_fee_denominator",
             "new_partner_fee_numerator", "fee_operator">>)

MeteoraDammV2SwapEvent ==
    Struct(Keys(<<"pool">>) \o U64s(<<"amount_in", "output_amount">>),
           <<"third_program", "trade_direction", "has_referral", "minimum_amount_out",
             "next_sqrt_price", "lp_fee", "protocol_fee", "partner_fee", "referral_fee",
             "actual_amount_in", "current_timestamp", "token_a_vault", "token_b_vault",
             "token_a_mint", "token_b_mint", "token_a_program", "token_b_program">>)

MeteoraDammV2AddLiquidityEvent ==
    Struct(Keys(<<"pool", "position", "owner">>)
           \o U64s(<<"token_a_amount", "token_b_amount">>),
           <<"liquidity_delta", "token_a_amount_threshold", "token_b_amount_threshold",
             "total_amount_a", "total_amount_b">>)

MeteoraDammV2RemoveLiquidityEvent ==
    Struct(Keys(<<"pool", "position", "owner">>)
           \o U64s(<<"token_a_amount", "token_b_amount">>),
           <<"liquidity_delta", "token_a_amount_threshold", "token_b_amount_threshold">>)

MeteoraDammV2InitializePoolEvent ==
    Fields(<<"pool", "token_a_mint", "token_b_mint", "creator", "payer", "position",
             "position_nft_mint", "alpha_vault", "sqrt_min_price", "sqrt_max_price",
             "activation_type", "collect_fee_mode", "liquidity", "sqrt_price",
             "activation_point", "token_a_flag", "token_b_flag", "token_a_amount",
             "token_b_amount", "total_amount_a", "total_amount_b", "pool_type">>)

MeteoraDammV2CreatePositionEvent ==
    Struct(Keys(<<"pool", "owner", "position", "position_nft_mint">>),
           <<>>)

MeteoraDammV2ClosePositionEvent ==
    Struct(Keys(<<"pool", "owner", "position", "position_nft_mint">>),
           <<>>)

MeteoraDammV2ClaimPositionFeeEvent ==
    Fields(<<"pool", "position", "owner", "fee_a_claimed", "fee_b_claimed">>)

MeteoraDammV2InitializeRewardEvent ==
    Fields(<<"pool", "reward_mint", "funder", "creator", "reward_index", "reward_duration">>)

MeteoraDammV2FundRewardEvent ==
    Fields(<<"pool", "funder", "mint_reward", "reward_index", "amount",
             "transfer_fee_excluded_amount_in", "reward_duration_end", "pre_reward_rate",
             "post_reward_rate">>)

MeteoraDammV2ClaimRewardEvent ==
    Fields(<<"pool", "position", "owner", "mint_reward", "reward_index", "total_reward">>)

MeteoraDbcSwapEvent ==
    Fields(<<"third_program", "event_version", "swap_mode", "amount_0", "amount_1",
             "maximum_amount_in", "included_fee_input_amount", "amount_left",
             "quote_reserve_amount", "migration_threshold", "has_transfer_hook", "pool",
             "config", "trade_direction", "has_referral", "amount_in",
             "minimum_amount_out", "actual_input_amount", "output_amount",
             "next_sqrt_price", "trading_fee", "protocol_fee", "referral_fee",
             "current_timestamp">>)

MeteoraDbcInitializePoolEvent ==
    Fields(<<"pool", "config", "creator", "base_mint", "pool_type", "activation_point">>)

MeteoraDbcCurveCompleteEvent ==
    Fields(<<"pool", "config", "base_reserve", "quote_reserve">>)

MeteoraDlmmSwapEvent ==
    Struct(Keys(<<"pool", "from">>) \o U32s(<<"start_bin_id", "end_bin_id">>)
           \o U64s(<<"amount_in", "amount_out">>) \o Flags(<<"swap_for_y">>)
           \o U64s(<<"fee", "protocol_fee">>) \o U128s(<<"fee_bps">>)
           \o U64s(<<"host_fee">>),
           <<"third_program", "token_x_mint", "token_y_mint", "user_token_in",
             "user_token_out", "reserve_x", "reserve_y", "oracle", "token_x_program",
             "token_y_program", "min_amount_out", "bitmap_extension", "bin_arrays",
             "event_version", "amount_left", "mm_fee", "limit_order_fee", "fees_on_input",
             "fees_on_token_x">>)

MeteoraDlmmAddLiquidityEvent ==
    Struct(Keys(<<"pool", "from", "position">>) \o Bytes("amounts", 16)
           \o U32s(<<"active_bin_id">>),
           <<>>)

MeteoraDlmmRemoveLiquidityEvent ==
    Struct(Keys(<<"pool", "from", "position">>) \o Bytes("amounts", 16)
           \o U32s(<<"active_bin_id">>),
           <<>>)

MeteoraDlmmInitializePoolEvent ==
    Struct(Keys(<<"pool", "creator">>) \o U32s(<<"active_bin_id">>)
           \o U16s(<<"bin_step">>),
           <<>>)

MeteoraDlmmInitializeBinArrayEvent ==
    Struct(Keys(<<"pool", "bin_array">>) \o U64s(<<"index">>),
           <<>>)

MeteoraDlmmCreatePositionEvent ==
    Struct(Keys(<<"pool", "position", "owner">>)
           \o U32s(<<"lower_bin_id", "width">>),
           <<>>)

MeteoraDlmmClosePositionEvent ==
    Struct(Keys(<<"pool", "position", "owner">>),
           <<>>)

MeteoraDlmmClaimFeeEvent ==
    Struct(Keys(<<"pool", "position", "owner">>) \o U64s(<<"fee_x", "fee_y">>),
           <<>>)

RaydiumCpmmCollectCreatorFeeEvent ==
    Fields(<<"permissionless", "payer", "creator", "authority", "pool_state", "amm_config",
             "token_0_vault", "token_1_vault", "vault_0_mint", "vault_1_mint",
             "creator_token_0", "creator_token_1", "token_0_program", "token_1_program",
             "associated_token_program", "system_program", "creator_fee_share">>)

PumpFunPostCompleteBuyEvent ==
    Fields(<<"user", "mint", "bonding_curve", "quote_mint", "timestamp", "base_out",
             "quote_in", "fee_basis_points", "fee", "creator_fee_basis_points",
             "creator_fee", "buyback_fee", "pool_base_reserves_before",
             "pool_quote_reserves_before", "pool_base_reserves_after",
             "pool_quote_reserves_after">>)

PumpFunSweepBondingCurveFeeEvent ==
    Fields(<<"timestamp", "mint", "bonding_curve", "quote_mint", "recipient", "amount",
             "bucket">>)

PumpFunCompleteEvent ==
    Fields(<<"user", "mint", "bonding_curve", "timestamp", "quote_mint">>)

PumpSwapSweepPoolFeeEvent ==
    Fields(<<"timestamp", "pool", "base_mint", "quote_mint", "recipient", "payer",
             "amount", "bucket">>)
==============================================================================
