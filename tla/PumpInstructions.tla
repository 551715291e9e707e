--------------------------- MODULE PumpInstructions ---------------------------
(*****************************************************************************)
(* The instruction parsers of Pump.fun, PumpSwap and the fee program         *)
(* (instr/pump.rs, instr/pump_amm.rs, instr/pump_fees.rs): from the data and *)
(* the accounts of one invocation to an event.                               *)
(*****************************************************************************)
EXTENDS Layouts, AccountDispatcher

\* The data of an instruction behind its opcode.
Args(ix, opcode) ==
    [ix.data EXCEPT !.len = @ - opcode, !.odd = IF @ = NoByte THEN @ ELSE @ - opcode]

\* A parser gives no event when an account it needs or the data it reads is missing.
\* Otherwise the event has the fields read from the data besides its accounts.
NoEvent == [type |-> "none"]

WithArgs(e, read) ==
    IF read.status # "event" THEN NoEvent ELSE e @@ ("args" :> read.fields)

ParsedAt(ix, opcode, needs, reads, e) ==
    IF ix.data.len < opcode \/ Len(ix.accounts) < needs THEN NoEvent
    ELSE WithArgs(e, Decode(Args(ix, opcode), Decoder(e.type, reads)))

Parsed(ix, needs, reads, e) == ParsedAt(ix, 8, needs, reads, e)

\* An event whose account fields are taken from these positions.
Placed(type, ix_name, is_buy, accounts, places) ==
    Fill(Event(type, ix_name, is_buy, <<>>), accounts, places)

\* ---- Pump.fun.  The two amounts are read together or not at all.
TradeReads(first, second) == Opt(Bytes(first \o ", " \o second, 16))

parse_buy_instruction(ix, exact_quote_in) ==
    LET e == Placed(IF exact_quote_in THEN "PumpFunBuyExactSolIn" ELSE "PumpFunBuy",
                    ix.name, TRUE, ix.accounts,
                    Fields(0, <<"global", "fee_recipient", "mint", "bonding_curve",
                                "associated_bonding_curve", "associated_user", "user",
                                "system_program", "token_program", "creator_vault",
                                "event_authority", "program", "global_volume_accumulator",
                                "user_volume_accumulator", "fee_config", "fee_program",
                                "bonding_curve_v2", "buyback_fee_recipient">>)
                    @@ ("account" :> 17))
    IN  Parsed(ix, 16,
               (IF exact_quote_in THEN TradeReads("spendable_sol_in", "min_tokens_out")
                                  ELSE TradeReads("amount", "max_sol_cost"))
               \o Opt(U8s(<<"track_volume">>)),
               WithQuoteMint(e, SolQuoteMint))

\* The accounts the v2 layouts of both directions have in common.
V2Common == Fields(0, <<
    "global", "mint", "quote_mint", "token_program", "quote_token_program",
    "associated_token_program", "fee_recipient", "associated_quote_fee_recipient",
    "buyback_fee_recipient", "associated_quote_buyback_fee_recipient", "bonding_curve",
    "associated_bonding_curve", "associated_quote_bonding_curve", "user", "associated_user",
    "associated_quote_user", "creator_vault", "associated_creator_vault", "sharing_config">>)

\* The tail of a legacy sell grew by one account and later by another.
LegacySellTail(count) ==
    CASE count >= 17 -> Fields(14, <<"user_volume_accumulator", "bonding_curve_v2",
                                     "buyback_fee_recipient">>) @@ ("account" :> 16)
      [] count = 16  -> Fields(14, <<"bonding_curve_v2", "buyback_fee_recipient">>)
                        @@ ("account" :> 15)
      [] count < 16  -> "bonding_curve_v2" :> 14

parse_sell_instruction(ix, accounts, v2_accounts) ==
    LET places == IF v2_accounts
            THEN V2Common @@ Fields(19, <<"user_volume_accumulator",
                     "associated_user_volume_accumulator", "fee_config", "fee_program",
                     "system_program", "event_authority", "program">>)
            ELSE Fields(0, <<"global", "fee_recipient", "mint", "bonding_curve",
                     "associated_bonding_curve", "associated_user", "user", "system_program",
                     "creator_vault", "token_program", "event_authority", "program", "fee_config",
                     "fee_program">>) @@ LegacySellTail(Len(accounts))
        quote == IF v2_accounts THEN get(accounts, 2) ELSE Default
    IN  Parsed([ix EXCEPT !.accounts = accounts], IF v2_accounts THEN 26 ELSE 14,
               TradeReads("amount", "min_sol_output"),
               WithQuoteMint(Placed("PumpFunSell", ix.name, FALSE, accounts, places),
                             normalize_pumpfun_quote_mint(quote)))

parse_buy_v2_instruction(ix, accounts, exact_quote_in) ==
    Parsed([ix EXCEPT !.accounts = accounts], 27,
           IF exact_quote_in THEN TradeReads("spendable_quote_in", "min_tokens_out")
                             ELSE TradeReads("amount", "max_sol_cost"),
           WithQuoteMint(
               Placed("PumpFunBuy", ix.name, TRUE, accounts,
                      V2Common @@ Fields(19, <<"global_volume_accumulator",
                          "user_volume_accumulator", "associated_user_volume_accumulator",
                          "fee_config", "fee_program", "system_program", "event_authority",
                          "program">>)),
               normalize_pumpfun_quote_mint(get(accounts, 2))))

\* The seventeen accounts of a v3 trade at the positions of the v2 layout.
MappedV3(accounts, is_sell) ==
    LET last == IF is_sell THEN 19 ELSE 20
        from == [i \in 0 .. 4 |-> i] @@ (8 :> 13) @@ [i \in 10 .. 15 |-> i - 5]
                @@ (last :> 11) @@ (last + 2 :> 12)
                    @@ [i \in last + 4 .. last + 6 |-> i + 10 - last]
    IN  [i \in 1 .. 27 |-> IF i - 1 \in DOMAIN from THEN get(accounts, from[i - 1]) ELSE Default]

\* The strict data of a v3 trade: a buy may add one flag.
parse_v3_instruction(ix) ==
    LET is_sell == ix.name = "sell_v3"
        args    == Args(ix, 8)
        mapped  == MappedV3(ix.accounts, is_sell)
    IN  IF \/ Len(ix.accounts) < 17
           \/ args.len \notin (IF is_sell THEN {16} ELSE 16 .. 17)
           \/ args.len = 17 /\ args.odd = 16
        THEN NoEvent
        ELSE IF is_sell THEN parse_sell_instruction(ix, mapped, TRUE)
        ELSE parse_buy_v2_instruction(ix, mapped, ix.name = "buy_exact_quote_in_v3")

parse_create_instruction(ix) ==
    Parsed(ix, 10, Strs(<<"name", "symbol", "uri">>) \o Last(Keys(<<"creator">>)),
           WithQuoteMint(
               fill_create_accounts(
                   Placed("PumpFunCreate", "create", FALSE, ix.accounts,
                          ("mint" :> 0) @@ ("bonding_curve" :> 2) @@ ("user" :> 7)),
                   ix.accounts),
               SolQuoteMint))

parse_create_v2_optional_tail ==
    Last(Flags(<<"is_cashback_enabled">>)) \o Last(U64s(<<"creator_fee_bps">>))
    \o Last(Flags(<<"is_holder_reward">>))

parse_create_v2_instruction(ix) ==
    LET quote == create_v2_quote_accounts(Len(ix.accounts), ix.accounts)
    IN  Parsed(ix, 16,
               Strs(<<"name", "symbol", "uri">>) \o Keys(<<"creator">>)
               \o Flags(<<"is_mayhem_mode">>) \o parse_create_v2_optional_tail,
               Supply(Placed("PumpFunCreate", "create_v2", FALSE, ix.accounts, Fields(0, <<
                          "mint", "mint_authority", "bonding_curve", "associated_bonding_curve",
                          "global", "user", "system_program", "token_program",
                          "associated_token_program", "mayhem_program_id", "global_params",
                          "sol_vault", "mayhem_state", "mayhem_token_vault", "event_authority",
                          "program">>)),
                      ("quote_mint" :> quote[1]) @@ ("quote_vault" :> quote[2])
                      @@ ("quote_token_program" :> quote[3])))

parse_migrate_bonding_curve_creator(ix) ==
    Parsed(ix, 5, <<>>,
           Placed("PumpFunMigrateBondingCurveCreator", "", FALSE, ix.accounts,
                  Fields(0, <<"mint", "bonding_curve", "sharing_config">>)))

\* An event CPI: its discriminator stands behind the anchor tag.
parse_migrate_log_instruction(ix) ==
    ParsedAt(ix, 16, 0,
             Keys(<<"user", "mint">>)
             \o U64s(<<"mint_amount", "sol_amount", "pool_migration_fee">>)
             \o Keys(<<"bonding_curve">>) \o U64s(<<"timestamp">>) \o Keys(<<"pool">>),
             Event("PumpFunMigrate", "", FALSE, <<>>))

pump_parse_instruction(ix) ==
    CASE ix.name = "create_v2" -> parse_create_v2_instruction(ix)
      [] ix.name = "create"    -> parse_create_instruction(ix)
      [] ix.name \in {"buy", "buy_exact_sol_in"} ->
           parse_buy_instruction(ix, ix.name = "buy_exact_sol_in")
      [] ix.name = "sell"      -> parse_sell_instruction(ix, ix.accounts, FALSE)
      [] ix.name \in {"buy_v3", "buy_exact_quote_in_v3", "sell_v3"} -> parse_v3_instruction(ix)
      [] ix.name \in {"buy_v2", "buy_exact_quote_in_v2"} ->
           parse_buy_v2_instruction(ix, ix.accounts, ix.name = "buy_exact_quote_in_v2")
      [] ix.name = "sell_v2"   -> parse_sell_instruction(ix, ix.accounts, TRUE)
      [] ix.name = "migrate_bonding_curve_creator" -> parse_migrate_bonding_curve_creator(ix)
      [] ix.name = "migrate_event_log" -> parse_migrate_log_instruction(ix)
      [] OTHER -> NoEvent

\* ---- PumpSwap
SwapPlaces(compact) ==
    ("pool" :> 0) @@ ("user" :> 1)
    @@ Fields(3, <<"base_mint", "quote_mint", "user_base_token_account",
                   "user_quote_token_account", "pool_base_token_account",
                   "pool_quote_token_account">>)
    @@ Fields(IF compact THEN 9 ELSE 11, <<"base_token_program", "quote_token_program">>)
    @@ (IF compact THEN "fee_recipient_quote_token_account" :> 14
        ELSE Fields(9, <<"protocol_fee_recipient", "protocol_fee_recipient_token_account">>)
             @@ Fields(17, <<"coin_creator_vault_ata", "coin_creator_vault_authority">>))

parse_buy_instruction_with_layout(ix, compact, exact_quote) ==
    LET e == Placed("PumpSwapBuy", IF exact_quote THEN "buy_exact_quote_in" ELSE "buy", TRUE,
                    ix.accounts, SwapPlaces(compact))
    IN  Parsed(ix, 13,
               U64s(IF exact_quote THEN <<"max_quote_amount_in", "min_base_amount_out">>
                                   ELSE <<"base_amount_out", "max_quote_amount_in">>)
               \o Last(Flags(<<"track_volume">>)),
               IF compact THEN e ELSE Supply(e, buy_upgrade_tail(ix.accounts, At(e, "base_mint"))))

parse_sell_instruction_with_layout(ix, compact) ==
    LET e == Placed("PumpSwapSell", "", FALSE, ix.accounts, SwapPlaces(compact))
    IN  Parsed(ix, 13, U64s(<<"base_amount_in", "min_quote_amount_out">>),
               IF compact THEN e ELSE Supply(e, sell_upgrade_tail(ix.accounts, At(e, "base_mint"))))

parse_create_pool_instruction(ix) ==
    Parsed(ix, 18,
           U16s(<<"index">>) \o U64s(<<"base_amount_in", "quote_amount_in">>)
           \o Keys(<<"coin_creator">>)
           \o Last(Flags(<<"is_mayhem_mode">>)) \o Last(Flags(<<"is_cashback_coin">>))
           \o Last(U64s(<<"creator_fee_bps">>))
           \o Last(Flags(<<"can_edit_creator_fee">>)) \o Last(Flags(<<"is_holder_reward">>)),
           Placed("PumpSwapCreatePool", "", FALSE, ix.accounts,
                  ("pool" :> 0) @@ Fields(2, <<"creator", "base_mint", "quote_mint", "lp_mint",
                      "user_base_token_account", "user_quote_token_account">>)))

parse_deposit_instruction(ix) ==
    Parsed(ix, 9, U64s(<<"lp_token_amount_out", "max_base_amount_in", "max_quote_amount_in">>),
           Placed("PumpSwapLiquidityAdded", "", FALSE, ix.accounts,
                  ("pool" :> 0) @@ ("user" :> 2)
                  @@ Fields(6, <<"user_base_token_account", "user_quote_token_account",
                                 "user_pool_token_account">>)))

parse_withdraw_instruction(ix) ==
    Parsed(ix, 9, U64s(<<"lp_token_amount_in", "min_base_amount_out", "min_quote_amount_out">>),
           Placed("PumpSwapLiquidityRemoved", "", FALSE, ix.accounts,
                  ("pool" :> 0) @@ ("user" :> 2)
                  @@ Fields(6, <<"user_base_token_account", "user_quote_token_account",
                                 "user_pool_token_account">>)))

\* The compact trades have exactly seventeen accounts and two amounts.
pumpswap_parse_instruction(ix) ==
    LET compact == ix.name \in {"buy_v2", "buy_exact_quote_in_v2", "sell_v2"}
    IN  CASE compact /\ (Len(ix.accounts) # 17 \/ ix.data.len # 24) -> NoEvent
          [] compact /\ Len(ix.accounts) = 17 /\ ix.data.len = 24 ->
               IF ix.name = "sell_v2" THEN parse_sell_instruction_with_layout(ix, TRUE)
               ELSE parse_buy_instruction_with_layout(ix, TRUE, ix.name = "buy_exact_quote_in_v2")
          [] ix.name \in {"buy", "buy_exact_quote_in"} ->
               parse_buy_instruction_with_layout(ix, FALSE, ix.name = "buy_exact_quote_in")
          [] ix.name = "sell" -> parse_sell_instruction_with_layout(ix, FALSE)
          [] ix.name = "create_pool" -> parse_create_pool_instruction(ix)
          [] ix.name = "deposit" -> parse_deposit_instruction(ix)
          [] ix.name = "withdraw" -> parse_withdraw_instruction(ix)
          [] OTHER -> NoEvent

\* ---- The fee program
FeeShares(ix) ==
    LET From(type, needs, reads, places) ==
            Parsed(ix, needs, reads, Placed(type, "", FALSE, ix.accounts, places))
    IN  CASE ix.name = "create_fee_sharing_config" ->
               From("PumpFeesCreateFeeSharingConfig", 5, <<>>,
                    ("admin" :> 2) @@ ("mint" :> 4) @@ ("sharing_config" :> 5)
                    @@ ("bonding_curve" :> 7) @@ ("pool" :> 10))
          [] ix.name \in {"update_fee_shares", "update_fee_shares_v2"} ->
               From("PumpFeesUpdateFeeShares", 8, Few("new_shareholders", 34, 64) \o End,
                    ("admin" :> 2) @@ Fields(4, <<"mint", "sharing_config", "bonding_curve",
                                                  "pump_creator_vault">>))
          [] ix.name \in {"reset_fee_sharing_config", "reset_fee_sharing_config_v2"} ->
               From("PumpFeesResetFeeSharingConfig", 7, <<>>,
                    ("new_admin" :> 0) @@ ("old_admin" :> 3)
                    @@ Fields(5, <<"mint", "sharing_config">>))
          [] ix.name = "revoke_fee_sharing_authority" ->
               From("PumpFeesRevokeFeeSharingAuthority", 4, <<>>,
                    ("admin" :> 0) @@ Fields(2, <<"mint", "sharing_config">>))
          [] ix.name = "transfer_fee_sharing_authority" ->
               From("PumpFeesTransferFeeSharingAuthority", 5, <<>>,
                    ("old_admin" :> 0) @@ Fields(2, <<"mint", "sharing_config", "new_admin">>))

FeeConfigs(ix) ==
    LET From(type, needs, reads, places) ==
            Parsed(ix, needs, reads, Placed(type, "", FALSE, ix.accounts, places))
        tiers == Few("fee_tiers", 40, 64)
    IN  CASE ix.name = "initialize_fee_config" ->
               From("PumpFeesInitializeFeeConfig", 2, <<>>, Fields(0, <<"admin", "fee_config">>))
          [] ix.name = "update_admin" ->
               From("PumpFeesUpdateAdmin", 3, <<>>, ("old_admin" :> 0) @@ ("new_admin" :> 2))
          [] ix.name = "update_fee_config" ->
               From("PumpFeesUpdateFeeConfig", 2, tiers \o Bytes("flat_fees", 24) \o End,
                    Fields(0, <<"fee_config", "admin">>))
          [] ix.name = "upsert_fee_tiers" ->
               From("PumpFeesUpsertFeeTiers", 2, tiers \o U8s(<<"offset">>) \o End,
                    Fields(0, <<"fee_config", "admin">>))
          [] OTHER -> NoEvent

pump_fees_parse_instruction(ix) ==
    IF ix.name \in {"create_fee_sharing_config", "update_fee_shares", "update_fee_shares_v2",
                    "reset_fee_sharing_config", "reset_fee_sharing_config_v2",
                    "revoke_fee_sharing_authority", "transfer_fee_sharing_authority"}
    THEN FeeShares(ix) ELSE FeeConfigs(ix)
==============================================================================
