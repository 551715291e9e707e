-------------------------- MODULE AccountDispatcher ---------------------------
(*****************************************************************************)
(* Which invocation of a transaction an event came from                      *)
(* (core/account_dispatcher.rs).  A log event carries only some of its       *)
(* accounts; the rest is taken from an instruction of the same transaction,  *)
(* if exactly one has the layout and all the accounts the event is known to  *)
(* have.                                                                     *)
(*****************************************************************************)
EXTENDS AccountFillers, FiniteSets

\* An invocation of a program: the instruction it executes (by the name of its
\* discriminator), its data as a body of module Layouts, and its accounts.  A
\* transaction is the sequence of its invocations.
Invoke(program, name, data, accounts) ==
    [program |-> program, name |-> name, data |-> data, accounts |-> accounts]

instruction_account_count(ix) == Len(ix.accounts)

\* Mutant: only_match taking the first of several invocations that match.
FirstMatch(matches) == {i \in matches : \A j \in matches : i <= j}

\* An ambiguous context stays unknown.
only_match(matches) == IF Cardinality(matches) = 1 THEN matches ELSE {}

\* The invocations of a program whose data and accounts can be looked at.
context_invokes(tx, program) == {i \in DOMAIN tx : tx[i].program = program}

find_context_invoke(tx, program, Matches(_)) ==
    only_match({i \in context_invokes(tx, program) : Matches(tx[i])})

\* Mutant: known_accounts_match without the exception for unknown accounts.
AllAccountsMatch(e, ix, places) ==
    \A f \in DOMAIN places : At(e, f) = get(ix.accounts, places[f])

known_accounts_match(e, ix, places) ==
    \A f \in DOMAIN places : At(e, f) \in {Default, get(ix.accounts, places[f])}

\* The event names no instruction, or this one.
Named(e, name) == e.ix_name \in {"", name}

\* The known identity an event must have before any invocation is looked at.
Anchored(e, field, ix, i) == At(e, field) # Default /\ get(ix.accounts, i) = At(e, field)

find_identity_invoke(tx, e, program, name, minimum_data, minimum_accounts, places) ==
    find_context_invoke(tx, program, LAMBDA ix :
        /\ ix.name = name
        /\ ix.data.len >= minimum_data
        /\ instruction_account_count(ix) >= minimum_accounts
        /\ known_accounts_match(e, ix, places))

\* ---- Orca.  The byte of the direction is the tag of the data.
OrcaSwapPlaces(v2) ==
    IF v2 THEN ("whirlpool" :> 4) @@ ("token_authority" :> 3)
               @@ ("token_owner_account_a" :> 7) @@ ("token_owner_account_b" :> 9)
               @@ ("token_vault_a" :> 8) @@ ("token_vault_b" :> 10)
               @@ Fields(0, <<"token_program_a", "token_program_b">>)
               @@ Fields(11, <<"tick_array_0", "tick_array_1", "tick_array_2", "oracle">>)
               @@ Fields(5, <<"token_mint_a", "token_mint_b">>)
    ELSE ("whirlpool" :> 2) @@ ("token_authority" :> 1)
         @@ ("token_owner_account_a" :> 3) @@ ("token_owner_account_b" :> 5)
         @@ ("token_vault_a" :> 4) @@ ("token_vault_b" :> 6)
         @@ ("token_program_a" :> 0) @@ ("token_program_b" :> 0)
         @@ Fields(7, <<"tick_array_0", "tick_array_1", "tick_array_2", "oracle">>)

find_orca_swap_invoke(tx, e) == find_context_invoke(tx, "orca", LAMBDA ix :
    /\ ix.name \in {"swap", "swap_v2"} /\ Named(e, ix.name)
    /\ instruction_account_count(ix) >= (IF ix.name = "swap_v2" THEN 15 ELSE 11)
    /\ ix.data.len >= 42 /\ ix.data.odd \notin {40, 41}
    /\ (ix.data.tag # 0) = e.is_buy
    /\ ix.name = "swap_v2" => get(ix.accounts, 2) = MEMO_PROGRAM
    /\ known_accounts_match(e, ix, OrcaSwapPlaces(ix.name = "swap_v2")))

find_orca_liquidity_invoke(tx, e, increase) ==
    LET old == IF increase THEN "increase_liquidity" ELSE "decrease_liquidity"
        new == IF increase THEN "increase_liquidity_v2" ELSE "decrease_liquidity_v2"
    IN  find_context_invoke(tx, "orca", LAMBDA ix :
            /\ ix.name \in {old, new}
            /\ instruction_account_count(ix) >= (IF ix.name = new THEN 15 ELSE 11)
            /\ ix.data.len >= 40
            /\ ix.name = new => get(ix.accounts, 3) = MEMO_PROGRAM
            /\ known_accounts_match(e, ix, ("whirlpool" :> 0)
                                          @@ ("position" :> IF ix.name = new THEN 5 ELSE 3)))

\* ---- Meteora pools
find_pools_swap_invoke(tx, e) == find_context_invoke(tx, "meteora_pools", LAMBDA ix :
    /\ ix.name = "swap" /\ Named(e, "swap")
    /\ ix.data.len >= 24 /\ instruction_account_count(ix) >= 15
    /\ known_accounts_match(e, ix,
           ("pool" :> 0) @@ ("user" :> 12)
           @@ Fields(1, <<"user_source_token", "user_destination_token", "a_vault", "b_vault",
                          "a_token_vault", "b_token_vault", "a_vault_lp_mint", "b_vault_lp_mint",
                          "a_vault_lp", "b_vault_lp", "protocol_token_fee">>)
           @@ Fields(13, <<"vault_program", "token_program">>)))

find_pools_add_invoke(tx, e) == find_context_invoke(tx, "meteora_pools", LAMBDA ix :
    /\ ix.name \in {"add_balance_liquidity", "add_imbalance_liquidity"} /\ Named(e, ix.name)
    /\ ix.data.len >= 32 /\ instruction_account_count(ix) >= 16
    /\ known_accounts_match(e, ix,
           Fields(0, <<"pool", "lp_mint", "user_pool_lp", "a_vault_lp", "b_vault_lp", "a_vault",
                       "b_vault", "a_vault_lp_mint", "b_vault_lp_mint", "a_token_vault",
                       "b_token_vault", "user_a_token", "user_b_token", "user", "vault_program",
                       "token_program">>)))

\* An instruction of a set of names, in the event's pool when that is known.
PoolInvoke(tx, e, names) == find_context_invoke(tx, "meteora_pools", LAMBDA ix :
    /\ ix.name \in names /\ Named(e, ix.name)
    /\ At(e, "pool") \in {Default, get(ix.accounts, 0)})

find_pools_liquidity_invoke(tx, e, bootstrap) ==
    PoolInvoke(tx, e, IF bootstrap THEN {"bootstrap_liquidity"}
                      ELSE {"remove_balance_liquidity", "remove_liquidity_single_side"})

find_pools_management_invoke(tx, e, creation) ==
    PoolInvoke(tx, e, IF creation
        THEN {"initialize_permissionless_constant_product_pool_with_config",
              "initialize_permissionless_constant_product_pool_with_config2",
              "initialize_permissioned_pool", "initialize_permissionless_pool",
              "initialize_permissionless_pool_with_fee_tier",
              "initialize_customizable_permissionless_constant_product_pool"}
        ELSE {"set_pool_fees"})

\* ---- Raydium
find_cpmm_swap_invoke(tx, e) == find_context_invoke(tx, "raydium_cpmm", LAMBDA ix :
    /\ ix.name = (IF e.is_buy THEN "swap_base_input" ELSE "swap_base_output") /\ Named(e, ix.name)
    /\ ix.data.len >= 24 /\ instruction_account_count(ix) >= 13
    /\ Anchored(e, "pool_id", ix, 3)
    /\ known_accounts_match(e, ix,
           ("payer" :> 0) @@ Fields(4, <<"input_token_account", "output_token_account",
                                         "input_vault", "output_vault">>)
           @@ Fields(10, <<"input_token_mint", "output_token_mint">>)
           @@ Fields(10, <<"input_mint", "output_mint">>)))

\* A log names the token accounts in the order of the pool, the instruction in the
\* order of the trade.
find_clmm_swap_invoke(tx, e) == find_context_invoke(tx, "raydium_clmm", LAMBDA ix :
    /\ ix.name \in {"swap", "swap_v2"} /\ Named(e, ix.name)
    /\ Anchored(e, "pool_state", ix, 2)
    /\ known_accounts_match(e, ix, ("sender" :> 0) @@ Fields(11, <<"input_mint", "output_mint">>))
    /\ \/ known_accounts_match(e, ix, Fields(3, <<"token_account_0", "token_account_1">>))
       \/ known_accounts_match(e, ix, Fields(3, <<"token_account_1", "token_account_0">>)))

\* An optional flag that ends the data.
valid_option_bool(data, offset) ==
    \/ data.tag = 0 /\ data.len = offset + 1
    \/ data.tag = 1 /\ data.len = offset + 2 /\ data.odd # offset + 1

\* The kind of a management instruction whose accounts and data have its shape, and
\* the position of the pool.
clmm_management_shape(ix) ==
    LET n == ix.name  count == instruction_account_count(ix)  data == ix.data
        openOptions == data.len > 56 /\ data.odd # 56 /\ valid_option_bool(data, 57)
    IN  CASE n = "create_pool" /\ count >= 13 /\ data.len = 32 -> <<"create", 2>>
          [] n = "create_customizable_pool" /\ count >= 13 /\ data.len = 26
                 /\ data.odd \notin {24, 25} -> <<"create", 2>>
          [] n = "open_position" /\ count >= 19 /\ data.len = 56 -> <<"open", 5>>
          [] n = "open_position_v2" /\ count >= 22 /\ openOptions -> <<"open", 5>>
          [] n = "open_position_with_token_22_nft" /\ count >= 20 /\ openOptions -> <<"open", 4>>
          [] n = "close_position" /\ count >= 6 /\ data.len = 8 -> <<"close", 0>>
          [] n = "increase_liquidity" /\ count >= 12 /\ data.len = 40 -> <<"increase", 2>>
          [] n = "increase_liquidity_v2" /\ count >= 15 /\ valid_option_bool(data, 40) ->
               <<"increase", 2>>
          [] n = "decrease_liquidity" /\ count >= 12 /\ data.len = 40 -> <<"decrease", 3>>
          [] n = "decrease_liquidity_v2" /\ count >= 16 /\ data.len = 40 -> <<"decrease", 3>>
          [] OTHER -> <<"none", 0>>

\* The position account of an NFT proves which NFT a liquidity instruction is about.
PersonalPosition(e, ix, i) ==
    At(e, "position_nft_mint") = Default
    \/ get(ix.accounts, i) = Pda("position", At(e, "position_nft_mint"))

find_clmm_management_invoke(tx, e, kind) == find_context_invoke(tx, "raydium_clmm", LAMBDA ix :
    LET pool_index == clmm_management_shape(ix)[2]
    IN  /\ clmm_management_shape(ix)[1] = kind
        /\ CASE kind = "create" -> known_accounts_match(e, ix,
                    ("creator" :> 0) @@ ("pool" :> pool_index)
                    @@ Fields(3, <<"token_0_mint", "token_1_mint", "token_vault_0",
                                   "token_vault_1">>))
             [] kind = "open" -> known_accounts_match(e, ix,
                    Fields(1, <<"user", "position_nft_mint">>) @@ ("pool" :> pool_index))
             [] kind = "close" ->
                  /\ known_accounts_match(e, ix, Fields(0, <<"user", "position_nft_mint">>))
                  /\ PersonalPosition(e, ix, 3)
             [] kind \in {"increase", "decrease"} ->
                  /\ known_accounts_match(e, ix, ("user" :> 0) @@ ("pool" :> pool_index))
                  /\ PersonalPosition(e, ix, IF kind = "increase" THEN 4 ELSE 2))

\* A market account is left out of the shorter layout of a swap.
find_amm_swap_invoke(tx, e) == find_context_invoke(tx, "raydium_amm", LAMBDA ix :
    LET count == instruction_account_count(ix)
        old   == ix.name \in {"swap_base_in", "swap_base_out"}
        short == IF count = 17 THEN 1 ELSE 0
    IN  /\ ix.name \in {"swap_base_in", "swap_base_out", "swap_base_in_v2", "swap_base_out_v2"}
        /\ Named(e, ix.name)
        /\ count >= (IF old THEN 17 ELSE 8) /\ ix.data.len >= 17
        /\ known_accounts_match(e, ix,
               Fields(0, <<"token_program", "amm", "amm_authority">>)
               @@ Fields(IF old THEN 15 - short ELSE 5,
                         <<"user_source_token_account", "user_destination_token_account",
                           "user_source_owner">>)
               @@ Fields(IF old THEN 5 - short ELSE 3,
                         <<"pool_coin_token_account", "pool_pc_token_account">>)))

find_launchlab_trade_invoke(tx, e) == find_context_invoke(tx, "launchlab", LAMBDA ix :
    /\ ix.name \in (IF e.is_buy THEN {"buy_exact_in", "buy_exact_out"}
                                ELSE {"sell_exact_in", "sell_exact_out"})
    /\ ix.data.len >= 24 /\ instruction_account_count(ix) >= 15
    /\ known_accounts_match(e, ix,
           ("user" :> 0)
           @@ Fields(2, <<"global_config", "platform_config", "pool_state", "user_base_token",
                          "user_quote_token", "base_vault", "quote_vault", "base_mint",
                          "quote_mint", "base_token_program", "quote_token_program">>)
           @@ Fields(15, <<"system_program", "platform_associated_account",
                           "creator_associated_account">>)))

\* The name, the symbol and the address of the metadata, after the decimals.
launchlab_mint_params_complete(data) == data.len >= 9 + 3 * (4 + data.text)

find_launchlab_create_invoke(tx, e) == find_context_invoke(tx, "launchlab", LAMBDA ix :
    LET token_2022 == ix.name = "initialize_with_token_2022"
    IN  /\ ix.name \in {"initialize", "initialize_v2", "initialize_with_token_2022"}
        /\ instruction_account_count(ix) >= (IF token_2022 THEN 15 ELSE 18)
        /\ launchlab_mint_params_complete(ix.data)
        /\ known_accounts_match(e, ix,
               Fields(0, <<"payer", "creator", "global_config", "platform_config">>)
               @@ Fields(5, <<"pool_state", "base_mint", "quote_mint", "base_vault",
                              "quote_vault">>)
               @@ Fields(IF token_2022 THEN 10 ELSE 11,
                         <<"base_token_program", "quote_token_program">>)))

\* ---- Meteora DAMM and DLMM.  The tag of the data holds both optional fields of
\* the dynamic layout: the dynamic fee (1) and the activation point (2).
damm_initialize_shape(ix) ==
    LET count == instruction_account_count(ix)  data == ix.data
        shift == IF data.tag % 2 = 1 THEN 32 ELSE 0
        fixed == /\ ix.name = "initialize_pool" /\ count >= 20
                 /\ \/ data.tag = 0 /\ data.len = 41
                    \/ data.tag = 1 /\ data.len = 49
        dynamic == /\ ix.name = "initialize_pool_with_dynamic_config" /\ count >= 21
                   /\ data.tag < 4 /\ data.odd # 71 + shift
                   /\ data.len = shift + (IF data.tag < 2 THEN 107 ELSE 115)
    IN  IF fixed THEN "fixed" ELSE IF dynamic THEN "dynamic" ELSE "none"

find_damm_initialize_invoke(tx, e) == find_context_invoke(tx, "meteora_damm", LAMBDA ix :
    LET shift == IF damm_initialize_shape(ix) = "dynamic" THEN 1 ELSE 0
    IN  /\ damm_initialize_shape(ix) # "none"
        /\ known_accounts_match(e, ix,
               ("creator" :> 0) @@ ("payer" :> 3) @@ ("position_nft_mint" :> 1)
               @@ Fields(6 + shift, <<"pool", "position", "token_a_mint", "token_b_mint">>)))

\* Where the bin arrays of a swap start; 0 when the accounts or the data are not
\* those of a swap.  The data of a v2 swap ends in slices (as many as its text, of
\* one account each) that come before the bin arrays; a slice of kind 3 takes one
\* more byte.
validate_swap_layout(ix) ==
    LET v2     == ix.name \in {"swap2", "swap_exact_out2", "swap_with_price_impact2"}
        impact == ix.name \in {"swap_with_price_impact", "swap_with_price_impact2"}
        data   == ix.data
        fixed  == IF v2 THEN 16 ELSE 15
        args   == IF ~impact THEN 24 ELSE IF data.tag = 0 THEN 19 ELSE 23
        slice  == IF data.tag = 3 THEN 3 ELSE 2
    IN  IF /\ v2 \/ impact \/ ix.name \in {"swap", "swap_exact_out"}
           /\ instruction_account_count(ix) >= fixed
           /\ data.len >= args /\ (impact => data.tag <= 1)
           /\ v2 => /\ data.len >= args + 4 + data.text * slice
                    /\ data.text <= instruction_account_count(ix) - fixed
        THEN fixed + (IF v2 THEN data.text ELSE 0) ELSE 0

\* The event completed from the accounts of the one invocation found, if any.
FillFrom(e, tx, found, Filler(_, _)) ==
    IF found = {} THEN e ELSE Filler(e, tx[CHOOSE i \in found : TRUE])

fill_dlmm_swap_event(e, tx) ==
    LET found == find_context_invoke(tx, "meteora_dlmm", LAMBDA ix :
                    /\ validate_swap_layout(ix) > 0
                    /\ Anchored(e, "pool", ix, 0)
                    /\ known_accounts_match(e, ix, ("from" :> 10)
                           @@ Fields(4, <<"user_token_in", "user_token_out">>)))
    IN  FillFrom(e, tx, found, LAMBDA ev, ix :
            fill_dlmm_swap_accounts_with_layout(
                ev, ix.accounts, validate_swap_layout(ix), instruction_account_count(ix),
                ix.name \in {"swap2", "swap_exact_out2", "swap_with_price_impact2"}))

\* ---- Pump.fun and PumpSwap.  Position of the mint and of the user, direction and
\* number of accounts of a trade.
PumpTrades ==
    [n \in {"buy", "buy_exact_sol_in"} |-> <<2, 6, TRUE, 16>>]
    @@ ("sell" :> <<2, 6, FALSE, 14>>)
    @@ [n \in {"buy_v2", "buy_exact_quote_in_v2"} |-> <<1, 13, TRUE, 27>>]
    @@ ("sell_v2" :> <<1, 13, FALSE, 26>>)
    @@ [n \in {"buy_v3", "buy_exact_quote_in_v3"} |-> <<1, 8, TRUE, 17>>]
    @@ ("sell_v3" :> <<1, 8, FALSE, 17>>)

find_pumpfun_trade_invoke(tx, e) == find_context_invoke(tx, "pump", LAMBDA ix :
    /\ ix.name \in DOMAIN PumpTrades
    /\ LET layout == PumpTrades[ix.name]
       IN  /\ instruction_account_count(ix) >= layout[4]
           /\ layout[3] = e.is_buy
           /\ Anchored(e, "mint", ix, layout[1])
           /\ known_accounts_match(e, ix, "user" :> layout[2]))

find_pumpfun_create_invoke(tx, e, v2_only) == find_context_invoke(tx, "pump", LAMBDA ix :
    /\ ix.name \in (IF v2_only THEN {"create_v2"} ELSE {"create", "create_v2"})
    /\ instruction_account_count(ix) >= (IF ix.name = "create_v2" THEN 16 ELSE 14)
    /\ known_accounts_match(e, ix, "mint" :> 0))

\* The pool alone is ambiguous when a transaction trades in it repeatedly.
find_pumpswap_trade_invoke(tx, e, buy) == find_context_invoke(tx, "pumpswap", LAMBDA ix :
    LET compact == ix.name \in {"buy_v2", "buy_exact_quote_in_v2", "sell_v2"}
        direction_matches ==
            ix.name \in (IF buy THEN {"buy", "buy_exact_quote_in", "buy_v2",
                                      "buy_exact_quote_in_v2"}
                                ELSE {"sell", "sell_v2"})
    IN  /\ direction_matches
        /\ instruction_account_count(ix) >= (IF compact THEN 17 ELSE IF buy THEN 23 ELSE 21)
        /\ Anchored(e, "pool", ix, 0)
        /\ known_accounts_match(e, ix, "user" :> 1))

find_pumpswap_create_invoke(tx, e) ==
    find_identity_invoke(tx, e, "pumpswap", "create_pool", 58, 18,
        ("pool" :> 0) @@ Fields(2, <<"creator", "base_mint", "quote_mint", "lp_mint",
                                     "user_base_token_account", "user_quote_token_account">>))

\* ---- One operator per program: the invocation the event came from, and the filler
\* of the event's type.
FillPumpFun(e, tx) ==
    CASE e.type = "PumpFunCreate" ->
           FillFrom(e, tx, find_pumpfun_create_invoke(tx, e, FALSE), LAMBDA ev, ix :
               IF ix.name = "create_v2" THEN fill_create_accounts_from_v2(ev, ix.accounts)
               ELSE fill_create_accounts(ev, ix.accounts))
      [] e.type = "PumpFunCreateV2" ->
           FillFrom(e, tx, find_pumpfun_create_invoke(tx, e, TRUE), LAMBDA ev, ix :
               fill_create_v2_accounts(ev, ix.accounts))
      [] OTHER -> FillFrom(e, tx, find_pumpfun_trade_invoke(tx, e), LAMBDA ev, ix :
               pumpfun_fill_trade_accounts(ev, ix.accounts))

FillPumpSwap(e, tx) ==
    CASE e.type = "PumpSwapBuy" ->
           FillFrom(e, tx, find_pumpswap_trade_invoke(tx, e, TRUE), LAMBDA ev, ix :
               fill_buy_accounts_with_count(ev, ix.accounts, instruction_account_count(ix)))
      [] e.type = "PumpSwapSell" ->
           FillFrom(e, tx, find_pumpswap_trade_invoke(tx, e, FALSE), LAMBDA ev, ix :
               fill_sell_accounts_with_count(ev, ix.accounts, instruction_account_count(ix)))
      [] e.type = "PumpSwapCreatePool" ->
           FillFrom(e, tx, find_pumpswap_create_invoke(tx, e), LAMBDA ev, ix :
               pumpswap_fill_create_pool_accounts(ev, ix.accounts))

FillRaydiumClmm(e, tx) ==
    LET From(kind, Filler(_, _)) ==
            FillFrom(e, tx, find_clmm_management_invoke(tx, e, kind), LAMBDA ev, ix :
                Filler(ev, ix.accounts))
    IN  CASE e.type = "RaydiumClmmSwap" ->
               FillFrom(e, tx, find_clmm_swap_invoke(tx, e), LAMBDA ev, ix :
                   fill_clmm_swap_accounts_with_count(ev, ix.accounts,
                                                      instruction_account_count(ix)))
          [] e.type = "RaydiumClmmCreatePool" -> From("create", fill_clmm_create_pool_accounts)
          [] e.type = "RaydiumClmmOpenPosition" ->
               FillFrom(e, tx, find_clmm_management_invoke(tx, e, "open"), LAMBDA ev, ix :
                   fill_clmm_open_position_accounts_with_layout(
                       ev, ix.accounts, ix.name = "open_position_with_token_22_nft"))
          [] e.type = "RaydiumClmmClosePosition" -> From("close", fill_clmm_close_position_accounts)
          [] e.type = "RaydiumClmmIncreaseLiquidity" ->
               From("increase", fill_clmm_increase_liquidity_accounts)
          [] e.type = "RaydiumClmmDecreaseLiquidity" ->
               From("decrease", fill_clmm_decrease_liquidity_accounts)

FillRaydiumCpmm(e, tx) ==
    LET From(found, Filler(_, _)) ==
            FillFrom(e, tx, found, LAMBDA ev, ix : Filler(ev, ix.accounts))
        Find(name, accounts, pool, owner) ==
            find_identity_invoke(tx, e, "raydium_cpmm", name, 32, accounts,
                                 ("pool" :> pool) @@ (owner :> 0))
    IN  CASE e.type = "RaydiumCpmmSwap" ->
               From(find_cpmm_swap_invoke(tx, e), fill_cpmm_swap_accounts)
          [] e.type = "RaydiumCpmmDeposit" ->
               From(Find("deposit", 13, 2, "user"), fill_cpmm_deposit_accounts)
          [] e.type = "RaydiumCpmmWithdraw" ->
               From(Find("withdraw", 14, 2, "user"), fill_cpmm_withdraw_accounts)
          [] e.type = "RaydiumCpmmInitialize" ->
               From(Find("initialize", 20, 3, "creator"), fill_cpmm_initialize_accounts)

FillRaydiumAmm(e, tx) ==
    LET From(found, Filler(_, _)) ==
            FillFrom(e, tx, found, LAMBDA ev, ix : Filler(ev, ix.accounts))
    IN  CASE e.type = "RaydiumAmmV4Swap" ->
               From(find_amm_swap_invoke(tx, e), fill_amm_v4_swap_accounts)
          [] e.type = "RaydiumAmmV4Deposit" ->
               From(find_identity_invoke(tx, e, "raydium_amm", "deposit", 25, 14,
                        ("amm" :> 1) @@ ("user_owner" :> 12) @@ ("amm_authority" :> 2)),
                    fill_amm_v4_deposit_accounts)
          [] e.type = "RaydiumAmmV4Withdraw" ->
               From(find_identity_invoke(tx, e, "raydium_amm", "withdraw", 9, 22,
                        Fields(1, <<"amm", "amm_authority", "amm_open_orders">>)
                        @@ ("user_owner" :> 18)),
                    fill_amm_v4_withdraw_accounts)

FillOrca(e, tx) ==
    LET From(found, Filler(_, _)) ==
            FillFrom(e, tx, found, LAMBDA ev, ix : Filler(ev, ix.accounts))
    IN  CASE e.type = "OrcaWhirlpoolSwap" ->
               From(find_orca_swap_invoke(tx, e), fill_whirlpool_swap_accounts)
          [] e.type = "OrcaWhirlpoolLiquidityIncreased" ->
               From(find_orca_liquidity_invoke(tx, e, TRUE), fill_whirlpool_liquidity_accounts)
          [] e.type = "OrcaWhirlpoolLiquidityDecreased" ->
               From(find_orca_liquidity_invoke(tx, e, FALSE), fill_whirlpool_liquidity_accounts)

FillMeteoraDamm(e, tx) ==
    FillFrom(e, tx, find_damm_initialize_invoke(tx, e), LAMBDA ev, ix :
        fill_damm_v2_initialize_pool_accounts_with_layout(
            ev, ix.accounts, damm_initialize_shape(ix) = "dynamic"))

\* All but the swap take the name of the instruction when they have none.
FillMeteoraPools(e, tx) ==
    LET From(found, Filler(_, _)) ==
            FillFrom(e, tx, found, LAMBDA ev, ix :
                Filler([ev EXCEPT !.ix_name = IF @ = "" THEN ix.name ELSE @], ix.accounts))
    IN  CASE e.type = "MeteoraPoolsSwap" ->
               FillFrom(e, tx, find_pools_swap_invoke(tx, e), LAMBDA ev, ix :
                   fill_pools_swap_accounts(ev, ix.accounts))
          [] e.type = "MeteoraPoolsAddLiquidity" ->
               From(find_pools_add_invoke(tx, e), fill_pools_add_liquidity_accounts)
          [] e.type = "MeteoraPoolsRemoveLiquidity" ->
               From(find_pools_liquidity_invoke(tx, e, FALSE), fill_pools_remove_liquidity_accounts)
          [] e.type = "MeteoraPoolsBootstrapLiquidity" ->
               From(find_pools_liquidity_invoke(tx, e, TRUE),
                    fill_pools_bootstrap_liquidity_accounts)
          [] e.type = "MeteoraPoolsPoolCreated" ->
               From(find_pools_management_invoke(tx, e, TRUE), fill_pools_pool_created_accounts)
          [] e.type = "MeteoraPoolsSetPoolFees" ->
               From(find_pools_management_invoke(tx, e, FALSE), fill_pools_set_pool_fees_accounts)

FillLaunchlab(e, tx) ==
    LET From(found, Filler(_, _)) ==
            FillFrom(e, tx, found, LAMBDA ev, ix : Filler(ev, ix.accounts))
    IN  CASE e.type = "RaydiumLaunchlabTrade" ->
               From(find_launchlab_trade_invoke(tx, e), launchlab_fill_trade_accounts)
          [] e.type = "RaydiumLaunchlabPoolCreate" ->
               From(find_launchlab_create_invoke(tx, e), launchlab_fill_pool_create_accounts)

\* The types each program fills; an event of another type is left alone.
FillersOf ==
    [pump |-> {"PumpFunTrade", "PumpFunBuy", "PumpFunSell", "PumpFunBuyExactSolIn",
               "PumpFunCreate", "PumpFunCreateV2"},
     pumpswap |-> {"PumpSwapBuy", "PumpSwapSell", "PumpSwapCreatePool"},
     raydium_clmm |-> {"RaydiumClmmSwap", "RaydiumClmmCreatePool", "RaydiumClmmOpenPosition",
                       "RaydiumClmmClosePosition", "RaydiumClmmIncreaseLiquidity",
                       "RaydiumClmmDecreaseLiquidity"},
     raydium_cpmm |-> {"RaydiumCpmmSwap", "RaydiumCpmmDeposit", "RaydiumCpmmWithdraw",
                       "RaydiumCpmmInitialize"},
     raydium_amm |-> {"RaydiumAmmV4Swap", "RaydiumAmmV4Deposit", "RaydiumAmmV4Withdraw"},
     orca |-> {"OrcaWhirlpoolSwap", "OrcaWhirlpoolLiquidityIncreased",
               "OrcaWhirlpoolLiquidityDecreased"},
     meteora_pools |-> {"MeteoraPoolsSwap", "MeteoraPoolsAddLiquidity",
                        "MeteoraPoolsRemoveLiquidity", "MeteoraPoolsBootstrapLiquidity",
                        "MeteoraPoolsPoolCreated", "MeteoraPoolsSetPoolFees"},
     launchlab |-> {"RaydiumLaunchlabTrade", "RaydiumLaunchlabPoolCreate"}]

fill_accounts_with_owned_keys(e, tx) ==
    CASE e.type \in FillersOf.pump          -> FillPumpFun(e, tx)
      [] e.type \in FillersOf.pumpswap      -> FillPumpSwap(e, tx)
      [] e.type \in FillersOf.raydium_clmm  -> FillRaydiumClmm(e, tx)
      [] e.type \in FillersOf.raydium_cpmm  -> FillRaydiumCpmm(e, tx)
      [] e.type \in FillersOf.raydium_amm   -> FillRaydiumAmm(e, tx)
      [] e.type \in FillersOf.orca          -> FillOrca(e, tx)
      [] e.type \in FillersOf.meteora_pools -> FillMeteoraPools(e, tx)
      [] e.type \in FillersOf.launchlab     -> FillLaunchlab(e, tx)
      [] e.type = "MeteoraDammV2InitializePool" -> FillMeteoraDamm(e, tx)
      [] e.type = "MeteoraDlmmSwap"         -> fill_dlmm_swap_event(e, tx)
      [] OTHER -> e
==============================================================================
