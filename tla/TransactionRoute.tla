--------------------------- MODULE TransactionRoute ---------------------------
(*****************************************************************************)
(* The routes of a transaction (transaction_route.rs): its invocations in    *)
(* the order of execution, the mints of its token accounts as far as the     *)
(* transaction is evidence of them, the swaps it makes with the amounts that *)
(* moved below each, and the invocations nobody could decode.                *)
(*                                                                           *)
(* An invocation has the accounts it names; an index behind the keys of the  *)
(* transaction is the key Unresolved, and a program that cannot be resolved  *)
(* is "unresolved".  An optional amount is a set of at most one element.     *)
(*****************************************************************************)
EXTENDS DexInstructions
Seqs == INSTANCE SequencesExt

CONSTANT U64Max    \* u64::MAX

Unresolved == <<"unresolved", 0>>

WSOL == Program("wsol")

\* The key at a position; the default key when there is none.
account(ix, i) ==
    IF get(ix.accounts, i) = Unresolved THEN Default ELSE get(ix.accounts, i)

program_resolved(ix) == ix.program # "unresolved"

token_program(ix) == ix.program \in {"spl_token", "spl_token_2022"}

Shaped(ix, name, len, accounts) ==
    ix.name = name /\ ix.data.len >= len /\ Len(ix.accounts) >= accounts

plain_transfer(ix) == token_program(ix) /\ Shaped(ix, "transfer", 9, 3)

checked_transfer(ix) == token_program(ix) /\ Shaped(ix, "transfer_checked", 10, 4)

checked_transfer_with_fee(ix) ==
    ix.program = "spl_token_2022" /\ Shaped(ix, "transfer_checked_with_fee", 19, 4)

initializes_account(ix) ==
    /\ token_program(ix) /\ Len(ix.accounts) >= 2
    /\ \/ ix.name = "initialize_account" /\ ix.data.len = 1
       \/ ix.name \in {"initialize_account2", "initialize_account3"} /\ ix.data.len = 33

-----------------------------------------------------------------------------
(* The invocations in the order of execution.  Positions count from 1; inner *)
(* is 0 for an instruction of the message, and height is 0 when unknown.     *)

Placement(ix, outer, inner, height) ==
    [ix |-> ix, outer |-> outer, inner |-> inner, height |-> height]

\* The groups by the instruction they belong to, equal ones in their old order.
OrderedGroups(groups) ==
    LET before(i, j) == \/ groups[i].index < groups[j].index
                        \/ groups[i].index = groups[j].index /\ i < j
        order == SortSeq([i \in DOMAIN groups |-> i], before)
    IN  [i \in DOMAIN groups |-> groups[order[i]]]

\* The message and the groups are walked together, the cursor never goes back.
transaction_invocations(instructions, groups) ==
    LET sorted == OrderedGroups(groups)
        Inner(group) == [j \in DOMAIN group.instructions |->
            Placement(group.instructions[j].ix, group.index, j, group.instructions[j].height)]
        walk[i \in 0 .. Len(instructions)] ==
            IF i = 0 THEN [cursor |-> 1, result |-> <<>>]
            ELSE LET from == walk[i - 1].cursor
                     stop == CHOOSE c \in from .. Len(sorted) + 1 :
                                /\ c = Len(sorted) + 1 \/ sorted[c].index > i
                                /\ \A k \in from .. c - 1 : sorted[k].index <= i
                     own  == SelectSeq(SubSeq(sorted, from, stop - 1), LAMBDA g : g.index = i)
                 IN  [cursor |-> stop,
                      result |-> walk[i - 1].result \o <<Placement(instructions[i], i, 0, 1)>>
                                 \o Seqs!FlattenSeq([k \in DOMAIN own |-> Inner(own[k])])]
    IN  walk[Len(instructions)].result

-----------------------------------------------------------------------------
(* The mints of token accounts. *)

\* Mutant: later evidence replaces earlier evidence.
record_last(mints, seen) ==
    IF Default \in {seen.account, seen.mint} THEN mints
    ELSE (seen.account :> seen.mint) @@ mints

\* Evidence of the mint of an account.  A contradiction leaves the default key as a
\* mark of ambiguity, which no later evidence removes.
record(mints, seen) ==
    IF Default \in {seen.account, seen.mint} THEN mints
    ELSE IF seen.account \notin DOMAIN mints THEN (seen.account :> seen.mint) @@ mints
    ELSE IF mints[seen.account] # seen.mint THEN [mints EXCEPT ![seen.account] = Default]
    ELSE mints

Seen(key, mint) == [account |-> key, mint |-> mint]

EvidenceOf(ix) ==
    CASE checked_transfer(ix) \/ checked_transfer_with_fee(ix) ->
           <<Seen(account(ix, 0), account(ix, 1)), Seen(account(ix, 2), account(ix, 1))>>
      [] initializes_account(ix) -> <<Seen(account(ix, 0), account(ix, 1))>>
      [] OTHER -> <<>>

\* The balances before and after the transaction, then the instructions.
Evidence(balances, invocations) ==
    balances \o Seqs!FlattenSeq([i \in DOMAIN invocations |-> EvidenceOf(invocations[i])])

\* The plain transfers along which a mint may become known: between two accounts
\* with a known mint there is nothing to learn, and an ambiguous one is no bridge.
Links(mints, invocations) ==
    LET Ends(ix) == {account(ix, 0), account(ix, 1)}
        useful(ix) ==
            /\ plain_transfer(ix) /\ Default \notin Ends(ix)
            /\ \A key \in Ends(ix) \cap DOMAIN mints : mints[key] # Default
            /\ ~(Ends(ix) \subseteq DOMAIN mints)
        chosen == SelectSeq(invocations, useful)
    IN  [i \in DOMAIN chosen |-> <<account(chosen[i], 0), account(chosen[i], 1)>>]

Neighbours(links, key) ==
    Seqs!FlattenSeq([i \in DOMAIN links |->
        (IF links[i][1] = key THEN <<links[i][2]>> ELSE <<>>)
        \o (IF links[i][2] = key THEN <<links[i][1]>> ELSE <<>>)])

\* One account of the queue passes its mint on to the neighbours without one.
Propagate(links, s) ==
    IF s.pending = <<>> THEN s
    ELSE LET key == Head(s.pending)
             learn(t, other) ==
                 IF other \in DOMAIN t.mints THEN t
                 ELSE [mints |-> (other :> t.mints[key]) @@ t.mints,
                       pending |-> Append(t.pending, other)]
         IN  Seqs!FoldLeft(learn, [s EXCEPT !.pending = Tail(@)], Neighbours(links, key))

\* The queue starts in the order of the keys; every account enters it once.
token_mints_from_invocations(balances, keys, invocations) ==
    LET known == Seqs!FoldLeft(record, <<>>, Evidence(balances, invocations))
        links == Links(known, invocations)
        seeds == SelectSeq(keys, LAMBDA key : /\ Neighbours(links, key) # <<>>
                                              /\ key \in DOMAIN known /\ known[key] # Default)
        run[n \in 0 .. Len(keys) + 2 * Len(links)] ==
            IF n = 0 THEN [mints |-> known, pending |-> seeds] ELSE Propagate(links, run[n - 1])
        mints == run[Len(keys) + 2 * Len(links)].mints
    IN  [key \in {k \in DOMAIN mints : mints[k] # Default} |-> mints[key]]

MintOf(mints, key) == IF key \in DOMAIN mints THEN mints[key] ELSE Default

-----------------------------------------------------------------------------
(* Swaps.  A layout gives the positions of the accounts of a leg; exact says  *)
(* which amount is specified, "flag" when a byte of the data says it.         *)

Layout(protocol, pool, trader, input, output, exact) ==
    [protocol |-> protocol, pool |-> pool, trader |-> trader, input |-> input,
     output |-> output, exact |-> exact]

NoLayout == Layout("none", 0, 0, 0, 0, "")

\* Mutant: the layout of an AMM V4 swap without target orders not shifted.
AmmLayoutUnshifted(ix, exact) == Layout("RaydiumAmmV4", 1, 17, 15, 16, exact)

amm_swap_layout(ix, exact) ==
    LET shift == IF Len(ix.accounts) = 17 THEN 1 ELSE 0
    IN  Layout("RaydiumAmmV4", 1, 17 - shift, 15 - shift, 16 - shift, exact)

amm_layout(ix) ==
    LET exact == IF ix.name \in {"swap_base_in", "swap_base_in_v2"} THEN "input" ELSE "output"
    IN  CASE ix.name \in {"swap_base_in_v2", "swap_base_out_v2"} /\ Len(ix.accounts) >= 8 ->
               Layout("RaydiumAmmV4", 1, 7, 5, 6, exact)
          [] ix.name \in {"swap_base_in", "swap_base_out"} /\ Len(ix.accounts) >= 17 ->
               amm_swap_layout(ix, exact)
          [] OTHER -> NoLayout

\* Tag 1 of the data of an Orca swap is the direction a to b.
orca_layout(ix) ==
    LET a_to_b == ix.data.tag = 1
        first == IF ix.name = "swap_v2" THEN 7 ELSE 3
    IN  IF Len(ix.accounts) < IF ix.name = "swap_v2" THEN 15 ELSE 11 THEN NoLayout
        ELSE Layout("OrcaWhirlpool", IF ix.name = "swap_v2" THEN 4 ELSE 2,
                    IF ix.name = "swap_v2" THEN 3 ELSE 1,
                    IF a_to_b THEN first ELSE first + 2, IF a_to_b THEN first + 2 ELSE first,
                    "flag")

\* A trade with WSOL has the wallet of the trader for the account of the quote.
pump_layout(ix) ==
    LET quote == IF account(ix, 2) = WSOL THEN 8 ELSE 10
    IN  IF ix.name = "sell_v3" THEN Layout("PumpFun", 5, 8, 9, quote, "input")
        ELSE Layout("PumpFun", 5, 8, quote, 9, IF ix.name = "buy_v3" THEN "output" ELSE "input")

\* Buys go from the account at quote to the one at base.
TradeLayout(protocol, pool, trader, base, quote, buy, exact) ==
    Layout(protocol, pool, trader, IF buy THEN quote ELSE base, IF buy THEN base ELSE quote, exact)

swap_layout(ix) ==
    LET n == Len(ix.accounts)
    IN  CASE /\ ix.program = "raydium_clmm" /\ ix.name \in {"swap", "swap_v2"}
             /\ n >= IF ix.name = "swap_v2" THEN 13 ELSE 10 ->
               Layout("RaydiumClmm", 2, 0, 3, 4, "flag")
          [] ix.program = "orca" /\ ix.name \in {"swap", "swap_v2"} -> orca_layout(ix)
          [] /\ ix.program = "raydium_cpmm" /\ n >= 13
             /\ ix.name \in {"swap_base_input", "swap_base_output"} ->
               Layout("RaydiumCpmm", 3, 0, 4, 5,
                      IF ix.name = "swap_base_input" THEN "input" ELSE "output")
          [] /\ ix.program = "meteora_dlmm" /\ validate_swap_layout(ix) # 0
             /\ ix.name \in {"swap", "swap2", "swap_exact_out", "swap_exact_out2"} ->
               Layout("MeteoraDlmm", 0, 10, 4, 5,
                      IF ix.name \in {"swap", "swap2"} THEN "input" ELSE "output")
          [] /\ ix.program = "launchlab" /\ n >= 18
             /\ ix.name \in {"buy_exact_in", "sell_exact_in", "buy_exact_out", "sell_exact_out"} ->
               TradeLayout("LaunchLab", 4, 0, 5, 6, ix.name \in {"buy_exact_in", "buy_exact_out"},
                           IF ix.name \in {"buy_exact_in", "sell_exact_in"} THEN "input"
                                                                          ELSE "output")
          [] /\ ix.program = "pump" /\ n = 17
             /\ ix.name \in {"buy_v3", "buy_exact_quote_in_v3", "sell_v3"} -> pump_layout(ix)
          [] /\ ix.program = "pumpswap" /\ (n >= 21 \/ n = 17)
             /\ ix.name \in {"buy", "buy_v2", "buy_exact_quote_in", "buy_exact_quote_in_v2", "sell",
                             "sell_v2"} ->
               TradeLayout("PumpSwap", 0, 1, 5, 6, ix.name \notin {"sell", "sell_v2"},
                           IF ix.name \in {"buy", "buy_v2"} THEN "output" ELSE "input")
          [] ix.program = "raydium_amm" -> amm_layout(ix)
          [] OTHER -> NoLayout

\* The bytes that must be there, and be flags, for the amounts to be taken.
LegReads(ix, protocol) ==
    U64s(<<"first", "second">>)
    \o CASE protocol = "RaydiumClmm"   -> Hop(16) \o Flags(<<"exact">>)
         [] protocol = "OrcaWhirlpool" -> Hop(16) \o Flags(<<"exact", "direction">>)
         [] protocol = "PumpSwap" /\ ix.name \notin {"sell", "sell_v2"} ->
              Last(Flags(<<"track_volume">>))
         [] OTHER -> <<>>

\* The mints an instruction names itself, of the input and of the output.
explicit_pair(ix, protocol, input) ==
    LET a(i) == account(ix, i)
        Pair(from, i, j) == IF input = a(from) THEN <<a(i), a(j)>> ELSE <<a(j), a(i)>>
    IN  CASE protocol = "PumpFun" -> IF ix.name = "sell_v3" THEN <<a(1), a(2)>> ELSE <<a(2), a(1)>>
          [] protocol = "LaunchLab"   -> Pair(6, 10, 9)
          [] protocol = "RaydiumCpmm" -> <<a(10), a(11)>>
          [] protocol = "RaydiumClmm" /\ ix.name = "swap_v2"   -> <<a(11), a(12)>>
          [] protocol = "OrcaWhirlpool" /\ ix.name = "swap_v2" -> Pair(7, 5, 6)
          [] protocol = "PumpSwap"    -> Pair(6, 4, 3)
          [] OTHER -> <<Default, Default>>

\* The amounts of these protocols come in the order specified amount, threshold;
\* those of the others in the order input, output.
SpecifiedFirst == {"RaydiumClmm", "OrcaWhirlpool", "LaunchLab", "PumpFun", "PumpSwap"}

NoLeg == [protocol |-> "none"]

\* A leg with its accounts and amounts in this layout; a known mint of an account is
\* preferred to the one the instruction names.
LegAt(ix, mints, graduated, at, read) ==
    LET input  == account(ix, at.input)
        output == account(ix, at.output)
        pair   == explicit_pair(ix, at.protocol, input)
        first  == at.protocol \in SpecifiedFirst \/ at.exact = "input"
        Known(key, named) == IF key \in DOMAIN mints THEN mints[key] ELSE named
    IN  IF at = NoLayout \/ read.status # "event" THEN NoLeg
        ELSE [protocol |-> at.protocol, exact |-> at.exact,
              pool |-> account(ix, at.pool), trader |-> account(ix, at.trader),
              input_account |-> input, output_account |-> output,
              input_mint |-> Known(input, pair[1]), output_mint |-> Known(output, pair[2]),
              specified_amount |-> read.fields[IF first THEN "first" ELSE "second"],
              other_amount_threshold |-> read.fields[IF first THEN "second" ELSE "first"],
              stonkfun_graduated |->
                  at.protocol = "RaydiumCpmm" /\ account(ix, at.pool) \in graduated]

\* The amounts behind the opcode, which is one byte for AMM V4.
LegRead(ix, protocol) ==
    Decode(Args(ix, IF protocol = "RaydiumAmmV4" THEN 1 ELSE 8),
           Decoder("leg", LegReads(ix, protocol)))

LegIn(ix, mints, graduated, at) == LegAt(ix, mints, graduated, at, LegRead(ix, at.protocol))

swap(ix, mints, graduated) ==
    IF ~program_resolved(ix) \/ Unresolved \in Seqs!ToSet(ix.accounts) THEN NoLeg
    ELSE LegIn(ix, mints, graduated, swap_layout(ix))

-----------------------------------------------------------------------------
(* Transfers, actions on wrapped SOL, and the analysis. *)

NoTransfer == [amount |-> {}]

\* Token-2022 may withhold a fee that only one kind of transfer states.
transfer(ix, mints) ==
    LET to == IF plain_transfer(ix) THEN 1 ELSE 2
        needed == {account(ix, 0), account(ix, to)} \cup IF to = 2 THEN {account(ix, 1)} ELSE {}
    IN  IF ~(plain_transfer(ix) \/ checked_transfer(ix) \/ checked_transfer_with_fee(ix))
           \/ Default \in needed THEN NoTransfer
        ELSE [source |-> account(ix, 0), destination |-> account(ix, to),
              mint |-> MintOf(mints, account(ix, 0)), amount |-> {ix.data.amount},
              withheld_fee |-> IF checked_transfer_with_fee(ix) THEN {ix.data.fee}
                               ELSE IF ix.program = "spl_token" THEN {0} ELSE {}]

native_action(ix, mints) ==
    LET fund  == ix.program = "system" /\ Shaped(ix, "transfer", 12, 2) /\ ix.data.len = 12
        sync  == token_program(ix) /\ Shaped(ix, "sync_native", 1, 1) /\ ix.data.len = 1
        close == token_program(ix) /\ Shaped(ix, "close_account", 1, 3) /\ ix.data.len = 1
        target == account(ix, IF fund THEN 1 ELSE 0)
    IN  /\ fund \/ sync \/ close
        /\ Unresolved \notin Seqs!ToSet(ix.accounts)
        /\ MintOf(mints, target) = WSOL

\* Mutant: every later instruction of the group taken for a descendant.
LaterInstruction(parent, child) ==
    parent.outer = child.outer /\ child.inner > parent.inner

descendant(parent, child) ==
    /\ parent.outer = child.outer /\ child.inner > parent.inner
    /\ parent.inner # 0 =>
         parent.height # 0 /\ child.height # 0 /\ child.height > parent.height

skip_route(ix) == ix.program \in {"spl_token", "spl_token_2022", "system", "compute_budget",
                                  "associated_token", "memo"}

\* From the last invocation to the first: a walk over the children jumps over
\* what is below each of them.
invocation_analysis(invocations, mints, graduated) ==
    LET Leg(i) == IF skip_route(invocations[i].ix) THEN NoLeg
                  ELSE swap(invocations[i].ix, mints, graduated)
        Moves(i) == transfer(invocations[i].ix, mints)
        row[i \in DOMAIN invocations] ==
            LET walk[e \in i + 1 .. Len(invocations) + 1] ==
                    IF e > Len(invocations) \/ ~descendant(invocations[i], invocations[e])
                    THEN [end |-> e, has_token_transfers |-> FALSE, has_swaps |-> FALSE]
                    ELSE LET rest == walk[row[e].end]
                         IN  [end |-> rest.end,
                              has_token_transfers |->
                                  \/ Moves(e) # NoTransfer \/ row[e].has_token_transfers
                                  \/ rest.has_token_transfers,
                              has_swaps |-> \/ Leg(e) # NoLeg \/ row[e].has_swaps
                                            \/ rest.has_swaps]
            IN  walk[i + 1] @@ [transfer |-> Moves(i), leg |-> Leg(i)]
    IN  [i \in DOMAIN invocations |-> row[i]]

\* A sum of optional amounts; none when there is nothing to add, when one is
\* unknown and when it overflows.
checked_sum(amounts) ==
    LET add(sum, a) == {s + x : s \in sum, x \in a} \cap 0 .. U64Max
    IN  IF amounts = <<>> THEN {} ELSE Seqs!FoldLeft(add, {0}, amounts)

Credit(t) == {p[1] - p[2] : p \in {q \in t.amount \X t.withheld_fee : q[2] <= q[1]}}

WithAmounts(leg, moved) ==
    LET debits  == SelectSeq(moved, LAMBDA t : t.source = leg.input_account)
        credits == SelectSeq(moved, LAMBDA t : t.destination = leg.output_account)
    IN  leg @@ [actual_input_amount |-> checked_sum([k \in DOMAIN debits |-> debits[k].amount]),
                actual_output_amount |-> checked_sum([k \in DOMAIN credits |-> Credit(credits[k])])]

CallsOf(invocations) == [i \in DOMAIN invocations |-> invocations[i].ix]

\* What is reported of a transaction whose invocations have been analysed.
Report(tx, invocations, mints, analysis) ==
    LET calls == CallsOf(invocations)
        Transfers(rows) == SelectSeq([k \in DOMAIN rows |-> rows[k].transfer],
                                     LAMBDA t : t # NoTransfer)
        Route(i) == IF ~tx.succeeded THEN WithAmounts(analysis[i].leg, <<>>)
                    ELSE WithAmounts(analysis[i].leg,
                                     Transfers(SubSeq(analysis, i + 1, analysis[i].end - 1)))
        places   == [i \in DOMAIN invocations |-> i]
        legs     == SelectSeq(places, LAMBDA i : analysis[i].leg # NoLeg)
        unknown  == SelectSeq(places, LAMBDA i : /\ analysis[i].leg = NoLeg
                                                 /\ ~skip_route(calls[i]))
        native   == SelectSeq(places, LAMBDA i : native_action(calls[i], mints))
    IN  [succeeded |-> tx.succeeded,
         legs |-> [k \in DOMAIN legs |-> Route(legs[k]) @@ [position |-> invocations[legs[k]]]],
         transfers |-> Transfers(analysis),
         native_token_actions |-> [k \in DOMAIN native |-> invocations[native[k]]],
         unknown_invocations |->
             [k \in DOMAIN unknown |->
                 [position |-> invocations[unknown[k]],
                  has_token_transfers |-> analysis[unknown[k]].has_token_transfers,
                  has_known_swap_descendants |-> analysis[unknown[k]].has_swaps]]]

Analyzed(tx, invocations, mints, graduated) ==
    Report(tx, invocations, mints, invocation_analysis(invocations, mints, graduated))

AnalyzedCalls(tx, invocations, graduated) ==
    Analyzed(tx, invocations,
             token_mints_from_invocations(tx.balances, tx.keys, CallsOf(invocations)), graduated)

analyze_yellowstone_transaction_routes(tx, graduated) ==
    AnalyzedCalls(tx, transaction_invocations(tx.instructions, tx.groups), graduated)
=============================================================================
