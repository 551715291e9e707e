---------------------------- MODULE MCServices -----------------------------
(* The components around the decoder that keep state of their own.  They   *)
(* share none, so each behaviour runs one of them and the others rest in a *)
(* state in which nothing has to happen.  The legacy PumpFun client has    *)
(* two parts: its pipeline, with transactions as signatures; and its event *)
(* processors, as functions of a transaction of up to MaxInstructions      *)
(* instructions over a small alphabet, built one instruction at a time.    *)
EXTENDS TokenSubscription, LogFrames, WebSocketServer, StonkFunPoolRegistry,
        HighPerformanceClock, PumpfunTransaction, ShredStreamGrpc

CONSTANTS router, pump, p1, key1, key2, key3, nokey, config, foreign, cpmm,
          m1, m2, dev, other, x, y, z, n, c1, c2

VARIABLE part

MCProgram == {router, pump}
MCPeers == {p1}
MCTx == {x, y, z, n}
MCUnsigned == {n}
TwoCalls == {c1, c2}

Moved(old, new, base, quote, platform, dest, slot) ==
    [old_pool |-> old, new_pool |-> new, base_mint |-> base, quote_mint |-> quote,
     platform_config |-> platform, destination_program |-> dest,
     signature |-> slot, slot |-> slot]

MCMigration ==
    { Moved(key1, key2, key1, key3, config, cpmm, 1),     \* a pool,
      Moved(key1, key2, key3, key1, config, cpmm, 1),     \* in conflict with it,
      Moved(key1, key2, key1, key3, config, cpmm, 2),     \* in a later slot,
      Moved(key2, key3, key1, key2, config, cpmm, 1),     \* another pool,
      Moved(key1, key3, key2, key2, config, cpmm, 1),     \* and none at all
      Moved(key1, nokey, key1, key2, config, cpmm, 1),
      Moved(key1, key1, key1, key2, foreign, cpmm, 1),
      Moved(key1, key2, key1, key3, config, foreign, 1) }
MCPlatform == {config}

Ix(op, mint, user, amount, shape) ==
    [op |-> op, mint |-> mint, user |-> user, amount |-> amount, shape |-> shape]

MCKey == {m1, m2, dev, other}
MCBotWallets == {{}, {dev}}

Alphabet ==
    { Ix("create", m, dev, 0, "full") : m \in {m1, m2} }
    \cup { Ix("buy", m, dev, 1, "full") : m \in {m1, m2} }
    \cup { Ix("buy", m1, dev, 2, "full"), Ix("buy", m1, other, 1, "full"),
           Ix("buy", m1, dev, 1, "lean"), Ix("sell", m1, dev, 1, "full"),
           Ix("sell", m1, dev, 1, "bad"), Ix("initialize", m2, dev, 0, "full"),
           Ix("launchlab_trade", m2, dev, 1, "full"),
           Ix("third_party", m1, other, 0, "full"), Ix("multi_hop", m1, dev, 1, "full"),
           Ix("transfer", m1, dev, 1, "full"), Ix("transfer", m1, dev, 2, "full") }

allVars == <<part, tx, grpcVars, subVars, logVars, wsVars, registryVars, clockVars>>

restVars == <<subVars, logVars, wsVars, registryVars, clockVars>>

\* The state of a token subscription that failed: nothing is left to happen.
SubRests ==
    /\ caller = "gone" /\ task = "ended"
    /\ ready = "error" /\ unsub = "closed" /\ abortCalled = FALSE

Init ==
    /\ part \in {"subscription", "log", "server", "registry", "clock", "transaction", "grpc"}
    /\ IF part = "subscription" THEN SubInit ELSE SubRests
    /\ LogInit /\ WsInit /\ RegistryInit /\ ClockInit /\ GrpcInit
    /\ TransactionInit
    /\ part # "clock" => skew = 0

RunService ==
    \/ /\ part = "subscription" /\ SubNext
       /\ UNCHANGED <<logVars, wsVars, registryVars, clockVars>>
    \/ /\ part = "log" /\ LogNext
       /\ UNCHANGED <<subVars, wsVars, registryVars, clockVars>>
    \/ /\ part = "server" /\ WsNext
       /\ UNCHANGED <<subVars, logVars, registryVars, clockVars>>
    \/ /\ part = "registry" /\ RegistryNext
       /\ UNCHANGED <<subVars, logVars, wsVars, clockVars>>
    \/ /\ part = "clock" /\ ClockNext
       /\ UNCHANGED <<subVars, logVars, wsVars, registryVars>>

Next ==
    /\ UNCHANGED part
    /\ \/ RunService /\ UNCHANGED <<tx, grpcVars>>
       \/ part = "transaction" /\ AddInstruction /\ UNCHANGED <<grpcVars, restVars>>
       \/ part = "grpc" /\ GrpcNext /\ UNCHANGED <<tx, restVars>>

Spec ==
    /\ Init /\ [][Next]_allVars
    /\ SubFairness /\ WsFairness /\ GrpcFairness

=============================================================================
