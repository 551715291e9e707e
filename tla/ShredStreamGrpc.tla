-------------------------- MODULE ShredStreamGrpc --------------------------
(* The legacy PumpFun client: shredstream_subscribe couples a reader task  *)
(* and a parser loop by a bounded channel, process_pumpfun_transaction_    *)
(* shreder is called concurrently by any number of callers, and each side  *)
(* remembers recent signatures in an LRU cache so that a transaction that  *)
(* arrives twice is reported once.                                         *)
(*                                                                         *)
(* A transaction stands for its signature; what its callbacks report is    *)
(* the subject of PumpfunTransaction.                                      *)
EXTENDS Integers, Sequences, FiniteSets, Functions

CONSTANTS
    Tx,               \* transactions
    Unsigned,         \* those without a signature
    ChannelSize,      \* CHANNEL_SIZE
    DedupCapacity,    \* dedup_capacity, and the capacity of PROCESSED_TXS
    Call,             \* concurrent calls of the shreder processor
    Idle,             \* no transaction
    MaxArrivals       \* bound: transactions that arrive

ASSUME GrpcAssumption ==
    /\ Unsigned \subseteq Tx /\ Idle \notin Tx
    /\ ChannelSize \in Nat /\ DedupCapacity \in Nat \ {0} /\ MaxArrivals \in Nat

VARIABLES
    reader,       \* the reader task: "reading" or "ended"
    batch,        \* transactions of the current message still to be sent
    channel,      \* the mpsc channel
    subscriber,   \* the subscribe call: "running", "returned" or "dropped"
    processed,    \* PumpfunEventParser::processed, most recent first
    processedTxs, \* PROCESSED_TXS, most recent first
    call,         \* call -> the transaction it is parsing
    arrivals,     \* transactions received so far
    since,        \* history: per cache and transaction, the signatures looked
                  \* up after its last look-up
    verdict       \* history: the last decision to parse or to skip

grpcVars == <<reader, batch, channel, subscriber, processed, processedTxs, call,
              arrivals, since, verdict>>

Cache == {"parser", "global"}
Never == {Idle}

GrpcInit ==
    /\ reader = "reading" /\ batch = << >> /\ channel = << >>
    /\ subscriber = "running"
    /\ processed = << >> /\ processedTxs = << >>
    /\ call = [c \in Call |-> Idle]
    /\ arrivals = 0
    /\ since = [k \in Cache |-> [t \in Tx |-> Never]]
    /\ verdict = [fresh |-> TRUE, others |-> Never]

\* The place t leaves, or the one it takes: the next free one, or the last
\* one when the cache is full.
Place(cache, t) ==
    IF t \in Range(cache) THEN CHOOSE i \in DOMAIN cache : cache[i] = t
    ELSE IF Len(cache) < DedupCapacity THEN Len(cache) + 1
    ELSE DedupCapacity

\* LruCache::put: the key moves to the front, those before its place move back
\* by one, and the least recently used one leaves a full cache for a new key.
Put(cache, t) ==
    [i \in DOMAIN cache \cup {Place(cache, t)} |->
        IF i = 1 THEN t
        ELSE IF i <= Place(cache, t) THEN cache[i - 1]
        ELSE cache[i]]

\* Both histories are about the look-up of t in cache k.
Decide(k, cache, t) ==
    /\ verdict' = [fresh |-> t \notin Range(cache), others |-> since[k][t]]
    /\ since' = [since EXCEPT ![k] =
         [u \in Tx |-> IF u = t THEN {}
                       ELSE IF @[u] = Never THEN Never ELSE @[u] \cup {t}]]

-----------------------------------------------------------------------------
(* shredstream_subscribe *)

\* A message arrives and deserializes; its entries hold one or two transactions.
ReadMessage ==
    /\ reader = "reading" /\ batch = << >>
    /\ \E b \in {<<t>> : t \in Tx} \cup {<<t, u>> : t, u \in Tx} :
         /\ arrivals + Len(b) <= MaxArrivals
         /\ batch' = b /\ arrivals' = arrivals + Len(b)
    /\ UNCHANGED <<reader, channel, subscriber, processed, processedTxs, call,
                   since, verdict>>

\* try_send: lost without a trace when the channel (which has one place more
\* for its single sender) is full or the receiver is gone.
TrySend ==
    /\ batch # << >>
    /\ batch' = Tail(batch)
    /\ channel' = IF subscriber = "running" /\ Len(channel) < ChannelSize + 1
                  THEN Append(channel, Head(batch)) ELSE channel
    /\ UNCHANGED <<reader, subscriber, processed, processedTxs, call, arrivals,
                   since, verdict>>

\* The stream ends or fails: the task returns and drops the sender.
StreamEnds ==
    /\ reader = "reading" /\ batch = << >>
    /\ reader' = "ended"
    /\ UNCHANGED <<batch, channel, subscriber, processed, processedTxs, call,
                   arrivals, since, verdict>>

\* process_transaction: the signature is remembered before anything is parsed.
ProcessTransaction ==
    /\ subscriber = "running" /\ channel # << >>
    /\ channel' = Tail(channel)
    /\ LET t == Head(channel) IN
         IF t \in Unsigned THEN UNCHANGED <<processed, since, verdict>>
         ELSE processed' = Put(processed, t) /\ Decide("parser", processed, t)
    /\ UNCHANGED <<reader, batch, subscriber, processedTxs, call, arrivals>>

\* Mutant: the call returns as soon as the stream has ended.
ReturnWithoutDraining ==
    /\ subscriber = "running" /\ reader = "ended"
    /\ subscriber' = "returned"
    /\ UNCHANGED <<reader, batch, channel, processed, processedTxs, call, arrivals,
                   since, verdict>>

\* The channel is closed and drained: shredstream_subscribe returns.
Return ==
    /\ subscriber = "running" /\ channel = << >> /\ reader = "ended"
    /\ subscriber' = "returned"
    /\ UNCHANGED <<reader, batch, channel, processed, processedTxs, call, arrivals,
                   since, verdict>>

\* The caller drops the subscribe future; the reader task goes on.
DropSubscribe ==
    /\ subscriber = "running"
    /\ subscriber' = "dropped" /\ channel' = << >>
    /\ UNCHANGED <<reader, batch, processed, processedTxs, call, arrivals, since,
                   verdict>>

-----------------------------------------------------------------------------
(* process_pumpfun_transaction_shreder *)

\* Mutant: looked up under the lock, remembered only when the call is done.
LookUpOnly(c, t) ==
    /\ call[c] = Idle /\ arrivals < MaxArrivals
    /\ arrivals' = arrivals + 1
    /\ IF t \in Unsigned
       THEN UNCHANGED <<processedTxs, call, since, verdict>>
       ELSE /\ Decide("global", processedTxs, t)
            /\ call' = IF t \in Range(processedTxs) THEN call
                       ELSE [call EXCEPT ![c] = t]
            /\ UNCHANGED processedTxs
    /\ UNCHANGED <<reader, batch, channel, subscriber, processed>>

\* Under the lock of PROCESSED_TXS the signature is looked up and remembered.
BeginShreder(c, t) ==
    /\ call[c] = Idle /\ arrivals < MaxArrivals
    /\ arrivals' = arrivals + 1
    /\ IF t \in Unsigned
       THEN UNCHANGED <<processedTxs, call, since, verdict>>
       ELSE /\ Decide("global", processedTxs, t)
            /\ call' = IF t \in Range(processedTxs) THEN call
                       ELSE [call EXCEPT ![c] = t]
            /\ processedTxs' = Put(processedTxs, t)
    /\ UNCHANGED <<reader, batch, channel, subscriber, processed>>

\* Outside the lock: parse, and report or fail.  Either way the call returns.
FinishShreder(c) ==
    /\ call[c] # Idle
    /\ call' = [call EXCEPT ![c] = Idle]
    /\ UNCHANGED <<reader, batch, channel, subscriber, processed, processedTxs,
                   arrivals, since, verdict>>

GrpcNext ==
    \/ ReadMessage \/ TrySend \/ StreamEnds
    \/ ProcessTransaction \/ Return \/ DropSubscribe
    \/ \E c \in Call : FinishShreder(c) \/ \E t \in Tx : BeginShreder(c, t)

GrpcSafety == GrpcInit /\ [][GrpcNext]_grpcVars

\* The reader task and the parser loop are scheduled; nothing makes the stream
\* end or deliver.
GrpcFairness == WF_grpcVars(TrySend) /\ WF_grpcVars(ProcessTransaction) /\ WF_grpcVars(Return)

-----------------------------------------------------------------------------
(* A transaction is parsed again exactly when at least DedupCapacity other *)
(* signatures were looked up since it was last looked up, whatever calls   *)
(* run concurrently, and even if its earlier parse failed: within the      *)
(* window it is reported at most once, and a repetition renews the window  *)
(* (parser/pumpfun.rs:70, grpc/mod.rs:154-161).                            *)
DedupWindow ==
    verdict.fresh <=>
        (verdict.others = Never \/ Cardinality(verdict.others) >= DedupCapacity)

(* What try_send accepted is parsed: after a burst the channel drains, the *)
(* call returns only with an empty channel, and it does return once the    *)
(* stream has ended, unless the caller drops it (grpc/mod.rs:86-124).      *)
AcceptedAreParsed ==
    /\ (channel # << >>) ~> (channel = << >>)
    /\ (reader = "ended") ~> (subscriber # "running" /\ channel = << >>)
=============================================================================
