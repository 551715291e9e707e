# A TLA+ model of sol-shred-sdk

sol-shred-sdk receives Solana block fragments ("shreds") over UDP, or decoded
entries from a Jito ShredStream proxy, reassembles the shreds of each slot into
entry batches, and turns the transactions of each batch into DEX events for the
application. This directory models in TLA+ the parts that keep state and run
concurrently, from the datagram to the delivered event, the services beside them,
and, as operators, the parsers and the route analysis. TLC checks small instances
and TLAPS proves some of the properties for every instance.
Paths below are relative to the repository, which is under `src/`.

## Inventory

| component | state | operations | how it is reached |
| --- | --- | --- | --- |
| `RawShredDecoder` (`src/src/shred/reassembler.rs`) | slot map with cursor, tombstone flag, last activity; data shreds by index; coding sets by FEC set with a failure flag; buffered-shred counter; forward watermark | `push_packet`, `evict_stale_slots` | called by `RawShredClient` |
| `RawShredClient` (`src/src/shred/client.rs`) | socket, decoder, eviction interval | `bind`, `run_entries` | awaited inside a receive task |
| `ShredStreamClient` (`src/src/shredstream/client.rs`) | shared slot for one join handle; per task: restart counter, sink; global drop counter; ALT counters | `subscribe*`, `stop`, clone, drop; tasks run `run_with_restarts` / `run_dex_with_restarts` | application threads |
| `PumpfunEventParser` (`src/src/parser/pumpfun.rs`) | LRU of processed signatures | `process_transaction`, `clear` | receive task, legacy client |
| `ShredStreamGrpc` (`src/src/grpc/mod.rs`) | bounded channel between a reader task and a parser loop | `shredstream_subscribe` | application (deprecated) |
| WebSocket server (`src/src/grpc/ws_server.rs`) | broadcast channel, one task per peer | `run_ws_server` | application |
| token log subscription (`src/src/common/logs_subscribe.rs`) | task, unsubscribe channel | `tokens_subscription`, `shutdown` | application |
| `StonkFunPoolRegistry` (`src/src/stonkfun_registry.rs`) | graduated pools by address | `observe_events`, serialize, deserialize | application |
| `HighPerformanceClock` (`src/src/core/clock.rs`) | base instant and base timestamp | `now_micros`, `recalibrate` | parsers |
| instruction, event CPI and log parsers (`src/src/instr`, `src/src/logs`) | none | gate, filter and dispatch; fixed byte layouts to event records | unified parser |
| event type filters (`src/src/grpc/types.rs`) | include and exclude lists | the test of an event type; early tests per program | parsers |
| account dispatcher and fillers (`src/src/core/account_dispatcher.rs`, `src/src/core/account_fillers`) | none | complete an event with accounts of the invocation that emitted it | parsers |
| route analysis (`src/src/transaction_route.rs`) | none | mints, legs and amounts of a transaction | application |
| legacy transaction parser (`src/src/common/logs_filters.rs`) | frame stack of one log | instructions and log lines to legacy events | token log subscription, `PumpfunEventParser` |
| same-transaction enrichment, event merger (`src/src/core/pumpfun_fee_enrich.rs`, `src/src/core/merger.rs`) | none | functions on the events of a transaction | unified parser |
| DEX and account parsers (`src/src/shredstream/pump_ix.rs`, `src/src/accounts`) | none | fixed byte layouts to event records | receive task, application |

The hard behaviours are these. Datagrams are lost, repeated, reordered and
contradictory, and shreds of several slots compete for bounded buffers while
recovery adds shreds of its own. The receive loop multiplexes the socket with a
timer. Application threads stop, subscribe, clone, drop and cancel against one
shared slot with an await in the middle, while the tasks they start and abort
fail, sleep, restart and fill queues. The services have handshakes, timeouts,
caches that forget and peers that lag. The parsers hold the same knowledge (which
events exist, at which offset, in which account) two or three times over, by hand:
in gate, filter and decoder, in two builds, in parser and filler, in parser and
route. `PROJECT.json` lists the hazards at their
lines. What makes each component correct:

- the decoder delivers the shreds of a slot in order, once, completely, as soon
  as they suffice; it keeps within its limits and its counter is right;
- the receive loop starves neither datagrams nor evictions, and evicts
  the silent slots, none earlier than the timestamp of a batch can be off;
- at most one subscription is live, none is leaked, calls return, the drop of
  the last clone ends everything, restarts are as many as configured, and every
  event is delivered in order or counted as lost;
- the services parse what they accepted, once; end when they are told to; serve
  the peers that stay; and never rewrite what they know;
- a filter loses no event it asks for, an event gets accounts only from the
  invocation that emitted it, separate decoders of the same bytes agree, and a
  route reports what was executed.

## Modules

| module | what it is |
| --- | --- |
| `RawShredDecoder` | the decoder: `DropPacket`, `RejectShred`, `StoreShred` (the three outcomes of `push_packet`) and `EvictStaleSlots` |
| `OrderedDelivery` | the abstract promise of the decoder to its caller: cursors and runs of indices only; the refinement is stated at the end of `RawShredDecoder` |
| `DecoderHistory` | the decoder with history variables, for properties that span calls; what an honest leader sends (`HonestLeader`) |
| `DecoderLoops` | the loops of the decoder as written, one iteration per step, for comparison with the closed forms |
| `RawShredClient` | the receive loop, composed with the decoder |
| `ShredStreamClient` | callers, the subscription slot, receive tasks, event sinks |
| `ShredStreamGrpc`, `PumpfunTransaction` | the legacy PumpFun client: its pipeline and caches; what is reported of one transaction |
| `TokenSubscription`, `LogFrames` | the token log subscription; the frame stack that reads a log |
| `WebSocketServer`, `StonkFunPoolRegistry`, `HighPerformanceClock` | the components of those names |
| `Layouts` | bodies, reads and decoders: the vocabulary of all parsers |
| `PumpLogs`, `PumpSwapLogs`, `RaydiumClmmLogs`, `RaydiumCpmmLogs`, `RaydiumAmmLogs`, `OrcaWhirlpoolLogs`, `MeteoraPoolsLogs` | the decoders of `src/src/logs`, one module per file or two |
| `MeteoraDamm`, `MeteoraDlmm` | the decoders of the log events and of the event CPIs, in both builds, of those two programs |
| `EventStructs`, `LogMatcher`, `EventTypeFilter` | the fields of the event structs; the dispatch of log lines; the filters |
| `InnerEvents` | the decoders of the event CPIs of the other programs, in both builds |
| `PumpInstructions`, `DexInstructions` | gate and parsers of instructions |
| `AccountFillers`, `AccountDispatcher` | completion of events with accounts |
| `TransactionRoute` | mints, legs and routes of a transaction |
| `RawShredDecoderProofs`, `DecoderBufferProofs`, `DecoderDeliveryProofs`, `DecoderLoopProofs` | theorems on the decoder: counter and cursor; buffers and recovery; delivery; its loops |
| `PumpfunProofs` | theorems on the reading of a transaction for the legacy PumpFun client |
| `RawShredClientProofs`, `ShredStreamClientProofs`, `ServiceProofs` | theorems on the components of those names, and on clock, registry, legacy client and WebSocket server |
| `MC*` | instances for TLC; `ShredStreamClient` needs none |

Definitions marked `Mutant:` are faulty variants of the definition that follows
them. They are not part of the model: each is a plausible mistake in the code
that one of the properties must notice.

### The decoder

The nested maps are flattened into sets of shreds: `slots` is the key set of the
slot map, `data` and `code` hold all buffered shreds, `next`, `active` and
`complete` are the fields of `SlotBuffer`, `failed` the coding sets with
`recovery_failed`. `misled` is a history variable: those of `failed` whose attempt
used a data shred numbered before the set. `out` is what the last call returned. A shred keeps the
fields the decoder reads and an opaque body. Functions are 0 for slots that are
not tracked, which is the value a new `SlotBuffer` starts with.

- One call is one action. `StoreShred` goes through the same stages as the code:
  make room, insert, recover, drain, note the watermark, enforce the limit; the
  counter is updated stage by stage, not recomputed.
- Loops are replaced by closed forms (`Victims`, `TakenClosers`, `Overflow`).
  `DecoderLoops` runs the loops themselves, one iteration per step, from any state
  in which `push_packet` may call them (`CallState`). The variables of the decoder
  keep the state of the call and the loops have copies of their own, so that the
  result can be compared with the closed form. It is the same in every run of
  `closed_forms`, and `DecoderLoopProofs` proves it for all inputs.
- Recovery: Reed-Solomon decoding followed by the comparison of the Merkle root
  succeeds exactly when the shards in use are those the root commits to. The
  constant `Original` says what a root commits to; a root outside its domain
  commits to no codeword. The size field of a shred is looked at only in the
  shreds a recovery adds. The signature is not part of a shard, and the code
  compares signatures within a set but does not verify the leader's signature,
  so the model's packets carry any.
- `Decodable` says which segments deserialize exactly into entries; an
  undecodable segment is consumed and yields no batch, as in the code.
- Shred sanitization in the external `solana-ledger` crate bounds a data index
  below `u32::MAX`, so `saturating_add` on the cursor does not saturate; the
  model's `MaxIndex` plays that part.
- The statistics are left out: no decision reads them.

### The receive loop

Time is discrete and counted back from the present: the present is always
`Now = GapTimeout + 1` and each instant moves down by one as time passes, cut off
at 0, since the decoder only compares an age with the timeout. A batch keeps its
own timestamp, which ages during the batch, as `batch_now` does. Three history
variables keep what the code does not know: how long the batch has been `running`,
when the last shred of a slot was really stored (`heard`), and how long its batch
had been running then (`lag`). The eviction
interval ticks on a fixed grid and skips missed ticks. The kernel buffer is a
bounded queue; a datagram that finds it full is lost.

### The subscription client

A call moves through `take` (under the lock), `abort`, `await`, `spawn` (under
the lock) and back to `idle`; each is a step of its own, so calls of different
clones interleave at every point where the code releases the lock. A caller may
drop the future of its call at the await (`Cancel`), which detaches the task. An
aborted task goes on until the runtime stops it at an await (`Killed`), never in
the middle of a batch, since parsing and delivery have no await. Raw UDP and Jito
tasks, built-in and custom parsers, share this control. `run_once` and
`run_dex_once` return only errors (the raw loop has no other exit, and the Jito
loop reports the end of the stream as an error), so the branch that resets the
restart counter is not reachable and has no action. A batch is the number of its
events. Callbacks are assumed to return; a callback that panics would end its
task, which is not modelled.

### The services

`MCServices` composes seven of them, which share no state, so that each behaviour
runs one and the others rest.

- `ShredStreamGrpc`: reader task, channel, parser loop, concurrent direct calls
  of `process_pumpfun_transaction_shreder`. A transaction stands for its
  signature. Each look-up and insertion in an LRU is one step, as it is under the
  lock or on an owned parser; parsing is a later one.
- `PumpfunTransaction`: the two processors as operators on a sequence of
  instructions, `tx`, which the sender (external) extends by any instruction. An
  instruction has an operation, a mint, a user, an amount and a shape that says
  whether both, one or none of the two instruction parsers accept it. A loop over
  a sequence is a recursive function of the number of elements it has seen:
  `Picked` for a pass of an instruction parser, `Collected` for the loop of a
  processor. The payloads of third parties and the hops of a route carry no amount;
  one event stands for the hops of an instruction.
- `LogFrames`: the runtime (external) executes calls that log, succeed and fail;
  each line goes to the parser as it is written, until the log is truncated.
  `history` keeps for every event the calls it was logged under.
- `TokenSubscription`: caller and task, with the ready and the unsubscribe
  channel between them. Timeouts may fire whenever they are armed. The caller may
  drop the subscribe future, the handle or the shutdown future at any point.
- `WebSocketServer`: messages are numbered; the broadcast channel (external)
  keeps the last few and tells a receiver that was lapped.
- `StonkFunPoolRegistry`: the map is the set of its entries; the order of a batch
  does not matter since the code compares each entry with the index and with the
  batch so far. A restart restores any snapshot that was written.
- `HighPerformanceClock`: the wall clock (external) is the monotonic clock plus a
  skew that may change at any time. Each read of a clock is a step, and time may
  pass between any two, as when the thread is preempted: `ReadMonotonic`,
  `ReadWall` and `ReadAfter` are a sample of construction or reset, of which the
  fastest of three becomes the base; `ReadMonotonic` and `ReadUtc` are the single
  comparison of a recalibration. `knownSkew` and `gaps` are history: the skew at
  the last comparison, and how long the comparisons of the last calibration took.

### The parsers

A body of bytes is abstracted to its length, the length of the strings and
vectors in it, a tag byte and the offset of one byte that is neither 0 nor 1. A
decoder is the sequence of its reads with its size checks, and the value of a
field is the range of bytes it comes from: that is what two decoders of the same
body can agree or disagree on. A read behind the end of the body is `None` when
it is checked and a fault when it is not. Discriminators are names; that a number
is typed correctly is not visible in the model. An invocation has a program, the
name of its instruction, a body and a list of account keys, in which `Acct(k)` is
the key at position k unless a program or a derived address stands there. An
event has its type, the accounts of its fields and the fields read from the data.

The fillers say which position of which layout goes to which field. The
dispatcher takes an invocation only if it is the only one of its program whose
layout fits and whose accounts agree with every field the event already has.

### Routes

An account index behind the keys of the transaction gives the key `Unresolved`.
An optional amount is a set of at most one element. Mints come from token balances
and from instructions that name the mint of an account; contradictory evidence
marks an account as ambiguous for good; then mints spread over transfers, by a
queue, breadth first. An execution is a sequence of invocations with depths; the
transaction's metadata records it with or without heights, with the groups of
inner instructions in or out of order. Legs and unknown invocations are then
computed as in the code, with the jumps over subtrees.

## Runs

| run | instance | what it shows |
| --- | --- | --- |
| `fec_one_slot` | one slot, two FEC sets of two data and two coding shreds, twelve odd shreds (conflicting body, foreign signature, foreign set, numbered before its set, oversized, bad headers, a root of no codeword) and three framings, in every order and any number of times | liveness of what is held, uniform coding sets, no finished segment and no possible recovery left waiting, sticky failure justified, first shred wins, cursor monotone |
| `slots_and_limits` | three slots, room for two, three buffered shreds, two instants further apart than the timeout, in any order | counter, limits and `OrderedDelivery` implemented, under capacity, overflow and timeout evictions |
| `recovery_complete` | two aligned FEC sets and a later slot, leader's shreds only, every order, loss, repetition, with the watermark | any sufficient subset of a set yields its data; delivery advances; batches never go back to a lower slot |
| `closed_forms` | all buffers of five indices; all distributions over four slots | the loops, run iteration by iteration, end with the results of the closed forms |
| `client_loop` | two slots, a socket of two datagrams, batches of two, timeout two | evictions and reads both happen; by the true instants of their last shreds, ticks take every silent slot, and none too early by more than its last batch had been running |
| `subscription` | two callers, two tasks, one restart, fairness | no leaked task, exclusive slot, calls return, the last drop ends all tasks, a task ends for a cause |
| `event_delivery` | one caller, two tasks, queue of two, four events each | order, at-most-once, losses counted |
| `services` | the seven services, one per behaviour | the two processors agree, conserve amounts and announce the right token; deduplication is exact; accepted transactions are parsed; frames match the execution; the clock's error is bounded by a millisecond and the time its comparison took; subscriptions end; peers are served; the registry is stable |
| `parsers` | one call per behaviour, for every supported instruction, log event and event CPI | events are completed from their emitter and completely; filters lose nothing; builds and parsers agree; legs agree with events; mints follow the evidence; routes follow the execution |
| `capacity_claim`, `restart_claim`, `swap2_size` | see Findings | the stated claim is violated |

What the properties of `parsers` leave out, each for a reason in the code: the
Raydium AMM V4 fillers supply only some accounts, so `LoneInvocationCompletes`
leaves that program out; three instructions are parsed but not let through by the
gate for shreds (`BehindTheGate`); a scoped Pump.fun filter for one kind of trade
lets the whole family through, as the test at
`src/src/logs/optimized_matcher.rs:2013` wants; the DAMM swap2 CPI is the subject
of a finding and not of `DecodersAgree`; cashback sells of Pump.fun have all 17
accounts; `LegAgreesWithEvent` speaks of the instructions that make a leg. An
account without evidence between two different mints takes the nearer one, and
between equally near ones the first in the transaction: `MintsFromEvidence` says
so, since the code does it.

Bounds. Two FEC sets and two segments are the least with which one shred can
close several segments and one drain can leave a later coding set alive. Three
slots against two places give evicted, surviving and newcoming slots; three
buffered shreds are exceeded both by an insertion and by a recovery. Two callers
race for the slot; the third task is what the loser of a race spawns. A queue of
two with batches of two fills, drains and overflows. Four instructions over an
alphabet of fifteen hold a create, a second one, and trades of and beside the
creator before and after; sums saturate at `U64Max = 3`. A channel of one place
meets bursts of two, and a cache of two signatures forgets among three. Four
invocations and two events nest a failing call in a succeeding one and the other
way round. A broadcast channel of one place and three messages let a peer lag and
catch up. A batch of two migrations conflicts within itself. Skews of one in either direction
differ by two, so that a recalibration finds both tolerable and intolerable drifts
of either sign; three units of time pass between any two reads, so that the samples
of a construction differ and a preempted recalibration is itself recalibrated. Parsers are
called with the shortest accepted and the next shorter body and every number of
accounts that selects a layout; CPI bodies have every length. Four accounts,
with every combination of evidence, and three transfers in every order give
paths, forks and ties; `MaxCalls = 4` invocations nest a swap in a router with
transfers before, in and after it, and `U64Max = 5` is exceeded by three
transfers. `MaxEvents` and
`MaxBatchEvents` bound the events, the set of tasks bounds the subscriptions
(`MaySubscribe` reserves a task for each subscribe call under way, so that no
call gets stuck on the bound). `MaxU32` stands for `u32::MAX`. Deadlock is not
checked for the subscription client and the services: when all clones are dropped
and all queues are empty, or a service has ended, nothing is left to do, and that
is as it should be. A behaviour of `parsers` is one call and then ends, one of
`closed_forms` is one loop that returns.

Fairness. `RawShredClient`: time passes and the task is polled (weak fairness);
`select!` polls its branches in random order, so a tick that keeps being due is
eventually taken although the socket is readable each time (strong fairness of
`Tick`). `ShredStreamClient`: callers poll the calls they do not cancel, sleeps
end, a batch is finite and callbacks return (weak fairness); an aborted task that
keeps finding its futures ready is stopped by tokio's cooperative budget or at
its next yield (strong fairness of `Killed`). Nothing is assumed of the network,
of connection attempts or of the consumer. `TokenSubscription`: the RPC server
answers or the connection fails, callbacks return, timers fire; `select!` takes
its branches in random order, so a stop signal and an abort are noticed although
the stream is busy (strong fairness). `WebSocketServer`: peer tasks are scheduled,
a write completes or fails, the handshake timer fires. `ShredStreamGrpc`: reader
and parser loop are scheduled; nothing is assumed of the stream.

## Findings

- `capacity_claim`: `src/src/shred/config.rs:14` calls `max_tracked_slots` the
  "Number of incomplete slots kept in memory." `admit_slot` counts all entries of
  the slot map, completed tombstones included, so an incomplete slot is evicted
  while fewer incomplete slots than that are kept. With a long run of completed
  slots the room for incomplete ones shrinks accordingly.
- `restart_claim`: `src/src/shredstream/config.rs:62` describes
  `max_reconnect_attempts` as "Maximum restart attempts after a receive-loop
  error." The counter is never reset (its reset branch is unreachable), so it
  bounds the errors of the task's whole life: a loop that reconnected and was
  receiving ends on its next error without any restart attempt.

- `swap2_size`: `parse_swap2_borsh` (`src/src/instr/all_inner/meteora_damm.rs`)
  checks for 177 bytes, the sum its comment states at line 169, and then reads
  fields that end at byte 179 with unchecked reads; the terms of the comment add
  up to 179. The zero-copy build reads the last field two bytes earlier.

## Proofs

All hold for every value of the constants that satisfies the assumptions of the
modules: slots and instants are naturals, limits are naturals of any size, a
packet is a shred or none with any fields (the instances of TLC are a few of
them), finitely many data shreds stand behind each root, at most one per index;
instants of the receive loop from 0 to `Now` are instants of the decoder; `None` is
not a task; there are finitely many migrations. One theorem assumes an honest leader,
as said below. An action property is proved as
the box action it is, a safety invariant from an inductive one that implies it.

`RawShredDecoderProofs`

- `CountCorrect`: `Spec => [](TypeOK /\ BufferedCount)`. `BufferedCount` alone is
  not inductive: an insertion adds one to the counter and to the buffers only if
  the shred was not buffered, and removal subtracts what the removed slots hold.
  The inductive invariant `CountInv` is `TypeOK` with `BufferedCount`; the
  argument splits every buffer into removed and kept parts (`SplitBySlot`,
  `SplitByPart`, `RemovalCounts`), shows that stored and restored shreds are new
  (`InsertFacts`, `RestoredFacts`) and follows the stages of `StoreShred`
  (`StoreCount`). `HighestShred` makes the `CHOOSE` of the cursor well defined.
- `CursorNeverRewinds`: `Spec => CursorMonotone`, from `CountInv` for the types
  and `CursorAfterAdvances` for the drain.

`DecoderBufferProofs`. The stages of a call get names (`D2`, `C2`, `Ends`,
`Cursor`, `D3`, `C3`, `Evicted`), `StoreEffect` says that they are those of
`StoreShred`, and every other step is nothing or a `Removal` of some slots
(`StepCases`). Then each theorem has one lemma for a removal and one for a stored
shred.

- `NothingDeadIsHeld` and `CodingSetsAgree`, from `LiveInv`: `CountInv`,
  `HeldIsLive` and `CodingSetsUniform` together. They need each other. That
  no index is held twice after a recovery rests on the header of the set being
  that of any member; that failure flags have a set rests on the filter at the end
  of the call.
- `FirstShredIsKept`: an action property; restored shreds only go to vacant
  indices.
- `NothingReadyWaits`: when a shred is stored behind a gap nothing closes that did
  not close before; when the shred at the cursor is there the drain takes every
  closer up to the slot's last.
- `StaysWithinLimits`: evicting by last activity, then by slot, always ends within
  the limit, because completed slots hold nothing (`HeldIsLive`) and `Older` orders
  the slots; room is made before a slot is opened (`LimitInv`).
- `NoRecoveryWaits`: per coding shred (`Settled`); a set other than that of the
  stored shred only loses shreds (`OtherSetSettled`), its own is attempted
  (`OwnSetSettled`), and a successful attempt fills every index (`RecoveryFillsSet`).
- `StickyFailureIsRight`: the shreds of a set that are not numbered before it are
  never replaced or lost while its coding shreds are held (`SetSurvives`), so the
  fault stays (`PartReconstructs`). The property allows two exceptions, both of which
  the shreds really held decide: a data shred numbered before its own FEC set fails
  the attempt (`reassembler.rs:652`) and may be drained afterwards, so a set whose
  attempt used one is `misled`; and a negative size in a missing shred fails the
  attempt until the shred itself arrives (`SizeOverlooked`). The flag of a set that
  is not `misled` is justified for good. The invariant
  `StickyInv` says that such a set does not reconstruct even without the shreds
  numbered before it (`Proper`), some of which may be stored and delivered after the
  attempt; a set that reconstructs holds none (`ReconstructsProper`), so `StickyInv`
  is the stronger one. TLC violates the property without the first exception,
  and in `fec_one_slot` the second set fails both with and without such a shred.

`DecoderDeliveryProofs`

- `DecoderKeepsItsPromise`: `Spec => ImplementsOrderedDelivery`, the refinement.
  A removal is a `Forget` of the abstract module, a stored shred a `Deliver`
  (`StoreIsDeliver`), all else stutters. `SegmentIsRun` and `BatchesAreRuns` show
  that the closed form of a segment is a run from the end of the one before;
  `CursorsBounded` strengthens `LiveInv` with the bound of the cursor.
- `NothingDeliveredTwice`: with the invariant that what was handed out lies behind
  the cursor as long as the slot is tracked (`DeliveredInv`).
- `EmissionNeverGoesBack`: under `forward_slot_watermark`, as the property is meant;
  with the invariant that no slot seen is above the watermark (`SeenInv`).
- `SufficientSetsAreRecovered`: if `HonestLeader` then
  `HSpec => []EverySufficientSetIsRecovered`. `HonestLeader` restricts what arrives,
  not how: the FEC sets of a slot are disjoint runs whose shreds share header and
  signature, a segment ends only with its set, and every shred is one of those or
  a well-formed coding shred of its set, one per position; loss, repetition, order,
  limits and evictions stay free. TLC evaluates it for its instances
  (`LeaderIsHonest`). The property is false without it: a segment that ends inside a
  set costs the set its coding shreds. By `SentInv` only such shreds are buffered and
  no recovery ever fails (`HonestReconstructs`). By `KeptInv` the cursor has passed
  the whole set or stands before it, and then every received data shred of it is
  held, and all received coding shreds or else all of its data. With `NoRecoveryWaits` that is
  enough (`KeptSuffices`): a set with too few shreds held has too few received.

`DecoderLoopProofs`

- `LoopsComputeClosedForms`: `LoopSpec => []ClosedFormsAgree`. `ClosedFormsAgree`
  speaks of loops that have returned, so it needs an invariant of the iterations,
  `LoopInv`. Of the drain: what the scan has passed is contiguous and the cursor
  stands behind the last closing shred passed (`ScanInv`); the last shred of the
  slot ends the loop (`EndInv`); what is left and counted as removed (`LeftInv`);
  what is emitted are the batches of the closing shreds passed, in index order
  (`EmitInv`). Of the buffer limit: the slots evicted so far are a prefix of the
  eviction order, and each had to go (`EnforceInv`). Of the admission: at most one
  slot is removed, the lowest of a full map, since the map is never overfull
  (`AdmitInv`). So the closed forms need no trust: the theorems on the decoder are
  theorems on the loops.
- `LoopsCalledAsAssumed`: `Spec => []CalledAsAssumed`. The states from which the
  loops are run above (`CallState`: the counter is right, only incomplete slots
  hold shreds, nothing is behind a cursor, no index is taken twice) are those in
  which `push_packet` calls them, before the admission, before the drain and before
  the limit is enforced, for all traffic (`StagesCallable`).

`RawShredClientProofs`

- `LoopKeepsDecoderInvariants`: the invariants above for the decoder as the receive
  loop drives it, where instants move down as time passes and so `active` changes
  outside of any call (`AgeingKeepsDecoder`).
- `TicksTakeOnlyTheSilent`: `ClientSpec => TicksTakeTheSilent`. A shred is stamped
  with the beginning of its batch (`src/src/shred/client.rs:64`), so a slot looks
  silent for longer than it is, and a tick may take one that stored a shred within
  the timeout. The property measures silence by the true instants (`heard`): every
  slot silent for longer than the timeout is taken, and the error in the other
  direction is at most what the batch of the last shred had been running. It rests on
  `StampsLag`: a running batch is stamped with its beginning, and the last activity
  of an open slot is at most `lag` before its last shred, and never after it.

`ShredStreamClientProofs`

- `NoTaskIsLeaked` and `SubscriptionIsExclusive`, from one inductive invariant
  `OwnershipInv`: every running task is in the slot, held by exactly one call, or
  detached, and detached tasks have been aborted; the slot's task is neither
  aborted nor held; a call belongs to a clone that exists and what it holds has
  been spawned. The properties alone are not inductive because they do not say
  what a call that is about to spawn, abort or wait may hold.
- `TasksEndForCause`: an action property, from `OwnershipInv` and the bound of the
  restart counter (`RestartInv`).
- `NoEventIsMiscounted`: what the subscriber saw and what is queued form one
  increasing sequence, and the drop counter is the number of events that are in
  none (`EventInv`); `NextInLine` says what one more event does to them.

`ServiceProofs`

- `ClockErrorIsBounded`: `ClockSpec => []ErrorIsBounded`. The error is that of a
  timestamp against the wall clock as it was at the last comparison. Behind, it is at
  most the tolerated millisecond. Ahead, it is at most that millisecond and the time
  between the two reads of the comparison: the base takes the monotonic clock of the
  first read and the wall clock of the second. For construction and reset this is the
  fastest of three samples (`BestIsLeast`), for a recalibration the only one, so a
  preemption between `src/src/core/clock.rs:130` and `131` makes every timestamp run
  ahead by its length until the next recalibration, which finds and removes it. The
  invariant `ClockInv` adds to the bound what holds between the reads: the offset of
  a sample is the time between its two reads (`ReadsInOrder`), and the best sample
  so far is off by no more than any sample took (`BestIsLeast`).
- `RegistryIsStable`: `RegistrySpec => ProvenanceIsStable`. An action property; it
  needs the invariant `RegistryInv`, that the index and every snapshot hold one
  well-formed entry per pool. `JoiningEntries` shows that a batch without conflict
  keeps that, `EntriesOfBatch` that a batch is finite, so that a count is never
  mistaken for an error.
- `RepetitionsAreCaught`: `GrpcSafety => []DedupWindow`. The inductive invariant
  (`WindowInv`) says of each cache which signatures stand before a given one: exactly
  those looked up since. A cache is ordered by last look-up, so a signature is
  forgotten exactly when as many others as the cache holds came after it.
- `PeersMissNothingSilently`: `WsSafety => [](\A p \in Peer : Accounted(p))`, the
  safety conjunct of `PeersServed`; `WsInv` adds the types and the place of the
  receiver.

`PumpfunProofs`

- `FramesFollowExecution`: `LogSafety => []FramesMatchExecution`, for every nesting of
  calls. `LogInv` says that the parser has a frame for each running call, which
  lists the surviving events whose innermost running call it is, and that the
  result lists those that have outlived all their calls (`FrameInv`). That a frame
  joins its parent's in order, and that a failure takes back exactly the events of
  one frame, rests on how executions are nested (`CallInv`): the calls around an
  event are a prefix of the stack, and later events are under every call of an
  earlier one that still runs. After a truncation nothing joins the result, and what
  is in it has outlived its calls, so no failure takes it back (`CutInv`).
- `ProcessorsMakeTheSameCallbacks`, `NoAmountLost`, `LastTokenAnnounced`:
  `TransactionSafety => []ProcessorsAgree`, `[]AmountsConserved` and
  `[]CreatedTokenAnnounced`, for transactions of any length. As invariants of `tx`
  they rest on its type alone; the work is in the loops. `LoopExists` shows that a
  function given by its value of one round before exists, so `Picked`, `Collected`
  and `Sums` follow their defining rounds, and `EachRound` is induction along the
  rounds, with the rounds for which a fact holds as a set. Then:
  - `SourcesTake`: the list of a processor takes exactly the accepted instructions,
    those of PumpFun in their order, so its create instructions are those of the
    transaction in order, and (`ListWorth`) it is worth what they trade;
  - `TokenTracked`: the token is that of the last create instruction so far, a
    processor that has seen none keeps no buys, and with a single one the buys it
    keeps are its creator's;
  - `CollectedAccounts`: what is reported plus what is kept is what was traded so
    far; the sum may saturate, but never exceeds it;
  - `StepsAlike`: while no second token was created the two `Step`s do the same, as
    a buy by the creator always matches the buys kept so far.

Only TLC checks:

- the liveness properties (`CallsReturn`, `LastDropEndsTasks`, `StaleSlotsLeave`,
  `DatagramsAreRead`, `SubscriptionEnds`, `AcceptedAreParsed`, the rest of
  `PeersServed`): fairness is beyond the prover;
- the properties of `MCParsers`: recursive definitions and finite enumerations of
  inputs.

## Not modelled

- `src/src/core/merger.rs`, `src/src/core/pumpfun_fee_enrich.rs`,
  `src/src/shredstream/pump_ix.rs`, `src/src/shredstream/pump_multi_hop.rs` and
  `src/src/accounts`: pure functions, in the plan below.
- `src/src/core/unified_parser.rs`, `src/src/shred/decoder.rs`,
  `src/src/core/cache.rs`: calls of what is modelled, of a library, and a scratch
  buffer.
- The address lookup resolver of `ShredStreamClient` and its counters;
  `clear_dedup` of `PumpfunEventParser`; the fee flag of
  `src/src/core/common_filler.rs`; the StonkFun mode of a LaunchLab leg.
- `src/src/cpmm_creator_fee.rs`, `src/src/stock_catalog.rs`: tables.
- `src/src/connector`, `src/src/decoder` and `src/src/main.rs` are not built
  (`autobins = false`, excluded in `Cargo.toml`, not declared in `lib.rs`). The
  tools and examples beside the library are not part of it.

Shred parsing, Reed-Solomon, Merkle proofs and wincode are external libraries
and appear as constants. Two limits of the decoder are known and stated rather
than checked: once the tombstone of a completed slot has been evicted the slot
can be admitted and delivered again, and a segment that ends inside an FEC set
costs the set its coding shreds.

## Plan

Done: decoder, receive loop, subscriptions, abstract delivery, the theorems above;
the legacy client, token subscription, WebSocket server, registry and clock;
instruction, CPI and log parsers, filters, fillers and dispatcher; routes.

1. The pairing of the event merger, enrichment, and the outer-instruction walk of
   `pump_ix.rs`, to be compared with the instruction parsers of `src/src/instr`.
2. Composition of `ShredStreamClient` with the decoder across restarts: what a
   restart loses and may deliver again.
3. Account parsers, the address lookup resolver.
