--------------------------- MODULE RawShredClient ---------------------------
(***************************************************************************)
(* The receive loop of src/src/shred/client.rs around the decoder: a UDP   *)
(* socket, batches of try_recv that share one timestamp, and the interval  *)
(* that calls evict_stale_slots, multiplexed by tokio::select!.            *)
(*                                                                         *)
(* Instants are counted back from the present, which is always Now, and    *)
(* are cut off at 0: only differences of instants matter to the decoder,   *)
(* and an age beyond the timeout need not be told from a greater one.      *)
(***************************************************************************)
EXTENDS RawShredDecoder, Sequences

CONSTANTS
  SocketCapacity,       \* datagrams the kernel receive buffer holds
  MaxDatagramsPerPoll   \* MAX_DATAGRAMS_PER_POLL

ASSUME ClientAssumption ==
  SocketCapacity \in Nat \ {0} /\ MaxDatagramsPerPoll \in Nat \ {0}

VARIABLES
  socket,    \* datagrams waiting in the kernel receive buffer, oldest first
  pc,        \* "select", "reading" (inside a batch) or "stopped" (returned Err)
  batchNow,  \* batch_now
  quota,     \* datagrams the current batch may still read
  phase,     \* time since the last point of the eviction interval's grid
  due,       \* the interval has an unconsumed tick
  running,   \* history: how long the batch has been running, at most Now
  heard,     \* history: slot -> the instant at which its last shred was stored
  lag        \* history: slot -> how long the batch had been running then; an
             \* incomplete slot's only, and at most heard, beyond which it is all one

clientVars == <<socket, pc, batchNow, quota, phase, due, running, heard, lag>>
allVars == <<vars, clientVars>>

Now == GapTimeout + 1
EvictionPeriod == IF GapTimeout > 1 THEN GapTimeout ELSE 1

ASSUME InstantAssumption == 0 .. Now \subseteq Time

ClientInit ==
  /\ Init
  /\ socket = <<>> /\ pc = "select" /\ batchNow = 0 /\ quota = 0
  /\ phase = 0 /\ due = FALSE
  /\ running = 0 /\ heard = [s \in Slot |-> 0] /\ lag = [s \in Slot |-> 0]

\* The network delivers any datagram at any time; the kernel drops it when the
\* receive buffer is full, so loss, duplication and reordering are all possible.
Datagram(p) ==
  /\ Len(socket) < SocketCapacity
  /\ socket' = Append(socket, p)
  /\ UNCHANGED <<vars, pc, batchNow, quota, phase, due, running, heard, lag>>

\* One unit of time passes.  A tick falls due at each point of the interval's
\* grid; ticks that fall due while one is unconsumed are skipped.
Earlier(t) == IF t > 0 THEN t - 1 ELSE 0
Longer(d) == IF d < Now THEN d + 1 ELSE Now

TimePasses ==
  /\ active' = [s \in Slot |-> Earlier(active[s])]
  /\ batchNow' = Earlier(batchNow)
  /\ phase' = (phase + 1) % EvictionPeriod
  /\ due' = (due \/ phase' = 0)
  /\ running' = IF pc = "reading" THEN Longer(running) ELSE 0
  /\ heard' = [s \in Slot |-> Earlier(heard[s])]
  /\ lag' = [s \in Slot |-> IF heard[s] > lag[s] THEN lag[s] ELSE heard'[s]]
  /\ UNCHANGED <<slots, next, complete, data, code, failed, misled,
                 buffered, watermark, out, socket, pc, quota>>

\* Mutant: the tick branch first whenever it is ready.
ReadableWhenNoTick ==
  /\ pc = "select" /\ socket # <<>> /\ ~ due
  /\ pc' = "reading" /\ batchNow' = Now /\ quota' = MaxDatagramsPerPoll
  /\ running' = 0
  /\ UNCHANGED <<vars, socket, phase, due, heard, lag>>

\* Mutant: the timestamp was taken before the wait for the socket.
ReadableSinceBefore ==
  /\ pc = "select" /\ socket # <<>>
  /\ pc' = "reading" /\ batchNow' = Earlier(Now) /\ quota' = MaxDatagramsPerPoll
  /\ running' = 0
  /\ UNCHANGED <<vars, socket, phase, due, heard, lag>>

\* select!: the readable branch.
Readable ==
  /\ pc = "select" /\ socket # <<>>
  /\ pc' = "reading" /\ batchNow' = Now /\ quota' = MaxDatagramsPerPoll
  /\ running' = 0
  /\ UNCHANGED <<vars, socket, phase, due, heard, lag>>

\* The history of a slot ends with its completion or removal.
Stores(p) == Parses(p) /\ Arrives(p) /\ Inserts(p.shred)
Kept(f) == [s \in Slot |-> IF s \in slots' \ complete' THEN f[s] ELSE 0]
Hears(p) ==
  IF Stores(p)
  THEN /\ heard' = Kept([heard EXCEPT ![p.shred.slot] = Now])
       /\ lag' = Kept([lag EXCEPT ![p.shred.slot] = running])
  ELSE heard' = Kept(heard) /\ lag' = Kept(lag)

\* try_recv, push_packet and the callback for each batch.
Receive ==
  /\ pc = "reading" /\ quota > 0 /\ socket # <<>>
  /\ PushPacket(Head(socket), batchNow)
  /\ socket' = Tail(socket)
  /\ quota' = quota - 1
  /\ Hears(Head(socket))
  /\ UNCHANGED <<pc, batchNow, phase, due, running>>

\* The batch is full or try_recv would block: yield_now and back to select!.
EndBatch ==
  /\ pc = "reading" /\ (quota = 0 \/ socket = <<>>)
  /\ pc' = "select" /\ batchNow' = 0 /\ quota' = 0
  /\ running' = 0
  /\ UNCHANGED <<vars, socket, phase, due, heard, lag>>

\* Mutant: the tick branch only when no datagram waits.
TickWhenIdle ==
  /\ pc = "select" /\ due /\ socket = <<>>
  /\ EvictStaleSlots(Now)
  /\ due' = FALSE
  /\ heard' = Kept(heard) /\ lag' = Kept(lag)
  /\ UNCHANGED <<socket, pc, batchNow, quota, phase, running>>

\* select!: the tick branch.
Tick ==
  /\ pc = "select" /\ due
  /\ EvictStaleSlots(Now)
  /\ due' = FALSE
  /\ heard' = Kept(heard) /\ lag' = Kept(lag)
  /\ UNCHANGED <<socket, pc, batchNow, quota, phase, running>>

\* readable() or try_recv fails: run_entries returns the error.
SocketError ==
  /\ \/ pc = "select"
     \/ pc = "reading" /\ quota > 0
  /\ pc' = "stopped"
  /\ UNCHANGED <<vars, socket, batchNow, quota, phase, due, running, heard, lag>>

ClientNext ==
  \/ \E p \in Packet : Datagram(p)
  \/ TimePasses
  \/ Readable \/ Receive \/ EndBatch \/ Tick \/ SocketError

\* The task is scheduled and time passes.  select! polls its branches in random
\* order, so a tick that keeps being due is eventually taken even if the socket
\* is readable every time.
ClientFairness ==
  /\ WF_allVars(TimePasses)
  /\ WF_allVars(Readable) /\ WF_allVars(Receive) /\ WF_allVars(EndBatch)
  /\ SF_allVars(Tick)

ClientSpec == ClientInit /\ [][ClientNext]_allVars /\ ClientFairness

-----------------------------------------------------------------------------
\* An incomplete slot that has been silent for longer than the timeout is
\* eventually evicted (or completes, or hears of new shreds), however fast
\* datagrams for other slots keep arriving, unless the loop stops on an error.
StaleSlotsLeave ==
  \A s \in Slot :
    (s \in slots \ complete /\ active[s] = 0)
      ~> (s \notin slots \/ s \in complete \/ active[s] > 0 \/ pc = "stopped")

\* Every datagram in the receive buffer is eventually read, whatever ticks fall
\* due: the buffer is first in, first out, and unless the loop stops on an error
\* it is either drained again and again or read from for ever.
DatagramsAreRead ==
  <>(pc = "stopped") \/ []<>(socket = <<>>) \/ []<><<Receive>>_allVars

\* How long ago a slot's last shred was stored.
Silence(s) == Now - heard[s]

\* The timeout in real time, not by the timestamps: all shreds of a batch are
\* stamped with the beginning of the batch (client.rs:64), which may be long ago
\* when they are stored.  A tick takes every incomplete slot that has stored
\* nothing for longer than the timeout.  What it takes too early, it takes too
\* early by at most the time the batch of the slot's last shred had been running
\* when it stored that shred: the error of one batch, never of several.
TicksTakeTheSilent ==
  [][due /\ ~ due' =>
       \A s \in slots \ complete :
         /\ s \in slots' => Silence(s) <= GapTimeout
         /\ s \notin slots' => Silence(s) + lag[s] > GapTimeout]_allVars
=============================================================================
