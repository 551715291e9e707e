-------------------------- MODULE ShredStreamClient --------------------------
(***************************************************************************)
(* The subscription client of src/src/shredstream/client.rs: clones of one *)
(* client share a slot for the join handle of the receive task; any clone  *)
(* may call stop and subscribe concurrently, a caller may drop the future  *)
(* of a call while it awaits a task, and the last clone to be dropped      *)
(* aborts the task.  The receive task connects, receives batches, delivers *)
(* their events to its sink and restarts after errors.                     *)
(*                                                                         *)
(* Raw UDP and Jito subscriptions, built-in and custom parsers follow the  *)
(* same control; a batch is abstracted to the number of events it yields.  *)
(***************************************************************************)
EXTENDS Integers, Sequences, FiniteSets

CONSTANTS
  Caller,                \* threads that may own a clone of the client
  Task,                  \* receive tasks that may be spawned
  None,                  \* Option::None
  MaxReconnectAttempts,  \* max_reconnect_attempts, 0 means forever
  MaxU32,                \* u32::MAX, where restart_attempts saturates
  QueueCapacity,         \* event_queue_capacity
  MaxBatchEvents,        \* bound: events of one batch
  MaxEvents              \* bound: events of one subscription

ASSUME NoneAssumption == None \notin Task
ASSUME ClientConstants ==
  /\ IsFiniteSet(Task)
  /\ MaxU32 \in Nat \ {0}
  /\ MaxReconnectAttempts \in 0 .. MaxU32
  /\ QueueCapacity \in Nat /\ MaxBatchEvents \in Nat /\ MaxEvents \in Nat

VARIABLES
  clones,    \* the callers that own a clone
  handle,    \* SubscriptionState.handle
  call,      \* caller -> progress of its stop or subscribe call
  phase,     \* task -> where its loop is
  aborted,   \* tasks on which abort was called
  detached,  \* tasks whose join handle was dropped
  attempts,  \* task -> restart_attempts
  sink,      \* task -> "queue" or "callback"
  pending,   \* task -> events of the current batch not yet delivered
  made,      \* task -> events produced so far; events are numbered by it
  queue,     \* task -> events in its ArrayQueue
  taken,     \* task -> events the consumer or the callback received
  dropped    \* DROPPED_EVENTS

callVars == <<clones, handle, call, aborted, detached>>
eventVars == <<sink, pending, made, queue, taken, dropped>>
vars == <<clones, handle, call, phase, aborted, detached, attempts, eventVars>>

SinkKind == {"queue", "callback"}
Idle == [pc |-> "idle", task |-> None, then |-> "return"]
Fresh == {t \in Task : phase[t] = "unborn"}
Live == {t \in Task : phase[t] \notin {"unborn", "ended"}}
Capacity == IF QueueCapacity > 1 THEN QueueCapacity ELSE 1

\* One task for each subscribe call under way is set aside (bound).
WillSpawn(c) == call[c].pc # "idle" /\ call[c].then # "return"
MaySubscribe == Cardinality(Fresh) > Cardinality({c \in Caller : WillSpawn(c)})

Init ==
  /\ clones \in {C \in SUBSET Caller : Cardinality(C) = 1}
  /\ handle = None
  /\ call = [c \in Caller |-> Idle]
  /\ phase = [t \in Task |-> "unborn"]
  /\ aborted = {} /\ detached = {}
  /\ attempts = [t \in Task |-> 0]
  /\ sink = [t \in Task |-> "queue"]
  /\ pending = [t \in Task |-> 0] /\ made = [t \in Task |-> 0]
  /\ queue = [t \in Task |-> <<>>] /\ taken = [t \in Task |-> <<>>]
  /\ dropped = 0

-----------------------------------------------------------------------------
(* Callers. *)

Clone(c, d) ==
  /\ c \in clones /\ d \notin clones
  /\ clones' = clones \cup {d}
  /\ UNCHANGED <<handle, call, phase, aborted, detached, attempts, eventVars>>

\* Mutant: the task of the last clone is detached without being aborted.
DropWithoutAbort(c) ==
  /\ c \in clones /\ call[c] = Idle
  /\ clones' = clones \ {c}
  /\ LET last == IF clones' = {} /\ handle # None THEN {handle} ELSE {} IN
       /\ detached' = detached \cup last
       /\ handle' = IF clones' = {} THEN None ELSE handle
  /\ UNCHANGED <<call, phase, aborted, attempts, eventVars>>

\* A clone is dropped; with the last one SubscriptionState is dropped, which
\* aborts the task without waiting for it.
Drop(c) ==
  /\ c \in clones /\ call[c] = Idle
  /\ clones' = clones \ {c}
  /\ LET last == IF clones' = {} /\ handle # None THEN {handle} ELSE {} IN
       /\ aborted' = aborted \cup last
       /\ detached' = detached \cup last
       /\ handle' = IF clones' = {} THEN None ELSE handle
  /\ UNCHANGED <<call, phase, attempts, eventVars>>

Stop(c) ==
  /\ c \in clones /\ call[c] = Idle
  /\ call' = [call EXCEPT ![c] = [pc |-> "take", task |-> None,
                                  then |-> "return"]]
  /\ UNCHANGED <<clones, handle, phase, aborted, detached, attempts, eventVars>>

\* The subscribe methods differ in their sink; all of them stop first.
Subscribe(c, kind) ==
  /\ c \in clones /\ call[c] = Idle /\ MaySubscribe
  /\ call' = [call EXCEPT ![c] = [pc |-> "take", task |-> None, then |-> kind]]
  /\ UNCHANGED <<clones, handle, phase, aborted, detached, attempts, eventVars>>

\* What follows when a call has nothing left to wait for.
Continuation(then) ==
  IF then = "return" THEN Idle
  ELSE [pc |-> "spawn", task |-> None, then |-> then]

\* Mutant: the handle is read under the lock and left in the slot.
TakeLeavesHandle(c) ==
  /\ call[c].pc = "take"
  /\ call' = [call EXCEPT ![c] =
                IF handle = None THEN Continuation(call[c].then)
                ELSE [pc |-> "abort", task |-> handle, then |-> call[c].then]]
  /\ UNCHANGED <<clones, handle, phase, aborted, detached, attempts, eventVars>>

\* stop: the handle is taken under the lock.
Take(c) ==
  /\ call[c].pc = "take"
  /\ handle' = None
  /\ call' = [call EXCEPT ![c] =
                IF handle = None THEN Continuation(call[c].then)
                ELSE [pc |-> "abort", task |-> handle, then |-> call[c].then]]
  /\ UNCHANGED <<clones, phase, aborted, detached, attempts, eventVars>>

\* Mutant: the task is awaited without having been aborted.
AwaitWithoutAbort(c) ==
  /\ call[c].pc = "abort"
  /\ call' = [call EXCEPT ![c] = [pc |-> "await", task |-> call[c].task,
                                  then |-> call[c].then]]
  /\ UNCHANGED <<clones, handle, phase, aborted, detached, attempts, eventVars>>

\* stop and spawn: the task taken out of the slot is aborted.
Abort(c) ==
  /\ call[c].pc = "abort"
  /\ aborted' = aborted \cup {call[c].task}
  /\ call' = [call EXCEPT ![c] = [pc |-> "await", task |-> call[c].task,
                                  then |-> call[c].then]]
  /\ UNCHANGED <<clones, handle, phase, detached, attempts, eventVars>>

\* stop and spawn: the aborted task has ended, its await returns.
Return(c) ==
  /\ call[c].pc = "await" /\ phase[call[c].task] = "ended"
  /\ call' = [call EXCEPT ![c] = Continuation(call[c].then)]
  /\ UNCHANGED <<clones, handle, phase, aborted, detached, attempts, eventVars>>

\* Mutant: the handle that another call has put into the slot is overwritten.
SpawnOver(c, t) ==
  /\ call[c].pc = "spawn" /\ t \in Fresh
  /\ handle' = t
  /\ phase' = [phase EXCEPT ![t] = "connect"]
  /\ sink' = [sink EXCEPT ![t] = call[c].then]
  /\ call' = [call EXCEPT ![c] = Idle]
  /\ detached' = IF handle = None THEN detached ELSE detached \cup {handle}
  /\ UNCHANGED <<clones, aborted, attempts, pending, made, queue, taken,
                 dropped>>

\* spawn_parser, spawn_dex_parser: under the lock a task is spawned and its
\* handle replaces the one another call may have put there in the meantime.
Spawn(c, t) ==
  /\ call[c].pc = "spawn" /\ t \in Fresh
  /\ handle' = t
  /\ phase' = [phase EXCEPT ![t] = "connect"]
  /\ sink' = [sink EXCEPT ![t] = call[c].then]
  /\ call' = [call EXCEPT ![c] =
                IF handle = None THEN Idle
                ELSE [pc |-> "abort", task |-> handle, then |-> "return"]]
  /\ UNCHANGED <<clones, aborted, detached, attempts, pending, made, queue,
                 taken, dropped>>

\* The caller drops the future of its call while it awaits the task: the join
\* handle goes with it, and a subscribe call never gets to spawn.
Cancel(c) ==
  /\ call[c].pc = "await"
  /\ detached' = detached \cup {call[c].task}
  /\ call' = [call EXCEPT ![c] = Idle]
  /\ UNCHANGED <<clones, handle, phase, aborted, attempts, eventVars>>

-----------------------------------------------------------------------------
(* The receive task. *)

MoveTo(t, p) == phase' = [phase EXCEPT ![t] = p]

\* bind, or connect and subscribe, succeed.
Connect(t) ==
  /\ phase[t] = "connect" /\ MoveTo(t, "receive")
  /\ UNCHANGED <<callVars, attempts, eventVars>>

\* A batch of entries arrives, to be parsed and delivered without an await.
ReceiveBatch(t) ==
  /\ phase[t] = "receive" /\ MoveTo(t, "busy")
  /\ \E n \in 0 .. MaxBatchEvents :
       made[t] + n <= MaxEvents /\ pending' = [pending EXCEPT ![t] = n]
  /\ UNCHANGED <<callVars, attempts, sink, made, queue, taken, dropped>>

\* Mutant: the oldest event makes room for the new one.
DeliverForced(t) ==
  /\ phase[t] = "busy" /\ pending[t] > 0
  /\ pending' = [pending EXCEPT ![t] = @ - 1]
  /\ made' = [made EXCEPT ![t] = @ + 1]
  /\ queue' = [queue EXCEPT ![t] =
                 IF Len(@) < Capacity THEN Append(@, made'[t])
                 ELSE Append(Tail(@), made'[t])]
  /\ UNCHANGED <<callVars, phase, attempts, sink, taken, dropped>>

\* EventSink::deliver: a full queue drops the new event and counts it.
Deliver(t) ==
  /\ phase[t] = "busy" /\ pending[t] > 0
  /\ pending' = [pending EXCEPT ![t] = @ - 1]
  /\ made' = [made EXCEPT ![t] = @ + 1]
  /\ \/ /\ sink[t] = "callback"
        /\ taken' = [taken EXCEPT ![t] = Append(@, made'[t])]
        /\ UNCHANGED <<queue, dropped>>
     \/ /\ sink[t] = "queue" /\ Len(queue[t]) < Capacity
        /\ queue' = [queue EXCEPT ![t] = Append(@, made'[t])]
        /\ UNCHANGED <<taken, dropped>>
     \/ /\ sink[t] = "queue" /\ Len(queue[t]) >= Capacity
        /\ dropped' = dropped + 1
        /\ UNCHANGED <<queue, taken>>
  /\ UNCHANGED <<callVars, phase, attempts, sink>>

EndBatch(t) ==
  /\ phase[t] = "busy" /\ pending[t] = 0 /\ MoveTo(t, "receive")
  /\ UNCHANGED <<callVars, attempts, eventVars>>

\* The subscriber pops its queue, which outlives the task.
Consume(t) ==
  /\ queue[t] # <<>>
  /\ queue' = [queue EXCEPT ![t] = Tail(@)]
  /\ taken' = [taken EXCEPT ![t] = Append(@, Head(queue[t]))]
  /\ UNCHANGED <<callVars, phase, attempts, sink, pending, made, dropped>>

GivesUp(t) == MaxReconnectAttempts > 0 /\ attempts[t] >= MaxReconnectAttempts

\* Mutant: an off-by-one in the comparison.
FailOnceMore(t) ==
  /\ phase[t] \in {"connect", "receive"}
  /\ IF MaxReconnectAttempts > 0 /\ attempts[t] > MaxReconnectAttempts
     THEN MoveTo(t, "ended") /\ UNCHANGED attempts
     ELSE /\ MoveTo(t, "sleep")
          /\ attempts' = [attempts EXCEPT ![t] = IF @ < MaxU32 THEN @ + 1 ELSE @]
  /\ UNCHANGED <<callVars, eventVars>>

\* run_once returns an error (it never returns Ok): give up or sleep.
Fail(t) ==
  /\ phase[t] \in {"connect", "receive"}
  /\ IF GivesUp(t)
     THEN MoveTo(t, "ended") /\ UNCHANGED attempts
     ELSE /\ MoveTo(t, "sleep")
          /\ attempts' = [attempts EXCEPT ![t] = IF @ < MaxU32 THEN @ + 1 ELSE @]
  /\ UNCHANGED <<callVars, eventVars>>

WakeUp(t) ==
  /\ phase[t] = "sleep" /\ MoveTo(t, "connect")
  /\ UNCHANGED <<callVars, attempts, eventVars>>

\* The runtime cancels an aborted task at an await, never in the middle of a
\* batch.
Killed(t) ==
  /\ t \in aborted /\ phase[t] \in {"connect", "receive", "sleep"}
  /\ MoveTo(t, "ended")
  /\ UNCHANGED <<callVars, attempts, eventVars>>

CallerStep(c) ==
  \/ \E d \in Caller : Clone(c, d)
  \/ Drop(c) \/ Stop(c) \/ (\E kind \in SinkKind : Subscribe(c, kind))
  \/ Take(c) \/ Abort(c) \/ Return(c) \/ (\E t \in Task : Spawn(c, t))
  \/ Cancel(c)

TaskStep(t) ==
  \/ Connect(t) \/ ReceiveBatch(t) \/ Deliver(t) \/ EndBatch(t) \/ Consume(t)
  \/ Fail(t) \/ WakeUp(t) \/ Killed(t)

Next == (\E c \in Caller : CallerStep(c)) \/ (\E t \in Task : TaskStep(t))

\* Callers poll the calls they do not cancel, sleeps end, batches are finite
\* and callbacks return.  An aborted task that finds every future ready is
\* stopped by the runtime's cooperative budget, hence strong fairness.
Fairness ==
  /\ \A c \in Caller :
       /\ WF_vars(Take(c)) /\ WF_vars(Abort(c)) /\ WF_vars(Return(c))
       /\ WF_vars(\E t \in Task : Spawn(c, t))
  /\ \A t \in Task :
       /\ WF_vars(Deliver(t)) /\ WF_vars(EndBatch(t)) /\ WF_vars(WakeUp(t))
       /\ SF_vars(Killed(t))

Safety == Init /\ [][Next]_vars
Spec == Safety /\ Fairness

-----------------------------------------------------------------------------
Call ==
  [pc : {"idle", "take", "abort", "await", "spawn"}, task : Task \cup {None},
   then : SinkKind \cup {"return"}]

\* The calls that took a task out of the slot and still hold its join handle.
Holds(c, t) == call[c].pc \in {"abort", "await"} /\ call[c].task = t

\* A subscription is never leaked: a running task is the one in the slot, or a
\* call is about to abort it, or it has been aborted.  A join handle is dropped
\* only after abort, whatever calls were cancelled or clones dropped, and once
\* the last clone is gone every task still running has been aborted.
NoLeakedTask ==
  /\ \A t \in Live : t = handle \/ t \in aborted \/ \E c \in Caller : Holds(c, t)
  /\ detached \subseteq aborted
  /\ clones = {} => Live \subseteq aborted

\* The subscription in the slot is nobody else's to end: it has not been
\* aborted or detached, no call holds it, and each other running task is held
\* by at most one call.
SlotOwnsItsTask ==
  /\ handle # None => /\ handle \notin aborted \cup detached
                      /\ \A c \in Caller : ~ Holds(c, handle)
  /\ \A t \in Live, c, d \in Caller : Holds(c, t) /\ Holds(d, t) => c = d

\* When all calls have returned, at most one task runs besides those that
\* cancelled calls or the last drop left to die on their own: stop and
\* subscribe return only when the task they replaced is gone.
OneTaskWhenQuiet ==
  (\A c \in Caller : call[c] = Idle) => Live \ detached \subseteq {handle}

\* A task ends because it was aborted, or after an error when exactly
\* max_reconnect_attempts restarts have been made.
EndsForCause ==
  [][\A t \in Task :
       t \in Live /\ phase'[t] = "ended" =>
         \/ t \in aborted
         \/ MaxReconnectAttempts > 0 /\ attempts[t] = MaxReconnectAttempts]_vars

\* What the subscriber of a task has received or will find in its queue, and
\* the events that are in neither.
Seen(t) == taken[t] \o queue[t]
Lost(t) == {i \in 1 .. made[t] : \A j \in DOMAIN Seen(t) : Seen(t)[j] # i}
AllLost == UNION {{t} \X Lost(t) : t \in Task}

\* The consumer of a subscription sees its events in the order in which they
\* were produced, each at most once, and the events that it neither has nor
\* finds in the queue are as many as DROPPED_EVENTS says.
EventsAccountedFor ==
  /\ \A t \in Task : \A i, j \in DOMAIN Seen(t) : i < j => Seen(t)[i] < Seen(t)[j]
  /\ Cardinality(AllLost) = dropped

\* Every stop and subscribe call returns, if not cancelled before, whatever the
\* other callers and the tasks do.
CallsReturn == \A c \in Caller : (call[c] # Idle) ~> (call[c] = Idle)

\* Dropping the last clone ends all receive tasks, even those between restarts.
LastDropEndsTasks == (clones = {}) ~> (Live = {})

\* "Maximum restart attempts after a receive-loop error"
\* (src/src/shredstream/config.rs, on max_reconnect_attempts): an error of a
\* receive loop that was connected is followed by a restart attempt.
ReceiveErrorIsRetried ==
  [][\A t \in Task :
       phase[t] = "receive" /\ phase'[t] = "ended" => t \in aborted]_vars
=============================================================================
