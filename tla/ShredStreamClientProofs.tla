----------------------- MODULE ShredStreamClientProofs -----------------------
(***************************************************************************)
(* The ownership of receive tasks in ShredStreamClient, for any number of  *)
(* callers and tasks: at any time a running task belongs to the slot, to   *)
(* exactly one call, or to nobody, and then it has been aborted.  Then the *)
(* restarts of a task, and the delivery of its events.                     *)
(***************************************************************************)
EXTENDS ShredStreamClient, FiniteSetTheorems, SequenceTheorems, TLAPS

ControlType ==
  /\ clones \subseteq Caller /\ handle \in Task \cup {None}
  /\ call \in [Caller -> Call]
  /\ phase \in [Task -> {"unborn", "connect", "receive", "busy", "sleep",
                         "ended"}]
  /\ aborted \subseteq Task /\ detached \subseteq Task

\* The shape of a call: who makes it, and what it holds while it waits.
CallShape ==
  \A c \in Caller :
    /\ call[c].pc = "idle" => call[c] = Idle
    /\ call[c] # Idle => c \in clones
    /\ call[c].pc \in {"abort", "await"} =>
         /\ call[c].task \in Task
         /\ phase[call[c].task] # "unborn"
         /\ call[c].task \notin detached
    /\ call[c].pc = "await" => call[c].task \in aborted

SlotShape ==
  /\ handle # None => /\ phase[handle] # "unborn"
                      /\ handle \notin aborted
                      /\ \A c \in Caller : ~ Holds(c, handle)
  /\ clones = {} => handle = None

\* Join handles are not shared, and a running task without one is detached.
HandleShape ==
  /\ \A t \in Task, c, d \in Caller : Holds(c, t) /\ Holds(d, t) => c = d
  /\ \A t \in Live : t = handle \/ t \in detached \/ \E c \in Caller : Holds(c, t)
  /\ detached \subseteq aborted
  /\ \A t \in aborted : phase[t] # "unborn"

OwnershipInv == ControlType /\ CallShape /\ SlotShape /\ HandleShape

-----------------------------------------------------------------------------
(* Nothing is running and nobody is calling at first. *)
LEMMA InitOwnership == Init => OwnershipInv
<1> SUFFICES ASSUME Init PROVE OwnershipInv
  OBVIOUS
<1>1. ControlType
  BY DEF Init, ControlType, Idle, Call, SinkKind
<1>2. CallShape
  BY DEF Init, CallShape, Idle
<1>3. SlotShape /\ HandleShape
  BY DEF Init, SlotShape, HandleShape, Live, Holds, Idle
<1> QED BY <1>1, <1>2, <1>3 DEF OwnershipInv

(* The invariant says what the run-checked properties say of a state. *)
LEMMA OwnershipSuffices ==
  OwnershipInv => NoLeakedTask /\ SlotOwnsItsTask /\ OneTaskWhenQuiet
<1> SUFFICES ASSUME OwnershipInv
             PROVE  NoLeakedTask /\ SlotOwnsItsTask /\ OneTaskWhenQuiet
  OBVIOUS
<1> USE DEF OwnershipInv, ControlType, CallShape, SlotShape, HandleShape
<1>1. Live \subseteq Task
  BY DEF Live
<1>2. clones = {} => \A c \in Caller, t \in Task : ~ Holds(c, t)
  BY DEF Holds, Idle
<1>3. NoLeakedTask
  BY <1>1, <1>2, NoneAssumption DEF NoLeakedTask
<1>4. SlotOwnsItsTask
  BY <1>1 DEF SlotOwnsItsTask
<1>5. OneTaskWhenQuiet
  BY <1>1 DEF OneTaskWhenQuiet, Holds, Idle
<1> QED BY <1>3, <1>4, <1>5

-----------------------------------------------------------------------------
(* The steps of a receive task move it between phases other than "unborn"  *)
(* and never restart one that has ended.                                   *)
LEMMA TaskStepOwnership ==
  ASSUME OwnershipInv, NEW t \in Task, TaskStep(t)
  PROVE  OwnershipInv'
<1> USE DEF OwnershipInv, ControlType
<1>1. UNCHANGED callVars
  BY DEF TaskStep, Connect, ReceiveBatch, Deliver, EndBatch, Consume, Fail,
         WakeUp, Killed
<1>2. /\ phase' \in [Task -> {"unborn", "connect", "receive", "busy", "sleep",
                              "ended"}]
      /\ \A u \in Task : phase'[u] = "unborn" <=> phase[u] = "unborn"
      /\ \A u \in Task : phase[u] = "ended" => phase'[u] = "ended"
  BY DEF TaskStep, Connect, ReceiveBatch, Deliver, EndBatch, Consume, Fail,
         WakeUp, Killed, MoveTo
<1>3. ControlType'
  BY <1>1, <1>2 DEF callVars
<1>4. CallShape'
  BY <1>1, <1>2 DEF callVars, CallShape, Idle
<1>5. SlotShape'
  BY <1>1, <1>2 DEF callVars, SlotShape, Holds
<1>6. Live' \subseteq Live
  BY <1>2 DEF Live
<1>7. HandleShape'
  BY <1>1, <1>2, <1>6 DEF callVars, HandleShape, Holds
<1> QED BY <1>3, <1>4, <1>5, <1>7

(* Starting a call, making or dropping a clone. *)
LEMMA OutsideCallOwnership ==
  ASSUME OwnershipInv, NEW c \in Caller,
         \/ \E d \in Caller : Clone(c, d)
         \/ Drop(c)
         \/ Stop(c)
         \/ \E kind \in SinkKind : Subscribe(c, kind)
  PROVE  OwnershipInv'
<1> USE DEF OwnershipInv, ControlType, CallShape, SlotShape, HandleShape
<1>1. CASE \E d \in Caller : Clone(c, d)
  <2>1. UNCHANGED <<handle, call, phase, aborted, detached>>
        /\ clones \subseteq clones' /\ clones' \subseteq Caller /\ clones' # {}
    BY <1>1 DEF Clone
  <2> QED BY <2>1 DEF Live, Holds
<1>2. CASE Drop(c)
  <2> DEFINE last == IF clones' = {} /\ handle # None THEN {handle} ELSE {}
  <2>1. /\ last \subseteq Task
        /\ clones' = clones \ {c} /\ call[c] = Idle
        /\ aborted' = aborted \cup last /\ detached' = detached \cup last
        /\ handle' = IF clones' = {} THEN None ELSE handle
        /\ UNCHANGED <<call, phase>>
    BY <1>2 DEF Drop
  <2>2. \A t \in last, d \in Caller : t = handle /\ ~ Holds(d, t)
    BY <2>1
  <2>3. ControlType'
    BY <2>1
  <2>4. CallShape'
    BY <2>1, <2>2 DEF Holds
  <2>5. SlotShape' /\ HandleShape'
    BY <2>1, <2>2 DEF Live, Holds
  <2> QED BY <2>3, <2>4, <2>5
<1>3. ASSUME NEW then \in SinkKind \cup {"return"},
             call[c] = Idle, c \in clones,
             call' = [call EXCEPT ![c] = [pc |-> "take", task |-> None,
                                          then |-> then]],
             UNCHANGED <<clones, handle, phase, aborted, detached>>
      PROVE  OwnershipInv'
  <2>1. \A d \in Caller, t \in Task : Holds(d, t)' <=> Holds(d, t)
    BY <1>3 DEF Holds, Idle
  <2>2. ControlType'
    BY <1>3 DEF Call
  <2>3. CallShape'
    BY <1>3 DEF Idle
  <2>4. SlotShape' /\ HandleShape'
    BY <1>3, <2>1 DEF Live
  <2> QED BY <2>2, <2>3, <2>4
<1>4. CASE Stop(c)
  BY <1>3, <1>4 DEF Stop
<1>5. CASE \E kind \in SinkKind : Subscribe(c, kind)
  BY <1>3, <1>5 DEF Subscribe
<1> QED BY <1>1, <1>2, <1>4, <1>5

(* The steps of a call hand a task from the slot to the call (Take, Spawn), *)
(* mark it (Abort), and let go of it once it has ended or been detached     *)
(* (Return, Cancel).                                                        *)
LEMMA InsideCallOwnership ==
  ASSUME OwnershipInv, NEW c \in Caller,
         Take(c) \/ Abort(c) \/ Return(c) \/ Cancel(c) \/ \E t \in Task : Spawn(c, t)
  PROVE  OwnershipInv'
<1> USE NoneAssumption DEF OwnershipInv, ControlType, CallShape, SlotShape, HandleShape
<1>0. /\ call[c].pc # "idle" => c \in clones
      /\ \A then \in SinkKind \cup {"return"} :
           /\ Continuation(then) \in Call
           /\ Continuation(then).pc \in {"idle", "spawn"}
           /\ Continuation(then).pc = "idle" => Continuation(then) = Idle
      /\ Idle \in Call /\ Idle.pc = "idle"
  BY DEF Idle, Continuation, Call
<1>1. CASE Take(c)
  <2>1. /\ call[c].pc = "take" /\ handle' = None
        /\ UNCHANGED <<clones, phase, aborted, detached>>
        /\ call' = [call EXCEPT ![c] =
                IF handle = None THEN Continuation(call[c].then)
                ELSE [pc |-> "abort", task |-> handle, then |-> call[c].then]]
    BY <1>1 DEF Take
  <2>2. \A d \in Caller, t \in Task :
          Holds(d, t)' <=> Holds(d, t) \/ (d = c /\ t = handle)
    BY <1>0, <2>1 DEF Holds, Call
  <2>3. ControlType'
    BY <1>0, <2>1 DEF Call
  <2>4. CallShape'
    BY <1>0, <2>1 DEF Call
  <2>5. SlotShape' /\ HandleShape'
    BY <2>1, <2>2 DEF Live
  <2> QED BY <2>3, <2>4, <2>5
<1>2. CASE Abort(c)
  <2>1. /\ call[c].pc = "abort" /\ aborted' = aborted \cup {call[c].task}
        /\ call' = [call EXCEPT ![c] = [pc |-> "await", task |-> call[c].task,
                                        then |-> call[c].then]]
        /\ UNCHANGED <<clones, handle, phase, detached>>
    BY <1>2 DEF Abort
  <2>2. \A d \in Caller, t \in Task : Holds(d, t)' <=> Holds(d, t)
    BY <2>1 DEF Holds, Call
  <2>3. ControlType'
    BY <2>1 DEF Call
  <2>4. CallShape'
    BY <1>0, <2>1 DEF Call, Idle
  <2>5. SlotShape' /\ HandleShape'
    BY <2>1, <2>2 DEF Live, Holds
  <2> QED BY <2>3, <2>4, <2>5
<1>3. CASE Return(c)
  <2>1. /\ call[c].pc = "await" /\ phase[call[c].task] = "ended"
        /\ call' = [call EXCEPT ![c] = Continuation(call[c].then)]
        /\ UNCHANGED <<clones, handle, phase, aborted, detached>>
    BY <1>3 DEF Return
  <2>2. \A d \in Caller, t \in Task : Holds(d, t)' <=> Holds(d, t) /\ d # c
    BY <1>0, <2>1 DEF Holds, Call
  <2>3. ControlType'
    BY <1>0, <2>1 DEF Call
  <2>4. CallShape'
    BY <1>0, <2>1 DEF Call
  <2>5. SlotShape' /\ HandleShape'
    BY <2>1, <2>2 DEF Live, Holds
  <2> QED BY <2>3, <2>4, <2>5
<1>4. CASE Cancel(c)
  <2>1. /\ call[c].pc = "await" /\ detached' = detached \cup {call[c].task}
        /\ call' = [call EXCEPT ![c] = Idle]
        /\ UNCHANGED <<clones, handle, phase, aborted>>
    BY <1>4 DEF Cancel
  <2>2. \A d \in Caller, t \in Task : Holds(d, t)' <=> Holds(d, t) /\ d # c
    BY <1>0, <2>1 DEF Holds
  <2>3. \A d \in Caller : Holds(d, call[c].task) => d = c
    BY <2>1 DEF Holds
  <2>4. ControlType'
    BY <1>0, <2>1
  <2>5. CallShape'
    BY <1>0, <2>1, <2>3 DEF Holds
  <2>6. SlotShape' /\ HandleShape'
    BY <2>1, <2>2 DEF Live, Holds
  <2> QED BY <2>4, <2>5, <2>6
<1>5. CASE \E t \in Task : Spawn(c, t)
  <2>1. PICK t \in Task :
          /\ call[c].pc = "spawn" /\ phase[t] = "unborn" /\ handle' = t
          /\ phase' = [phase EXCEPT ![t] = "connect"]
          /\ call' = [call EXCEPT ![c] =
                IF handle = None THEN Idle
                ELSE [pc |-> "abort", task |-> handle, then |-> "return"]]
          /\ UNCHANGED <<clones, aborted, detached>>
    BY <1>5 DEF Spawn, Fresh
  <2>2. \A d \in Caller, u \in Task :
          Holds(d, u)' <=> Holds(d, u) \/ (d = c /\ u = handle)
    BY <1>0, <2>1 DEF Holds
  <2>3. /\ t # handle /\ t \notin aborted
        /\ \A d \in Caller : ~ Holds(d, t)
    BY <2>1 DEF Holds
  <2>4. ControlType'
    BY <1>0, <2>1 DEF Call
  <2>5. CallShape'
    BY <1>0, <2>1, <2>3
  <2>6. Live' = Live \cup {t}
    BY <2>1 DEF Live
  <2>7. SlotShape'
    BY <1>0, <2>1, <2>2, <2>3
  <2>8. \A u \in Task, d, e \in Caller : Holds(d, u)' /\ Holds(e, u)' => d = e
    BY <2>2
  <2>9. \A u \in Live' : \/ u = handle' \/ u \in detached'
                         \/ \E d \in Caller : Holds(d, u)'
    BY <2>1, <2>2, <2>6 DEF Live
  <2>10. HandleShape'
    BY <2>1, <2>3, <2>8, <2>9
  <2> QED BY <2>4, <2>5, <2>7, <2>10
<1> QED BY <1>1, <1>2, <1>3, <1>4, <1>5

LEMMA NextOwnership == OwnershipInv /\ [Next]_vars => OwnershipInv'
<1> SUFFICES ASSUME OwnershipInv, [Next]_vars PROVE OwnershipInv'
  OBVIOUS
<1>1. CASE \E c \in Caller : CallerStep(c)
  BY <1>1, OutsideCallOwnership, InsideCallOwnership DEF CallerStep
<1>2. CASE \E t \in Task : TaskStep(t)
  BY <1>2, TaskStepOwnership
<1>3. CASE UNCHANGED vars
  BY <1>3 DEF vars, OwnershipInv, ControlType, CallShape, SlotShape,
              HandleShape, Live, Holds
<1> QED BY <1>1, <1>2, <1>3 DEF Next

(* For any number of callers, clones and tasks: no receive task is leaked,  *)
(* whatever stop and subscribe calls overlap or are cancelled.              *)
THEOREM NoTaskIsLeaked == Safety => []NoLeakedTask
<1>1. Safety => []OwnershipInv
  BY InitOwnership, NextOwnership, PTL DEF Safety
<1> QED BY <1>1, OwnershipSuffices, PTL

(* For any number of callers, clones and tasks: the task in the slot is not *)
(* aborted, detached or held by a call, and once all calls have returned    *)
(* only that task and detached ones run.                                    *)
THEOREM SubscriptionIsExclusive == Safety => [](SlotOwnsItsTask /\ OneTaskWhenQuiet)
<1>1. Safety => []OwnershipInv
  BY InitOwnership, NextOwnership, PTL DEF Safety
<1> QED BY <1>1, OwnershipSuffices, PTL

-----------------------------------------------------------------------------
(* Restarts. *)

\* With a maximum, no task has made more restart attempts than it allows.
RestartInv ==
  /\ attempts \in [Task -> Nat]
  /\ \A t \in Task : MaxReconnectAttempts > 0 => attempts[t] <= MaxReconnectAttempts

(* Only an error counts an attempt, and only below the maximum. *)
LEMMA RestartsBounded == RestartInv /\ [Next]_vars => RestartInv'
<1> SUFFICES ASSUME RestartInv, [Next]_vars PROVE RestartInv'
  OBVIOUS
<1> USE DEF RestartInv
<1>1. ASSUME UNCHANGED attempts PROVE RestartInv'
  BY <1>1
<1>2. CASE \E c \in Caller : CallerStep(c)
  BY <1>1, <1>2 DEF CallerStep, Clone, Drop, Stop, Subscribe, Take, Abort,
         Return, Spawn, Cancel
<1>3. ASSUME NEW t \in Task, TaskStep(t) PROVE RestartInv'
  <2>1. CASE Fail(t)
    <3>1. CASE GivesUp(t)
      BY <1>1, <2>1, <3>1 DEF Fail
    <3>2. CASE ~ GivesUp(t)
      <4>1. attempts' = [attempts EXCEPT ![t] = IF @ < MaxU32 THEN @ + 1 ELSE @]
        BY <2>1, <3>2 DEF Fail
      <4>2. MaxReconnectAttempts > 0 => attempts[t] < MaxReconnectAttempts
        BY <3>2, ClientConstants DEF GivesUp
      <4> QED BY <4>1, <4>2, ClientConstants
    <3> QED BY <3>1, <3>2
  <2>2. CASE ~ Fail(t)
    BY <1>1, <1>3, <2>2 DEF TaskStep, Connect, ReceiveBatch, Deliver, EndBatch,
           Consume, WakeUp, Killed
  <2> QED BY <2>1, <2>2
<1>4. CASE UNCHANGED vars
  BY <1>1, <1>4 DEF vars
<1> QED BY <1>2, <1>3, <1>4 DEF Next

(* What ends a task in one step. *)
LEMMA EndingStep ==
  ASSUME OwnershipInv, RestartInv, [Next]_vars, NEW t \in Live, phase'[t] = "ended"
  PROVE  \/ t \in aborted
         \/ MaxReconnectAttempts > 0 /\ attempts[t] = MaxReconnectAttempts
<1> USE DEF OwnershipInv, ControlType
<1>1. t \in Task /\ phase[t] # "ended"
  BY DEF Live
<1>2. CASE \E c \in Caller : CallerStep(c)
  BY <1>1, <1>2 DEF CallerStep, Clone, Drop, Stop, Subscribe, Take, Abort,
         Return, Spawn, Cancel
<1>3. ASSUME NEW u \in Task, TaskStep(u)
      PROVE  \/ t \in aborted
             \/ MaxReconnectAttempts > 0 /\ attempts[t] = MaxReconnectAttempts
  <2>1. CASE Fail(u)
    <3>1. u = t /\ GivesUp(t)
      BY <1>1, <2>1 DEF Fail, MoveTo
    <3> QED BY <1>1, <3>1, ClientConstants DEF GivesUp, RestartInv
  <2>2. CASE Killed(u)
    BY <1>1, <2>2 DEF Killed, MoveTo
  <2>3. CASE ~ Fail(u) /\ ~ Killed(u)
    BY <1>1, <1>3, <2>3 DEF TaskStep, Connect, ReceiveBatch, Deliver, EndBatch,
           Consume, WakeUp, MoveTo
  <2> QED BY <2>1, <2>2, <2>3
<1>4. CASE UNCHANGED vars
  BY <1>1, <1>4 DEF vars
<1> QED BY <1>2, <1>3, <1>4 DEF Next

(* For any number of callers and tasks and any max_reconnect_attempts: no    *)
(* receive task ends by itself before it has made exactly that many          *)
(* restarts; with 0 it ends only when aborted.                               *)
THEOREM TasksEndForCause == Safety => EndsForCause
<1>1. Init => RestartInv
  BY ClientConstants DEF Init, RestartInv
<1>2. OwnershipInv /\ RestartInv /\ [Next]_vars =>
        [\A t \in Task :
           t \in Live /\ phase'[t] = "ended" =>
             \/ t \in aborted
             \/ MaxReconnectAttempts > 0 /\ attempts[t] = MaxReconnectAttempts]_vars
  BY EndingStep
<1> QED
  BY <1>1, <1>2, InitOwnership, NextOwnership, RestartsBounded, PTL
  DEF Safety, EndsForCause

-----------------------------------------------------------------------------
(* Events. *)

Increasing(s) == \A i, j \in DOMAIN s : i < j => s[i] < s[j]
UpTo(n, s) == \A i \in DOMAIN s : s[i] \in 1 .. n
Missing(n, s) == {i \in 1 .. n : \A j \in DOMAIN s : s[j] # i}

\* The queue goes on where the subscriber stopped, and no event is ahead of the
\* count; a callback has no queue, which a task gets before it makes an event.
EventInv ==
  /\ made \in [Task -> Nat] /\ dropped \in Nat
  /\ queue \in [Task -> Seq(Nat)] /\ taken \in [Task -> Seq(Nat)]
  /\ \A t \in Task :
       /\ UpTo(made[t], Seen(t)) /\ Increasing(Seen(t))
       /\ sink[t] = "callback" => queue[t] = <<>>
       /\ phase[t] = "unborn" => queue[t] = <<>>
  /\ IsFiniteSet(AllLost) /\ Cardinality(AllLost) = dropped

(* The next event goes behind all the others, or is missing from then on.    *)
LEMMA NextInLine ==
  ASSUME NEW n \in Nat, NEW s \in Seq(Nat), UpTo(n, s), Increasing(s)
  PROVE  /\ UpTo(n + 1, Append(s, n + 1)) /\ Increasing(Append(s, n + 1))
         /\ Missing(n + 1, Append(s, n + 1)) = Missing(n, s)
         /\ UpTo(n + 1, s) /\ Missing(n + 1, s) = Missing(n, s) \cup {n + 1}
<1> DEFINE q == Append(s, n + 1)
<1>1. /\ DOMAIN s = 1 .. Len(s) /\ Len(s) \in Nat
      /\ DOMAIN q = 1 .. Len(s) + 1
      /\ q[Len(s) + 1] = n + 1
      /\ \A i \in DOMAIN s : q[i] = s[i]
      /\ 1 .. n + 1 = (1 .. n) \cup {n + 1} /\ n + 1 \notin 1 .. n
  OBVIOUS
<1> HIDE DEF q
<1>2. /\ DOMAIN q = DOMAIN s \cup {Len(s) + 1} /\ n + 1 \in 1 .. n + 1
      /\ \A i \in 1 .. n : i < n + 1 /\ i \in Int
  BY <1>1
<1>3. UpTo(n + 1, q)
  BY <1>1, <1>2 DEF UpTo
<1>4. Increasing(q)
  BY <1>1, <1>2 DEF Increasing, UpTo
<1>5. Missing(n + 1, q) = Missing(n, s)
  BY <1>1, <1>2 DEF Missing
<1>6. UpTo(n + 1, s) /\ Missing(n + 1, s) = Missing(n, s) \cup {n + 1}
  BY <1>1 DEF Missing, UpTo
<1> QED BY <1>3, <1>4, <1>5, <1>6 DEF q

(* Taking the first event of the queue changes nothing about the whole.      *)
LEMMA HandOver ==
  ASSUME NEW s \in Seq(Nat), NEW q \in Seq(Nat), q # <<>>
  PROVE  /\ Append(s, Head(q)) \o Tail(q) = s \o q
         /\ Append(s, Head(q)) \in Seq(Nat) /\ Tail(q) \in Seq(Nat)
<1> DEFINE left == Append(s, Head(q)) \o Tail(q)
<1>1. /\ Head(q) \in Nat /\ Tail(q) \in Seq(Nat) /\ Append(s, Head(q)) \in Seq(Nat)
      /\ Len(Tail(q)) = Len(q) - 1 /\ Len(Append(s, Head(q))) = Len(s) + 1
  OBVIOUS
<1>2. left \in Seq(Nat) /\ (s \o q) \in Seq(Nat) /\ Len(left) = Len(s \o q)
  BY <1>1
<1>3. \A i \in 1 .. Len(s \o q) : left[i] = (s \o q)[i]
  BY <1>1
<1> HIDE DEF left
<1>4. left = s \o q
  BY <1>2, <1>3, SeqEqual
<1> QED BY <1>1, <1>4 DEF left

LEMMA BehindAll ==
  ASSUME NEW s \in Seq(Nat), NEW q \in Seq(Nat), NEW e \in Nat
  PROVE  /\ s \o Append(q, e) = Append(s \o q, e)
         /\ s \o <<>> = s
<1>1. /\ s \o Append(q, e) \in Seq(Nat) /\ Append(s \o q, e) \in Seq(Nat)
      /\ Len(s \o Append(q, e)) = Len(Append(s \o q, e))
  OBVIOUS
<1>2. \A i \in 1 .. Len(Append(s \o q, e)) :
        (s \o Append(q, e))[i] = Append(s \o q, e)[i]
  OBVIOUS
<1>3. s \o <<>> = s
  OBVIOUS
<1> QED BY <1>1, <1>2, <1>3

(* A step that leaves counts and the whole of every line alone. *)
LEMMA NothingSeen ==
  ASSUME EventInv, UNCHANGED <<made, dropped>>,
         queue' \in [Task -> Seq(Nat)], taken' \in [Task -> Seq(Nat)],
         \A t \in Task : /\ Seen(t)' = Seen(t)
                         /\ sink'[t] = "callback" => queue'[t] = <<>>
                         /\ phase'[t] = "unborn" => queue'[t] = <<>>
  PROVE  EventInv'
<1>1. \A t \in Task : Lost(t)' = Lost(t)
  BY DEF Lost
<1>2. AllLost' = AllLost
  BY <1>1 DEF AllLost
<1> QED BY <1>2 DEF EventInv

(* One event is seen, or lost and counted. *)
LEMMA OneEvent ==
  ASSUME EventInv, NEW t \in Task, Deliver(t)
  PROVE  EventInv'
<1> DEFINE n == made[t]
<1>0. /\ n \in Nat /\ queue[t] \in Seq(Nat) /\ taken[t] \in Seq(Nat)
      /\ Seen(t) \in Seq(Nat) /\ UpTo(n, Seen(t)) /\ Increasing(Seen(t))
  BY DEF EventInv, Seen
<1>1. /\ made' = [made EXCEPT ![t] = n + 1] /\ made'[t] = n + 1
      /\ made' \in [Task -> Nat]
      /\ UNCHANGED <<phase, sink>> /\ phase[t] = "busy"
      /\ \A u \in Task \ {t} : made'[u] = made[u]
  BY DEF Deliver, EventInv
<1>2. ASSUME /\ Seen(t)' = Append(Seen(t), n + 1)
             /\ \A u \in Task \ {t} : Seen(u)' = Seen(u)
             /\ \A u \in Task : sink[u] = "callback" => queue'[u] = <<>>
             /\ \A u \in Task : phase[u] = "unborn" => queue'[u] = <<>>
             /\ queue' \in [Task -> Seq(Nat)] /\ taken' \in [Task -> Seq(Nat)]
             /\ dropped' = dropped
      PROVE  EventInv'
  <2>1. Lost(t)' = Lost(t)
    <3>1. Lost(t) = Missing(n, Seen(t)) /\ Lost(t)' = Missing(made'[t], Seen(t)')
      BY DEF Lost, Missing
    <3> QED BY <1>0, <1>1, <1>2, <3>1, NextInLine
  <2>2. \A u \in Task : Lost(u)' = Lost(u)
    <3>1. \A u \in Task : /\ Lost(u) = Missing(made[u], Seen(u))
                          /\ Lost(u)' = Missing(made'[u], Seen(u)')
      BY DEF Lost, Missing
    <3> QED BY <1>1, <1>2, <2>1, <3>1
  <2>3. AllLost' = AllLost
    BY <2>2 DEF AllLost
  <2>4. \A u \in Task : UpTo(made'[u], Seen(u)') /\ Increasing(Seen(u)')
    <3>1. UpTo(made'[t], Seen(t)') /\ Increasing(Seen(t)')
      BY <1>0, <1>1, <1>2, NextInLine
    <3>2. \A u \in Task \ {t} : UpTo(made[u], Seen(u)) /\ Increasing(Seen(u))
      BY DEF EventInv
    <3> QED BY <1>1, <1>2, <3>1, <3>2
  <2> QED BY <1>1, <1>2, <2>3, <2>4 DEF EventInv
<1>3. CASE sink[t] = "callback"
  <2>1. queue[t] = <<>> /\ queue' = queue /\ dropped' = dropped
        /\ taken' = [taken EXCEPT ![t] = Append(@, n + 1)]
    BY <1>1, <1>3 DEF Deliver, EventInv
  <2>2. taken' \in [Task -> Seq(Nat)] /\ taken'[t] = Append(taken[t], n + 1)
        /\ \A u \in Task \ {t} : taken'[u] = taken[u]
    BY <1>0, <2>1 DEF EventInv
  <2>3. Append(taken[t], n + 1) \in Seq(Nat) /\ n + 1 \in Nat
    BY <1>0
  <2>4. Seen(t)' = Append(Seen(t), n + 1)
    BY <1>0, <2>1, <2>2, <2>3, BehindAll DEF Seen
  <2> QED BY <1>2, <2>1, <2>2, <2>4 DEF EventInv, Seen
<1>4. CASE sink[t] = "queue" /\ Len(queue[t]) < Capacity
  <2>1. queue' = [queue EXCEPT ![t] = Append(@, n + 1)]
        /\ taken' = taken /\ dropped' = dropped
    BY <1>0, <1>1, <1>4, ClientConstants DEF Deliver, Capacity
  <2>2. queue' \in [Task -> Seq(Nat)] /\ queue'[t] = Append(queue[t], n + 1)
        /\ \A u \in Task \ {t} : queue'[u] = queue[u]
    BY <1>0, <2>1 DEF EventInv
  <2>3. n + 1 \in Nat
    BY <1>0
  <2>4. Seen(t)' = Append(Seen(t), n + 1)
    BY <1>0, <2>1, <2>2, <2>3, BehindAll DEF Seen
  <2> QED BY <1>1, <1>2, <1>4, <2>1, <2>2, <2>4 DEF EventInv, Seen
<1>5. CASE sink[t] = "queue" /\ Len(queue[t]) >= Capacity
  <2>1. dropped' = dropped + 1 /\ UNCHANGED <<queue, taken>>
    BY <1>5, <1>0, ClientConstants DEF Deliver, Capacity
  <2>2. \A u \in Task : Seen(u)' = Seen(u)
    BY <2>1 DEF Seen
  <2>3. Lost(t)' = Lost(t) \cup {n + 1}
    <3>1. Lost(t) = Missing(n, Seen(t)) /\ Lost(t)' = Missing(made'[t], Seen(t)')
      BY DEF Lost, Missing
    <3> QED BY <1>0, <1>1, <2>2, <3>1, NextInLine
  <2>4. \A u \in Task \ {t} : Lost(u)' = Lost(u)
    <3>1. \A u \in Task : /\ Lost(u) = Missing(made[u], Seen(u))
                          /\ Lost(u)' = Missing(made'[u], Seen(u)')
      BY DEF Lost, Missing
    <3> QED BY <1>1, <2>2, <3>1
  <2>5. AllLost' = AllLost \cup {<<t, n + 1>>}
    BY <2>3, <2>4 DEF AllLost
  <2>6. <<t, n + 1>> \notin AllLost
    BY <1>0 DEF AllLost, Lost
  <2>7. IsFiniteSet(AllLost') /\ Cardinality(AllLost') = Cardinality(AllLost) + 1
    BY <2>5, <2>6, FS_AddElement DEF EventInv
  <2>8. \A u \in Task : UpTo(made'[u], Seen(u)')
    <3>1. UpTo(made'[t], Seen(t)')
      BY <1>0, <1>1, <2>2, NextInLine
    <3>2. \A u \in Task \ {t} : UpTo(made[u], Seen(u))
      BY DEF EventInv
    <3> QED BY <1>1, <2>2, <3>1, <3>2
  <2> QED BY <1>1, <2>1, <2>2, <2>7, <2>8 DEF EventInv
<1> QED BY <1>3, <1>4, <1>5 DEF Deliver

LEMMA NextEvents ==
  OwnershipInv /\ EventInv /\ [Next]_vars => EventInv'
<1> SUFFICES ASSUME OwnershipInv, EventInv, [Next]_vars PROVE EventInv'
  OBVIOUS
<1>0. phase \in [Task -> {"unborn", "connect", "receive", "busy", "sleep", "ended"}]
  BY DEF OwnershipInv, ControlType
<1>1. ASSUME UNCHANGED <<sink, made, queue, taken, dropped>>,
             \A t \in Task : phase'[t] = "unborn" => phase[t] = "unborn"
      PROVE  EventInv'
  BY <1>1, NothingSeen DEF EventInv, Seen
<1>2. CASE \E c \in Caller : CallerStep(c)
  <2>1. ASSUME NEW c \in Caller, NEW t \in Task, Spawn(c, t) PROVE EventInv'
    <3>1. /\ phase[t] = "unborn" /\ UNCHANGED <<made, queue, taken, dropped>>
          /\ \A u \in Task : u # t => sink'[u] = sink[u]
          /\ \A u \in Task : phase'[u] = "unborn" => phase[u] = "unborn"
      BY <1>0, <2>1 DEF Spawn, Fresh, OwnershipInv, ControlType
    <3>2. queue[t] = <<>>
      BY <3>1 DEF EventInv
    <3>3. \A u \in Task : sink'[u] = "callback" => queue[u] = <<>>
      BY <2>1, <3>1, <3>2 DEF EventInv
    <3> QED BY <3>1, <3>3, NothingSeen DEF EventInv, Seen
  <2>2. CASE \E c \in Caller :
               \/ \E d \in Caller : Clone(c, d)
               \/ Drop(c) \/ Stop(c) \/ \E kind \in SinkKind : Subscribe(c, kind)
               \/ Take(c) \/ Abort(c) \/ Return(c) \/ Cancel(c)
    BY <1>1, <2>2 DEF Clone, Drop, Stop, Subscribe, Take, Abort, Return, Cancel,
           eventVars
  <2> QED BY <1>2, <2>1, <2>2 DEF CallerStep
<1>3. ASSUME NEW t \in Task, TaskStep(t) PROVE EventInv'
  <2>1. CASE Deliver(t)
    BY <2>1, OneEvent
  <2>2. CASE Consume(t)
    <3>1. /\ queue[t] # <<>> /\ UNCHANGED <<phase, sink, made, dropped>>
          /\ queue' = [queue EXCEPT ![t] = Tail(@)]
          /\ taken' = [taken EXCEPT ![t] = Append(@, Head(queue[t]))]
      BY <2>2 DEF Consume
    <3>2. queue[t] \in Seq(Nat) /\ taken[t] \in Seq(Nat)
      BY DEF EventInv
    <3>3. /\ Append(taken[t], Head(queue[t])) \o Tail(queue[t]) = taken[t] \o queue[t]
          /\ Append(taken[t], Head(queue[t])) \in Seq(Nat) /\ Tail(queue[t]) \in Seq(Nat)
      BY <3>1, <3>2, HandOver
    <3>4. /\ queue' \in [Task -> Seq(Nat)] /\ taken' \in [Task -> Seq(Nat)]
          /\ queue'[t] = Tail(queue[t]) /\ taken'[t] = Append(taken[t], Head(queue[t]))
          /\ \A u \in Task \ {t} : queue'[u] = queue[u] /\ taken'[u] = taken[u]
      BY <3>1, <3>3 DEF EventInv
    <3>5. \A u \in Task : Seen(u)' = Seen(u)
      BY <3>3, <3>4 DEF Seen
    <3>6. sink[t] # "callback" /\ phase[t] # "unborn"
      BY <3>1 DEF EventInv
    <3> QED BY <3>1, <3>4, <3>5, <3>6, NothingSeen DEF EventInv
  <2>3. CASE ~ Deliver(t) /\ ~ Consume(t)
    BY <1>0, <1>1, <1>3, <2>3 DEF TaskStep, Connect, ReceiveBatch, EndBatch, Fail,
           WakeUp, Killed, MoveTo, eventVars
  <2> QED BY <2>1, <2>2, <2>3
<1>4. CASE UNCHANGED vars
  BY <1>1, <1>4 DEF vars, eventVars
<1> QED BY <1>2, <1>3, <1>4 DEF Next

(* For any number of tasks, any queue capacity and any batches: a subscriber *)
(* gets its events in order and at most once, and DROPPED_EVENTS counts      *)
(* exactly those it will never get.                                          *)
THEOREM NoEventIsMiscounted == Safety => []EventsAccountedFor
<1>1. Init => EventInv
  <2> SUFFICES ASSUME Init PROVE EventInv
    OBVIOUS
  <2>1. /\ made \in [Task -> Nat] /\ dropped = 0
        /\ queue \in [Task -> Seq(Nat)] /\ taken \in [Task -> Seq(Nat)]
        /\ \A t \in Task : made[t] = 0 /\ taken[t] = <<>> /\ queue[t] = <<>>
    BY DEF Init
  <2>2. \A t \in Task : Seen(t) = <<>>
    BY <2>1 DEF Seen
  <2>3. \A t \in Task : UpTo(made[t], Seen(t)) /\ Increasing(Seen(t))
    BY <2>2 DEF UpTo, Increasing
  <2>4. AllLost = {}
    BY <2>1 DEF AllLost, Lost
  <2> QED BY <2>1, <2>3, <2>4, FS_EmptySet DEF EventInv
<1>2. EventInv => EventsAccountedFor
  BY DEF EventInv, EventsAccountedFor, Increasing
<1> QED BY <1>1, <1>2, InitOwnership, NextOwnership, NextEvents, PTL DEF Safety
=============================================================================
