------------------------- MODULE TokenSubscription -------------------------
(* tokens_subscription and SubscriptionHandle::shutdown of                 *)
(* src/src/common/logs_subscribe.rs: a spawned task subscribes to logs,    *)
(* reports over a oneshot channel that it is ready and then serves the     *)
(* stream until it is told to stop; the caller may drop the subscribe      *)
(* future, the handle or the shutdown future at any moment.                *)
(* Timeouts may fire at any time while they are armed.                     *)

VARIABLES
    caller,      \* "waiting" for ready, "holding" the handle, "shutting" down,
                 \* "aborting" the task, or "gone"
    task,        \* "subscribing", "ready", "serving", "calling" back,
                 \* "unsubscribing" or "ended"
    ready,       \* the oneshot message: "none", "ok" or "error"
    unsub,       \* the unsubscribe channel: "open", "signalled" or "closed"
    abortCalled  \* the runtime was asked to abort the task

subVars == <<caller, task, ready, unsub, abortCalled>>

SubInit ==
    /\ caller = "waiting" /\ task = "subscribing"
    /\ ready = "none" /\ unsub = "open" /\ abortCalled = FALSE

-----------------------------------------------------------------------------
(* The caller. *)

\* ready_rx resolves, with Ok, an error, or because the task dropped ready_tx.
\* On error the future returns and drops unsub_tx and the join handle.
Started ==
    /\ caller = "waiting" /\ (ready # "none" \/ task = "ended")
    /\ IF ready = "ok" THEN caller' = "holding" /\ UNCHANGED unsub
                       ELSE caller' = "gone" /\ unsub' = "closed"
    /\ UNCHANGED <<task, ready, abortCalled>>

\* The subscribe future, the handle or the shutdown future is dropped, and
\* unsub_tx with it.
Abandon ==
    /\ caller # "gone"
    /\ caller' = "gone"
    /\ unsub' = IF unsub = "signalled" THEN unsub ELSE "closed"
    /\ UNCHANGED <<task, ready, abortCalled>>

\* shutdown: unsub_fn sends the signal; the sender lives until shutdown returns.
Shutdown ==
    /\ caller = "holding"
    /\ caller' = "shutting" /\ unsub' = "signalled"
    /\ UNCHANGED <<task, ready, abortCalled>>

ShutdownDone ==
    /\ caller \in {"shutting", "aborting"} /\ task = "ended"
    /\ caller' = "gone"
    /\ UNCHANGED <<task, ready, unsub, abortCalled>>

ShutdownTimeout ==
    /\ caller = "shutting"
    /\ caller' = "aborting" /\ abortCalled' = TRUE
    /\ UNCHANGED <<task, ready, unsub>>

-----------------------------------------------------------------------------
(* The task. *)

\* logs_subscribe returns; an error is reported and ends the task.
Subscribed ==
    /\ task = "subscribing"
    /\ \/ task' = "ready" /\ UNCHANGED ready
       \/ task' = "ended" /\ ready' = IF caller = "waiting" THEN "error" ELSE ready
    /\ UNCHANGED <<caller, unsub, abortCalled>>

\* ready_tx.send fails if the receiver is gone: unsubscribe and return.
SendReady ==
    /\ task = "ready"
    /\ IF caller = "waiting" THEN task' = "serving" /\ ready' = "ok"
                             ELSE task' = "unsubscribing" /\ UNCHANGED ready
    /\ UNCHANGED <<caller, unsub, abortCalled>>

\* A message whose transaction succeeded is parsed and reported by callbacks.
Message ==
    /\ task = "serving" /\ task' = "calling"
    /\ UNCHANGED <<caller, ready, unsub, abortCalled>>

CallbacksDone ==
    /\ task = "calling" /\ task' = "serving"
    /\ UNCHANGED <<caller, ready, unsub, abortCalled>>

\* Mutant: only a message ends the loop, not the sender going away.
StopOnSignalOnly ==
    /\ task = "serving" /\ unsub = "signalled"
    /\ task' = "unsubscribing"
    /\ UNCHANGED <<caller, ready, unsub, abortCalled>>

\* unsub_rx.recv resolves with the signal, or with None once unsub_tx is gone.
StopServing ==
    /\ task = "serving" /\ unsub # "open"
    /\ task' = "unsubscribing"
    /\ UNCHANGED <<caller, ready, unsub, abortCalled>>

StreamEnded ==
    /\ task = "serving" /\ task' = "unsubscribing"
    /\ UNCHANGED <<caller, ready, unsub, abortCalled>>

\* unsubscribe() returns or its timeout fires.
Unsubscribed ==
    /\ task = "unsubscribing" /\ task' = "ended"
    /\ UNCHANGED <<caller, ready, unsub, abortCalled>>

\* The runtime drops an aborted task at an await, not during the callbacks.
TaskAborted ==
    /\ abortCalled /\ task \notin {"calling", "ended"}
    /\ task' = "ended"
    /\ UNCHANGED <<caller, ready, unsub, abortCalled>>

SubNext ==
    \/ Started \/ Abandon \/ Shutdown \/ ShutdownDone \/ ShutdownTimeout
    \/ Subscribed \/ SendReady \/ Message \/ CallbacksDone \/ StopServing
    \/ StreamEnded \/ Unsubscribed \/ TaskAborted

\* The RPC server answers logs_subscribe or the connection fails, callbacks
\* return, and select! polls its branches in random order, so a stop signal is
\* noticed in spite of a busy stream.
SubFairness ==
    /\ WF_subVars(ShutdownDone) /\ WF_subVars(ShutdownTimeout)
    /\ WF_subVars(Subscribed) /\ WF_subVars(SendReady) /\ WF_subVars(CallbacksDone)
    /\ WF_subVars(Unsubscribed)
    /\ SF_subVars(StopServing) /\ SF_subVars(TaskAborted)

-----------------------------------------------------------------------------
(* No token subscription is orphaned: however the caller goes away (future *)
(* dropped before or after the ready message was sent, handle dropped      *)
(* without shutdown), the task ends; and shutdown returns although its     *)
(* five seconds race with the task's own (logs_subscribe.rs:22-32, 69-77). *)
SubscriptionEnds ==
    /\ (caller = "gone") ~> (task = "ended")
    /\ (caller \in {"shutting", "aborting"}) ~> (caller = "gone" /\ task = "ended")
=============================================================================
