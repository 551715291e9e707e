----------------------------- MODULE LogFrames -----------------------------
(* LogFilter::parse_instruction of src/src/common/logs_filters.rs against  *)
(* the execution whose log lines it reads.  The runtime (external) invokes *)
(* programs, which log events, succeed or fail; each line is fed to the    *)
(* parser as it is written, until the log is truncated.                    *)
EXTENDS Integers, Sequences, FiniteSets, SequencesExt

CONSTANTS Program, PumpFun, MaxInvocations, MaxLogEvents

ASSUME LogAssumption ==
    PumpFun \in Program /\ MaxInvocations \in Nat /\ MaxLogEvents \in Nat

VARIABLES
    running,       \* the runtime's call stack: invocations [id, program]
    invoked,       \* invocations so far
    failedCalls,   \* identities of the failed invocations
    history,       \* the call paths of the PumpFun events, in log order
    outcome,       \* of the transaction: "running", "succeeded", "failed"
    truncated,     \* no further line reaches the parser
    stack,         \* the parser's frames
    instructions,  \* the parser's result
    stopped        \* the parser left its loop

logVars == <<running, invoked, failedCalls, history, outcome, truncated, stack,
             instructions, stopped>>

LogInit ==
    /\ running = << >> /\ invoked = 0 /\ failedCalls = {} /\ history = << >>
    /\ outcome = "running" /\ truncated = FALSE
    /\ stack = << >> /\ instructions = << >> /\ stopped = FALSE

Reads == ~ truncated /\ ~ stopped
Top == Last(stack)

\* "Program <id> invoke [depth]": frames at that depth and below are dropped; a
\* depth with a gap is ignored.
ReadInvoke(program, depth) ==
    LET kept == SubSeq(stack, 1, IF Len(stack) < depth - 1 THEN Len(stack) ELSE depth - 1)
    IN  stack' = IF Len(kept) = depth - 1
                 THEN Append(kept, [program |-> program, events |-> << >>]) ELSE kept

\* Mutant: the events of a frame that succeeds go to the result at once.
CommitAtOnce(program) ==
    IF stack # << >> /\ Top.program = program
    THEN /\ stack' = Front(stack)
         /\ instructions' = instructions \o Top.events
    ELSE UNCHANGED <<stack, instructions>>

\* "Program <id> success": the events go to the parent frame or the result.
ReadSuccess(program) ==
    IF stack # << >> /\ Top.program = program
    THEN LET rest == Front(stack)
         IN  IF rest = << >>
             THEN stack' = rest /\ instructions' = instructions \o Top.events
             ELSE /\ stack' = [rest EXCEPT ![Len(rest)].events = @ \o Top.events]
                  /\ UNCHANGED instructions
    ELSE UNCHANGED <<stack, instructions>>

\* "Program <id> failed: ...": the frame's events are dropped; a failed
\* top-level instruction ends the parse with an empty result.
ReadFailure(program) ==
    IF stack # << >> /\ Top.program = program
    THEN /\ stack' = Front(stack)
         /\ IF Len(stack) = 1 THEN instructions' = << >> /\ stopped' = TRUE
                              ELSE UNCHANGED <<instructions, stopped>>
    ELSE UNCHANGED <<stack, instructions, stopped>>

\* "Program data: ..." of a trade or create event, kept only in a PumpFun frame.
ReadData(event) ==
    IF stack # << >> /\ Top.program = PumpFun
    THEN stack' = [stack EXCEPT ![Len(stack)].events = Append(@, event)]
    ELSE UNCHANGED stack

-----------------------------------------------------------------------------
(* The runtime. *)

Invoke(program) ==
    /\ outcome = "running" /\ invoked < MaxInvocations
    /\ invoked' = invoked + 1
    /\ running' = Append(running, [id |-> invoked', program |-> program])
    /\ IF Reads THEN ReadInvoke(program, Len(running')) ELSE UNCHANGED stack
    /\ UNCHANGED <<failedCalls, history, outcome, truncated, instructions, stopped>>

LogEvent ==
    /\ running # << >> /\ Len(history) < MaxLogEvents
    /\ history' = IF Last(running).program = PumpFun
                  THEN Append(history, {running[i].id : i \in DOMAIN running})
                  ELSE history
    /\ IF Reads THEN ReadData(Len(history) + 1) ELSE UNCHANGED stack
    /\ UNCHANGED <<running, invoked, failedCalls, outcome, truncated, instructions,
                   stopped>>

Succeed ==
    /\ running # << >>
    /\ running' = Front(running)
    /\ IF Reads THEN ReadSuccess(Last(running).program)
                ELSE UNCHANGED <<stack, instructions>>
    /\ UNCHANGED <<invoked, failedCalls, history, outcome, truncated, stopped>>

Fail ==
    /\ running # << >>
    /\ running' = Front(running)
    /\ failedCalls' = failedCalls \cup {Last(running).id}
    /\ outcome' = IF Len(running) = 1 THEN "failed" ELSE outcome
    /\ IF Reads THEN ReadFailure(Last(running).program)
                ELSE UNCHANGED <<stack, instructions, stopped>>
    /\ UNCHANGED <<invoked, history, truncated>>

Finish ==
    /\ outcome = "running" /\ running = << >> /\ invoked > 0
    /\ outcome' = "succeeded"
    /\ UNCHANGED <<running, invoked, failedCalls, history, truncated, stack,
                   instructions, stopped>>

\* "Log truncated".
Truncate ==
    /\ outcome = "running" /\ ~ truncated
    /\ truncated' = TRUE
    /\ UNCHANGED <<running, invoked, failedCalls, history, outcome, stack,
                   instructions, stopped>>

LogNext ==
    \/ (\E p \in Program : Invoke(p)) \/ LogEvent
    \/ Succeed \/ Fail \/ Finish \/ Truncate

LogSafety == LogInit /\ [][LogNext]_logVars

-----------------------------------------------------------------------------
\* An event is known by its position in the log.
Surviving == {k \in DOMAIN history : history[k] \cap failedCalls = {}}

\* s lists the members of S in ascending order.
Lists(s, S) == Range(s) = S /\ \A i, j \in DOMAIN s : i < j => s[i] < s[j]

(* The parser reports exactly the PumpFun events whose enclosing calls all *)
(* succeeded, in log order, for any nesting of calls of the same and of    *)
(* other programs; nothing for a failed transaction; and only the first of *)
(* them when the log was truncated, never an event of a call it did not    *)
(* see succeed (logs_filters.rs:664-666, 684-712).                         *)
FramesMatchExecution ==
    CASE outcome = "succeeded" /\ ~ truncated -> Lists(instructions, Surviving)
      [] outcome = "succeeded" /\ truncated   ->
             \E n \in 0 .. Len(history) : Lists(instructions, Surviving \cap 1 .. n)
      [] outcome = "failed" /\ ~ truncated    -> instructions = << >>
      [] OTHER                                -> TRUE
=============================================================================
