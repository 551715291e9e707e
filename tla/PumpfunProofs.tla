--------------------------- MODULE PumpfunProofs ---------------------------
(* Theorems about the reading of a transaction for the legacy PumpFun      *)
(* client: the frames of its log, for every nesting of calls of any depth, *)
(* and the callbacks of its two processors, for transactions of any length *)
(* over any keys, amounts and bot wallets.                                 *)
EXTENDS LogFrames, PumpfunTransaction, SequenceTheorems, WellFoundedInduction, TLAPS

-----------------------------------------------------------------------------
(* Ascending lists. *)

LEMMA LeastNatural ==
  ASSUME NEW S \in SUBSET Nat, S # {}
  PROVE  \E m \in S : \A k \in S : m <= k
<1>1. PICK m \in S : \A k \in S : ~ (<<k, m>> \in OpToRel(<, Nat))
  BY NatLessThanWellFounded, WFMin, Zenon
<1>2. \A k \in S : ~ (k < m)
  BY <1>1, Zenon DEF OpToRel
<1> QED
  BY <1>2

LEMMA ListsNothing == Lists(<< >>, {})
  BY DEF Lists, Range

LEMMA ListsOneMore ==
  ASSUME NEW s \in Seq(Nat), NEW S, Lists(s, S), NEW k \in Nat,
         \A x \in S : x < k
  PROVE  Lists(Append(s, k), S \cup {k})
<1> DEFINE t == Append(s, k)
<1>1. /\ Len(t) = Len(s) + 1 /\ t \in Seq(Nat) /\ t[Len(s) + 1] = k
      /\ \A i \in 1 .. Len(s) : t[i] = s[i]
      /\ DOMAIN t = 1 .. Len(t) /\ DOMAIN s = 1 .. Len(s) /\ Len(s) \in Nat
  OBVIOUS
<1> HIDE DEF t
<1>2. \A i \in DOMAIN t : i \in DOMAIN s \/ i = Len(s) + 1
  BY <1>1
<1>3. \A i \in DOMAIN s : s[i] \in S /\ i \in DOMAIN t
  BY <1>1 DEF Lists, Range
<1>4. Range(t) \subseteq S \cup {k}
  BY <1>1, <1>2, <1>3 DEF Range
<1>5. S \cup {k} \subseteq Range(t)
  <2>1. k \in Range(t)
    BY <1>1 DEF Range
  <2>2. ASSUME NEW x \in S PROVE x \in Range(t)
    <3>1. PICK i \in DOMAIN s : s[i] = x
      BY DEF Lists, Range
    <3> QED
      BY <1>1, <1>3, <3>1 DEF Range
  <2> QED
    BY <2>1, <2>2
<1>6. ASSUME NEW i \in DOMAIN t, NEW j \in DOMAIN t, i < j PROVE t[i] < t[j]
  <2>1. i \in DOMAIN s
    BY <1>1, <1>6
  <2>2. CASE j \in DOMAIN s
    BY <1>1, <1>6, <2>1, <2>2 DEF Lists
  <2>3. CASE j = Len(s) + 1
    BY <1>1, <1>3, <2>1, <2>3
  <2> QED
    BY <1>2, <2>2, <2>3
<1> QED
  BY <1>4, <1>5, <1>6 DEF Lists, t

LEMMA ListsJoined ==
  ASSUME NEW s \in Seq(Nat), NEW t \in Seq(Nat), NEW S, NEW T,
         Lists(s, S), Lists(t, T), \A x \in S, y \in T : x < y
  PROVE  Lists(s \o t, S \cup T)
<1> DEFINE u == s \o t
<1>1. /\ Len(u) = Len(s) + Len(t) /\ u \in Seq(Nat)
      /\ \A i \in 1 .. Len(s) : u[i] = s[i]
      /\ \A i \in 1 .. Len(t) : u[Len(s) + i] = t[i]
      /\ DOMAIN u = 1 .. Len(u) /\ DOMAIN s = 1 .. Len(s) /\ DOMAIN t = 1 .. Len(t)
      /\ Len(s) \in Nat /\ Len(t) \in Nat
  OBVIOUS
<1> HIDE DEF u
<1>2. \A i \in DOMAIN u : i \in DOMAIN s \/ i - Len(s) \in DOMAIN t
  BY <1>1
<1>3. \A i \in DOMAIN u : i - Len(s) \in DOMAIN t => u[i] = t[i - Len(s)]
  BY <1>1
<1>4. /\ \A i \in DOMAIN s : s[i] \in S /\ i \in DOMAIN u
      /\ \A i \in DOMAIN t : t[i] \in T /\ Len(s) + i \in DOMAIN u
  BY <1>1 DEF Lists, Range
<1>5. Range(u) \subseteq S \cup T
  BY <1>1, <1>2, <1>3, <1>4 DEF Range
<1>6. S \cup T \subseteq Range(u)
  <2>1. ASSUME NEW x \in S PROVE x \in Range(u)
    <3>1. PICK i \in DOMAIN s : s[i] = x
      BY DEF Lists, Range
    <3> QED
      BY <1>1, <1>4, <3>1 DEF Range
  <2>2. ASSUME NEW x \in T PROVE x \in Range(u)
    <3>1. PICK i \in DOMAIN t : t[i] = x
      BY DEF Lists, Range
    <3> QED
      BY <1>1, <1>4, <3>1 DEF Range
  <2> QED
    BY <2>1, <2>2
<1>7. ASSUME NEW i \in DOMAIN u, NEW j \in DOMAIN u, i < j PROVE u[i] < u[j]
  <2>1. CASE i \in DOMAIN s /\ j \in DOMAIN s
    BY <1>1, <1>7, <2>1 DEF Lists
  <2>2. CASE i \in DOMAIN s /\ j - Len(s) \in DOMAIN t
    BY <1>1, <1>3, <1>4, <2>2
  <2>3. CASE i - Len(s) \in DOMAIN t /\ j - Len(s) \in DOMAIN t
    <3>1. i - Len(s) < j - Len(s)
      BY <1>1, <1>7
    <3> QED
      BY <1>3, <2>3, <3>1 DEF Lists
  <2> QED
    BY <1>1, <1>2, <1>7, <2>1, <2>2, <2>3
<1> QED
  BY <1>5, <1>6, <1>7 DEF Lists, u
-----------------------------------------------------------------------------
(* The frames of a log. *)

\* Event k was logged under the i-th of the calls that still run.
Under(k, i) == running[i].id \in history[k]

\* The surviving events whose last call to be still running is the i-th, and
\* those that have outlived all of their calls.
Owned(i) ==
  {k \in Surviving : Under(k, i) /\ (i + 1 \in DOMAIN running => ~ Under(k, i + 1))}
Settled == {k \in Surviving : 1 \in DOMAIN running => ~ Under(k, 1)}

Call == [id : Nat, program : Program]
Frame == [program : Program, events : Seq(Nat)]

LogTypeOK ==
  /\ running \in Seq(Call)
  /\ invoked \in Nat /\ failedCalls \subseteq 1 .. invoked
  /\ history \in Seq(SUBSET Nat)
  /\ outcome \in {"running", "succeeded", "failed"}
  /\ truncated \in BOOLEAN /\ stopped \in BOOLEAN
  /\ stack \in Seq(Frame) /\ instructions \in Seq(Nat)

\* A call that runs was invoked after the calls around it and has not failed; the
\* calls around an event are nested, and whatever is logged later is logged under
\* each of them that still runs.
CallInv ==
  /\ \A k \in DOMAIN history : history[k] \subseteq 1 .. invoked
  /\ \A i \in DOMAIN running :
       running[i].id \in 1 .. invoked /\ running[i].id \notin failedCalls
  /\ \A i, j \in DOMAIN running : i < j => running[i].id < running[j].id
  /\ \A k \in DOMAIN history, i, j \in DOMAIN running :
       i < j /\ Under(k, j) => Under(k, i)
  /\ \A k, l \in DOMAIN history, i \in DOMAIN running :
       k < l /\ Under(k, i) => Under(l, i)

OutcomeInv ==
  /\ outcome # "running" => running = << >>
  /\ stopped => outcome = "failed" /\ instructions = << >>
  /\ outcome = "failed" => stopped \/ truncated

\* A parser that has read all of the log has one frame for each running call,
\* with the events that stand or fall with it.
FrameInv ==
  Reads =>
    /\ Len(stack) = Len(running)
    /\ \A i \in DOMAIN running :
         stack[i].program = running[i].program /\ Lists(stack[i].events, Owned(i))
    /\ Lists(instructions, Settled)

\* One that was cut off has the first survivors, which no call can take back.
CutInv ==
  truncated =>
    \E n \in 0 .. Len(history) :
      /\ Lists(instructions, Surviving \cap 1 .. n)
      /\ \A k \in 1 .. n, i \in DOMAIN running : ~ Under(k, i)

LogInv == LogTypeOK /\ CallInv /\ OutcomeInv /\ FrameInv /\ CutInv

LEMMA LogStarts == LogInit => LogInv
<1>1. SUFFICES ASSUME LogInit PROVE LogInv
  OBVIOUS
<1>2. Surviving = {} /\ Settled = {}
  BY <1>1 DEF LogInit, Surviving, Settled
<1>3. LogTypeOK
  BY <1>1, EmptySeq DEF LogInit, LogTypeOK
<1>4. CallInv /\ OutcomeInv
  BY <1>1 DEF LogInit, CallInv, OutcomeInv
<1>5. FrameInv /\ CutInv
  BY <1>1, <1>2, ListsNothing DEF LogInit, FrameInv, CutInv
<1> QED
  BY <1>3, <1>4, <1>5 DEF LogInv

\* The facts about the runtime's stack that the proofs use.
LEMMA StackFacts ==
  ASSUME LogTypeOK
  PROVE  /\ Len(running) \in Nat /\ DOMAIN running = 1 .. Len(running)
         /\ Len(stack) \in Nat /\ DOMAIN stack = 1 .. Len(stack)
         /\ Len(history) \in Nat /\ DOMAIN history = 1 .. Len(history)
         /\ \A i \in DOMAIN running :
              running[i].id \in Nat /\ running[i].program \in Program
         /\ \A i \in DOMAIN stack :
              stack[i] \in Frame /\ stack[i].program \in Program /\ stack[i].events \in Seq(Nat)
         /\ (running = << >> <=> Len(running) = 0) /\ (stack = << >> <=> Len(stack) = 0)
<1>1. /\ Len(running) \in Nat /\ DOMAIN running = 1 .. Len(running)
      /\ running = << >> <=> Len(running) = 0
      /\ \A i \in DOMAIN running : running[i] \in Call
  BY DEF LogTypeOK
<1>2. /\ Len(stack) \in Nat /\ DOMAIN stack = 1 .. Len(stack)
      /\ stack = << >> <=> Len(stack) = 0
      /\ \A i \in DOMAIN stack : stack[i] \in Frame
  BY DEF LogTypeOK
<1>3. /\ Len(history) \in Nat /\ DOMAIN history = 1 .. Len(history)
  <2>1. PICK H : history \in Seq(H)
    BY Zenon DEF LogTypeOK
  <2> QED
    BY <2>1
<1> QED
  BY <1>1, <1>2, <1>3 DEF Call, Frame

\* A new call owns nothing yet.
LEMMA InvokeKeeps ==
  ASSUME LogInv, NEW p \in Program, Invoke(p)
  PROVE  LogInv'
<1> USE DEF LogInv
<1> PICK n \in Nat : n = Len(running)
  BY StackFacts
<1> DEFINE c == [id |-> invoked + 1, program |-> p]
<1>call. c \in Call /\ c.id = invoked + 1 /\ c.program = p
  BY DEF LogTypeOK, Call
<1>made. invoked' = invoked + 1 /\ running' = Append(running, c)
  BY DEF Invoke
<1> HIDE DEF c
<1>1. /\ running' = Append(running, c)
      /\ invoked' = invoked + 1 /\ invoked \in Nat
      /\ UNCHANGED <<failedCalls, history, outcome, truncated, instructions, stopped>>
      /\ outcome = "running"
  BY <1>made DEF Invoke, LogTypeOK
<1>2. /\ DOMAIN running' = 1 .. n + 1 /\ Len(running') = n + 1
      /\ \A i \in 1 .. n : running'[i] = running[i]
      /\ running'[n + 1] = c
      /\ DOMAIN running = 1 .. n
  BY <1>1, <1>call, StackFacts DEF LogTypeOK
<1>3. /\ \A k \in DOMAIN history : ~ Under(k, n + 1)'
      /\ \A k \in DOMAIN history, i \in 1 .. n : Under(k, i)' <=> Under(k, i)
  BY <1>1, <1>2, <1>call, StackFacts DEF Under, CallInv
<1>4. Surviving' = Surviving /\ Surviving \subseteq DOMAIN history
  BY <1>1 DEF Surviving
<1>5. /\ Settled' = Settled
      /\ \A i \in 1 .. n : Owned(i)' = Owned(i)
      /\ Owned(n + 1)' = {}
  <2>1. Owned(n + 1)' = {}
    BY <1>3, <1>4 DEF Owned
  <2>2. Settled' = Settled
    <3>1. CASE n = 0
      BY <1>2, <1>3, <1>4, <3>1 DEF Settled
    <3>2. CASE n > 0
      BY <1>2, <1>3, <1>4, <3>2 DEF Settled
    <3> QED
      BY <1>2, <3>1, <3>2
  <2>3. ASSUME NEW i \in 1 .. n PROVE Owned(i)' = Owned(i)
    <3>1. CASE i = n
      BY <1>2, <1>3, <1>4, <3>1 DEF Owned
    <3>2. CASE i < n
      BY <1>2, <1>3, <1>4, <3>2 DEF Owned
    <3> QED
      BY <1>2, <3>1, <3>2
  <2> QED
    BY <2>1, <2>2, <2>3
<1>6. CallInv'
  <2>1. \A i \in DOMAIN running' : i \in 1 .. n \/ i = n + 1
    BY <1>2
  <2>2. \A k \in DOMAIN history : history[k] \subseteq 1 .. invoked'
    BY <1>1 DEF CallInv
  <2>3. /\ \A i \in DOMAIN running' :
             running'[i].id \in 1 .. invoked' /\ running'[i].id \notin failedCalls
        /\ \A i, j \in DOMAIN running' : i < j => running'[i].id < running'[j].id
    BY <1>1, <1>2, <1>call, <2>1 DEF CallInv, LogTypeOK
  <2>4. /\ \A k \in DOMAIN history, i, j \in DOMAIN running' :
             i < j /\ Under(k, j)' => Under(k, i)'
        /\ \A k, l \in DOMAIN history, i \in DOMAIN running' :
             k < l /\ Under(k, i)' => Under(l, i)'
    BY <1>2, <1>3, <2>1 DEF CallInv
  <2> QED
    BY <1>1, <2>2, <2>3, <2>4 DEF CallInv
<1>7. OutcomeInv'
  BY <1>1 DEF OutcomeInv
<1>8. CutInv'
  <2>1. SUFFICES ASSUME truncated PROVE CutInv'
    BY <1>1 DEF CutInv
  <2>2. PICK m \in 0 .. Len(history) :
          /\ Lists(instructions, Surviving \cap 1 .. m)
          /\ \A k \in 1 .. m, i \in DOMAIN running : ~ Under(k, i)
    BY <2>1 DEF CutInv
  <2>3. \A k \in 1 .. m, i \in DOMAIN running' : ~ Under(k, i)'
    <3>1. \A k \in 1 .. m : k \in DOMAIN history
      BY StackFacts
    <3>2. \A i \in DOMAIN running' : i \in DOMAIN running \/ i = n + 1
      BY <1>2
    <3> QED
      BY <1>2, <1>3, <2>2, <3>1, <3>2
  <2> QED
    BY <1>1, <1>4, <2>2, <2>3 DEF CutInv
<1>9. CASE ~ Reads
  <2>1. stack' = stack
    BY <1>9 DEF Invoke
  <2>2. LogTypeOK'
    BY <1>1, <1>call, <2>1 DEF LogTypeOK
  <2>3. FrameInv'
    BY <1>1, <1>9 DEF FrameInv, Reads
  <2> QED
    BY <1>6, <1>7, <1>8, <2>2, <2>3
<1>10. CASE Reads
  <2>1. Len(stack) = n
    BY <1>10 DEF FrameInv
  <2>2. SubSeq(stack, 1, n) = stack
    <3>1. stack \in Seq(Frame)
      BY DEF LogTypeOK
    <3> QED
      BY <2>1, <3>1, SubSeqFull, Zenon
  <2>3. PICK f \in Frame : f.program = p /\ f.events = << >>
                         /\ f = [program |-> p, events |-> << >>]
    BY EmptySeq DEF Frame
  <2>4. stack' = Append(stack, f)
    <3>1. ReadInvoke(p, n + 1)
      BY <1>2, <1>10 DEF Invoke
    <3> QED
      BY <2>1, <2>2, <2>3, <3>1 DEF ReadInvoke
  <2>5. LogTypeOK'
    BY <1>1, <1>call, <2>4 DEF LogTypeOK
  <2>6. FrameInv'
    <3>1. /\ Len(stack') = n + 1
          /\ stack'[n + 1] = f
          /\ \A i \in 1 .. n : stack'[i] = stack[i]
      BY <2>1, <2>4 DEF LogTypeOK
    <3>2. ASSUME NEW i \in DOMAIN running'
          PROVE  /\ stack'[i].program = running'[i].program
                 /\ Lists(stack'[i].events, Owned(i)')
      <4>1. CASE i = n + 1
        BY <1>2, <1>5, <1>call, <2>3, <3>1, <4>1, ListsNothing
      <4>2. CASE i \in 1 .. n
        BY <1>2, <1>5, <1>10, <3>1, <4>2 DEF FrameInv
      <4> QED
        BY <1>2, <4>1, <4>2
    <3>3. Lists(instructions, Settled)'
      BY <1>1, <1>5, <1>10 DEF FrameInv
    <3> QED
      BY <1>2, <3>1, <3>2, <3>3 DEF FrameInv
  <2> QED
    BY <1>6, <1>7, <1>8, <2>5, <2>6
<1> QED
  BY <1>9, <1>10

\* An event joins what the innermost call owns.
LEMMA LogEventKeeps ==
  ASSUME LogInv, LogEvent
  PROVE  LogInv'
<1> USE DEF LogInv
<1> PICK n \in Nat : n = Len(running)
  BY StackFacts
<1>1. /\ UNCHANGED <<running, invoked, failedCalls, outcome, truncated, instructions, stopped>>
      /\ n \in DOMAIN running /\ DOMAIN running = 1 .. n
      /\ Last(running) = running[n]
      /\ running # << >>
  BY StackFacts DEF LogEvent, Last
<1>2. Reads => Top.program = running[n].program /\ stack # << >>
  BY <1>1, StackFacts DEF FrameInv, Top, Last
<1>3. CASE running[n].program # PumpFun
  <2>1. UNCHANGED <<history, stack>>
    BY <1>1, <1>2, <1>3 DEF LogEvent, ReadData
  <2> QED
    BY <1>1, <2>1 DEF LogTypeOK, CallInv, OutcomeInv, FrameInv, CutInv, Reads, Under,
           Owned, Settled, Surviving
<1>4. CASE running[n].program = PumpFun
  <2> PICK K \in Nat : K = Len(history) + 1
    BY StackFacts
  <2> DEFINE P == {running[i].id : i \in DOMAIN running}
  <2>1. history' = Append(history, P)
    BY <1>1, <1>4 DEF LogEvent
  <2>2. P \subseteq 1 .. invoked /\ P \cap failedCalls = {}
    BY DEF CallInv
  <2>3. \A i \in DOMAIN running : running[i].id \in P
    OBVIOUS
  <2>4. P \in SUBSET Nat
    BY <2>2 DEF LogTypeOK
  <2> HIDE DEF P
  <2>5. /\ history' \in Seq(SUBSET Nat) /\ DOMAIN history' = 1 .. K /\ Len(history') = K
        /\ \A k \in 1 .. K - 1 : history'[k] = history[k]
        /\ history'[K] = P /\ DOMAIN history = 1 .. K - 1
    <3>1. history \in Seq(SUBSET Nat)
      BY DEF LogTypeOK
    <3> QED
      BY <2>1, <2>4, <3>1, AppendProperties, StackFacts
  <2>6. /\ \A k \in DOMAIN history, i \in DOMAIN running : Under(k, i)' <=> Under(k, i)
        /\ \A i \in DOMAIN running : Under(K, i)'
        /\ \A k \in DOMAIN history' : k \in DOMAIN history \/ k = K
        /\ \A k \in DOMAIN history : k < K
    BY <1>1, <2>3, <2>5 DEF Under
  <2>7. Surviving' = Surviving \cup {K} /\ Surviving \subseteq DOMAIN history
    BY <1>1, <2>2, <2>5 DEF Surviving
  <2>8. /\ Owned(n)' = Owned(n) \cup {K} /\ Settled' = Settled
        /\ \A i \in 1 .. n - 1 : Owned(i)' = Owned(i)
    <3>1. Owned(n)' = Owned(n) \cup {K}
      BY <1>1, <2>6, <2>7 DEF Owned
    <3>2. Settled' = Settled
      BY <1>1, <2>6, <2>7 DEF Settled
    <3>3. ASSUME NEW i \in 1 .. n - 1 PROVE Owned(i)' = Owned(i)
      <4>1. /\ i \in DOMAIN running /\ i + 1 \in DOMAIN running
            /\ i + 1 \in DOMAIN running'
        BY <1>1
      <4>2. \A k \in Surviving :
              (Under(k, i)' <=> Under(k, i)) /\ (Under(k, i + 1)' <=> Under(k, i + 1))
        BY <2>6, <2>7, <4>1, Zenon
      <4>3. Under(K, i + 1)'
        BY <2>6, <4>1, Zenon
      <4>4. Owned(i) = {k \in Surviving : Under(k, i) /\ ~ Under(k, i + 1)}
        BY <4>1 DEF Owned
      <4>5. Owned(i)' = {k \in Surviving' : Under(k, i)' /\ ~ Under(k, i + 1)'}
        BY <4>1 DEF Owned
      <4> HIDE DEF Owned, Under, Surviving
      <4> QED
        BY <2>7, <4>2, <4>3, <4>4, <4>5, Zenon
    <3> QED
      BY <3>1, <3>2, <3>3
  <2>9. CallInv'
    <3>1. \A k \in DOMAIN history' : history'[k] \subseteq 1 .. invoked
      <4>1. \A k \in DOMAIN history : history'[k] = history[k]
        BY <2>5
      <4> QED
        BY <2>2, <2>5, <2>6, <4>1, Zenon DEF CallInv
    <3>2. \A k \in DOMAIN history', i, j \in DOMAIN running :
            i < j /\ Under(k, j)' => Under(k, i)'
      BY <2>6, Zenon DEF CallInv
    <3>3. ASSUME NEW k \in DOMAIN history', NEW l \in DOMAIN history',
                 NEW i \in DOMAIN running, k < l, Under(k, i)'
          PROVE  Under(l, i)'
      <4>1. CASE l = K
        BY <2>6, <4>1, Zenon
      <4>2. CASE l \in DOMAIN history
        <5>1. k # K
          BY <2>6, <3>3, <4>2
        <5> QED
          BY <2>6, <3>3, <4>2, <5>1, Zenon DEF CallInv
      <4> QED
        BY <2>6, <4>1, <4>2, Zenon
    <3>4. running' = running /\ invoked' = invoked /\ failedCalls' = failedCalls
      BY <1>1
    <3> QED
      BY <3>1, <3>2, <3>3, <3>4, Zenon DEF CallInv
  <2>10. OutcomeInv'
    BY <1>1 DEF OutcomeInv
  <2>11. CutInv'
    <3>1. SUFFICES ASSUME truncated PROVE CutInv'
      BY <1>1 DEF CutInv
    <3>2. PICK m \in 0 .. Len(history) :
            /\ Lists(instructions, Surviving \cap 1 .. m)
            /\ \A k \in 1 .. m, i \in DOMAIN running : ~ Under(k, i)
      BY <3>1 DEF CutInv
    <3>3. Surviving' \cap 1 .. m = Surviving \cap 1 .. m /\ m \in 0 .. Len(history')
      BY <2>5, <2>7
    <3>4. \A k \in 1 .. m, i \in DOMAIN running' : ~ Under(k, i)'
      <4>1. \A k \in 1 .. m : k \in DOMAIN history
        BY <2>5
      <4> QED
        BY <1>1, <2>6, <3>2, <4>1
    <3> QED
      BY <1>1, <3>2, <3>3, <3>4 DEF CutInv
  <2>12. CASE ~ Reads
    <3>1. stack' = stack
      BY <2>12 DEF LogEvent
    <3>2. LogTypeOK'
      BY <1>1, <2>5, <3>1 DEF LogTypeOK
    <3>3. FrameInv'
      BY <1>1, <2>12 DEF FrameInv, Reads
    <3> QED
      BY <2>9, <2>10, <2>11, <3>2, <3>3
  <2>13. CASE Reads
    <3> DEFINE e == Append(stack[n].events, K)
               f == [stack[n] EXCEPT !.events = e]
    <3>1. /\ stack[n] \in Frame /\ n \in DOMAIN stack /\ Len(stack) = n
          /\ stack[n].events \in Seq(Nat)
      BY <1>1, <2>13, StackFacts DEF FrameInv, LogTypeOK
    <3>2. stack' = [stack EXCEPT ![n] = f]
      BY <1>1, <1>2, <1>4, <2>13, <3>1 DEF LogEvent, ReadData
    <3>3. e \in Seq(Nat)
      BY <3>1
    <3>4. f \in Frame /\ f.events = e /\ f.program = stack[n].program
      BY <3>1, <3>3 DEF Frame
    <3>5. Lists(e, Owned(n) \cup {K})
      <4>1. Lists(stack[n].events, Owned(n)) /\ \A x \in Owned(n) : x < K
        BY <1>1, <2>6, <2>7, <2>13 DEF FrameInv, Owned
      <4> QED
        BY <3>1, <4>1, ListsOneMore
    <3> HIDE DEF f, e
    <3>6. /\ stack' \in Seq(Frame) /\ Len(stack') = n /\ stack'[n] = f
          /\ \A i \in 1 .. n - 1 : stack'[i] = stack[i]
      <4>1. stack \in Seq(Frame)
        BY DEF LogTypeOK
      <4> QED
        BY <3>1, <3>2, <3>4, <4>1, ExceptSeq
    <3>7. LogTypeOK'
      BY <1>1, <2>5, <3>6 DEF LogTypeOK
    <3>8. FrameInv'
      <4>1. ASSUME NEW i \in DOMAIN running'
            PROVE  /\ stack'[i].program = running'[i].program
                   /\ Lists(stack'[i].events, Owned(i)')
        <5>1. CASE i = n
          BY <1>1, <2>8, <2>13, <3>4, <3>5, <3>6, <5>1 DEF FrameInv
        <5>2. CASE i \in 1 .. n - 1
          BY <1>1, <2>8, <2>13, <3>6, <5>2 DEF FrameInv
        <5> QED
          BY <1>1, <5>1, <5>2
      <4>2. Lists(instructions, Settled)'
        BY <1>1, <2>8, <2>13 DEF FrameInv
      <4> QED
        BY <1>1, <3>6, <4>1, <4>2 DEF FrameInv
    <3> QED
      BY <2>9, <2>10, <2>11, <3>7, <3>8
  <2> QED
    BY <2>12, <2>13
<1> QED
  BY <1>3, <1>4

\* The innermost call returns: what concerns the calls around it stays.
LEMMA ReturnFacts ==
  ASSUME LogInv, NEW n \in Nat, n = Len(running), running # << >>,
         running' = Front(running), history' = history
  PROVE  /\ n \in DOMAIN running /\ DOMAIN running = 1 .. n
         /\ running' \in Seq(Call) /\ DOMAIN running' = 1 .. n - 1
         /\ Len(running') = n - 1
         /\ \A i \in 1 .. n - 1 : running'[i] = running[i]
         /\ \A k \in DOMAIN history, i \in 1 .. n - 1 : Under(k, i)' <=> Under(k, i)
         /\ Last(running) = running[n]
         /\ Reads => /\ stack # << >> /\ Len(stack) = n /\ DOMAIN stack = 1 .. n
                     /\ Top = stack[n] /\ Top.program = Last(running).program
<1> USE DEF LogInv
<1>1. n \in DOMAIN running /\ DOMAIN running = 1 .. n /\ Last(running) = running[n]
  BY StackFacts DEF Last
<1>2. /\ running' \in Seq(Call) /\ Len(running') = n - 1
      /\ \A i \in 1 .. n - 1 : running'[i] = running[i]
      /\ DOMAIN running' = 1 .. n - 1
  <2>1. running \in Seq(Call)
    BY DEF LogTypeOK
  <2>2. running' = SubSeq(running, 1, n - 1)
    BY DEF Front
  <2> QED
    BY <1>1, <2>1, <2>2
<1>3. \A k \in DOMAIN history, i \in 1 .. n - 1 : Under(k, i)' <=> Under(k, i)
  BY <1>2 DEF Under
<1>4. Reads => /\ stack # << >> /\ Len(stack) = n /\ DOMAIN stack = 1 .. n
               /\ Top = stack[n] /\ Top.program = Last(running).program
  BY <1>1, StackFacts DEF FrameInv, Top, Last
<1> QED
  BY <1>1, <1>2, <1>3, <1>4

\* The parser's stack without the frame of the call that returned.
LEMMA FrontOfStack ==
  ASSUME LogTypeOK, NEW n \in Nat \ {0}, Len(stack) = n
  PROVE  /\ Front(stack) \in Seq(Frame) /\ Len(Front(stack)) = n - 1
         /\ \A i \in 1 .. n - 1 : Front(stack)[i] = stack[i]
<1>1. stack \in Seq(Frame)
  BY DEF LogTypeOK
<1>2. Front(stack) = SubSeq(stack, 1, n - 1)
  BY DEF Front
<1> QED
  BY <1>1, <1>2

\* A call that succeeds leaves its events to its caller.
LEMMA SucceedKeeps ==
  ASSUME LogInv, Succeed
  PROVE  LogInv'
<1> USE DEF LogInv
<1> PICK n \in Nat : n = Len(running)
  BY StackFacts
<1>1. /\ UNCHANGED <<invoked, failedCalls, history, outcome, truncated, stopped>>
      /\ running # << >> /\ running' = Front(running)
  BY DEF Succeed
<1>2. /\ n \in DOMAIN running /\ DOMAIN running = 1 .. n
      /\ running' \in Seq(Call) /\ DOMAIN running' = 1 .. n - 1
      /\ Len(running') = n - 1
      /\ \A i \in 1 .. n - 1 : running'[i] = running[i]
      /\ \A k \in DOMAIN history, i \in 1 .. n - 1 : Under(k, i)' <=> Under(k, i)
      /\ Last(running) = running[n]
      /\ Reads => /\ stack # << >> /\ Len(stack) = n /\ DOMAIN stack = 1 .. n
                  /\ Top = stack[n] /\ Top.program = Last(running).program
  BY <1>1, ReturnFacts
<1>3. Surviving' = Surviving /\ Surviving \subseteq DOMAIN history
  BY <1>1 DEF Surviving
<1>4. /\ n = 1 => Settled' = Settled \cup Owned(1)
      /\ n > 1 => Settled' = Settled /\ Owned(n - 1)' = Owned(n - 1) \cup Owned(n)
      /\ \A i \in 1 .. n - 2 : Owned(i)' = Owned(i)
  <2>1. ASSUME n = 1 PROVE Settled' = Settled \cup Owned(1)
    BY <1>2, <1>3, <2>1 DEF Settled, Owned
  <2>2. ASSUME n > 1 PROVE Settled' = Settled
    BY <1>2, <1>3, <2>2 DEF Settled
  <2>3. ASSUME n > 1 PROVE Owned(n - 1)' = Owned(n - 1) \cup Owned(n)
    <3>1. \A k \in DOMAIN history : Under(k, n) => Under(k, n - 1)
      BY <1>2, <2>3 DEF CallInv
    <3>2. Owned(n - 1)' = {k \in Surviving : Under(k, n - 1)}
      BY <1>2, <1>3, <2>3 DEF Owned
    <3>3. Owned(n - 1) = {k \in Surviving : Under(k, n - 1) /\ ~ Under(k, n)}
      BY <1>2, <2>3 DEF Owned
    <3>4. Owned(n) = {k \in Surviving : Under(k, n)}
      BY <1>2 DEF Owned
    <3> QED
      BY <1>3, <3>1, <3>2, <3>3, <3>4
  <2>4. ASSUME NEW i \in 1 .. n - 2 PROVE Owned(i)' = Owned(i)
    <3>1. i \in 1 .. n - 1 /\ i + 1 \in 1 .. n - 1 /\ i + 1 \in DOMAIN running
      BY <1>2
    <3> QED
      BY <1>2, <1>3, <3>1 DEF Owned
  <2> QED
    BY <2>1, <2>2, <2>3, <2>4
<1>5. CallInv'
  <2>1. \A i \in 1 .. n - 1 : i \in DOMAIN running
    BY <1>2
  <2> QED
    BY <1>1, <1>2, <2>1 DEF CallInv
<1>6. OutcomeInv'
  BY <1>1 DEF OutcomeInv
<1>7. CASE ~ Reads
  <2>1. UNCHANGED <<stack, instructions>>
    BY <1>7 DEF Succeed
  <2>2. LogTypeOK'
    BY <1>1, <1>2, <2>1 DEF LogTypeOK
  <2>3. FrameInv'
    BY <1>1, <1>7 DEF FrameInv, Reads
  <2>4. CutInv'
    <3>1. SUFFICES ASSUME truncated PROVE CutInv'
      BY <1>1 DEF CutInv
    <3>2. PICK m \in 0 .. Len(history) :
            /\ Lists(instructions, Surviving \cap 1 .. m)
            /\ \A k \in 1 .. m, i \in DOMAIN running : ~ Under(k, i)
      BY <3>1 DEF CutInv
    <3>3. \A k \in 1 .. m, i \in DOMAIN running' : ~ Under(k, i)'
      <4>1. \A k \in 1 .. m : k \in DOMAIN history
        BY StackFacts
      <4> QED
        BY <1>2, <3>2, <4>1
    <3> QED
      BY <1>1, <1>3, <2>1, <3>2, <3>3 DEF CutInv
  <2> QED
    BY <1>5, <1>6, <2>2, <2>3, <2>4
<1>8. CASE Reads
  <2>1. CutInv'
    BY <1>1, <1>8 DEF Reads, CutInv
  <2>2. /\ Front(stack) \in Seq(Frame) /\ Len(Front(stack)) = n - 1
        /\ \A i \in 1 .. n - 1 : Front(stack)[i] = stack[i]
    <3>1. n \in Nat \ {0} /\ Len(stack) = n
      BY <1>2, <1>8
    <3> QED
      BY <3>1, FrontOfStack
  <2>3. ReadSuccess(Last(running).program)
    BY <1>8 DEF Succeed
  <2>4. /\ stack[n].events \in Seq(Nat) /\ Lists(stack[n].events, Owned(n))
        /\ Lists(instructions, Settled) /\ instructions \in Seq(Nat)
    BY <1>2, <1>8, StackFacts DEF FrameInv, LogTypeOK
  <2>5. CASE n = 1
    <3>1. stack' = << >> /\ instructions' = instructions \o stack[n].events
      <4>1. Front(stack) = << >>
        BY <2>2, <2>5
      <4> QED
        BY <1>2, <1>8, <2>3, <4>1 DEF ReadSuccess
    <3>2. Lists(instructions', Settled')
      <4>1. \A x \in Settled, y \in Owned(1) : x < y
        BY <1>2, <1>3, <2>5, StackFacts DEF Settled, Owned, CallInv
      <4>2. Lists(instructions \o stack[n].events, Settled \cup Owned(1))
        BY <2>4, <2>5, <4>1, ListsJoined
      <4> QED
        BY <1>4, <2>5, <3>1, <4>2
    <3>3. LogTypeOK'
      <4>1. instructions' \in Seq(Nat)
        BY <2>4, <3>1
      <4>2. stack' \in Seq(Frame)
        BY <3>1, EmptySeq
      <4> QED
        BY <1>1, <1>2, <4>1, <4>2 DEF LogTypeOK
    <3>4. FrameInv'
      BY <1>2, <2>5, <3>1, <3>2 DEF FrameInv
    <3> QED
      BY <1>5, <1>6, <2>1, <3>3, <3>4
  <2>6. CASE n > 1
    <3> DEFINE rest == Front(stack)
               e == stack[n - 1].events \o stack[n].events
               f == [stack[n - 1] EXCEPT !.events = e]
    <3>1. instructions' = instructions /\ stack' = [rest EXCEPT ![n - 1] = f]
      <4>1. rest # << >> /\ rest[Len(rest)] = stack[n - 1] /\ Len(rest) = n - 1
        BY <2>2, <2>6
      <4> QED
        BY <1>2, <1>8, <2>3, <4>1 DEF ReadSuccess
    <3>2. /\ stack[n - 1] \in Frame /\ stack[n - 1].events \in Seq(Nat)
          /\ Lists(stack[n - 1].events, Owned(n - 1))
      <4>1. n - 1 \in DOMAIN stack /\ n - 1 \in DOMAIN running
        BY <1>2, <1>8, <2>6
      <4> QED
        BY <1>8, <4>1, StackFacts DEF FrameInv
    <3>3. e \in Seq(Nat) /\ f \in Frame /\ f.events = e /\ f.program = stack[n - 1].program
      <4>1. e \in Seq(Nat)
        BY <2>4, <3>2
      <4> HIDE DEF e
      <4> QED
        BY <3>2, <4>1 DEF Frame
    <3>4. Lists(e, Owned(n - 1)')
      <4>1. ASSUME NEW x \in Owned(n - 1), NEW y \in Owned(n) PROVE x < y
        <5>1. ~ Under(x, n) /\ Under(y, n) /\ x \in DOMAIN history /\ y \in DOMAIN history
          BY <1>2, <1>3, <2>6, <4>1 DEF Owned
        <5>2. y < x => Under(x, n)
          BY <1>2, <5>1 DEF CallInv
        <5>3. x # y /\ x \in Nat /\ y \in Nat
          BY <5>1, StackFacts
        <5> QED
          BY <5>1, <5>2, <5>3
      <4> QED
        BY <1>4, <2>4, <2>6, <3>2, <4>1, ListsJoined
    <3> HIDE DEF e, f, rest
    <3>5. /\ stack' \in Seq(Frame) /\ Len(stack') = n - 1 /\ stack'[n - 1] = f
          /\ \A i \in 1 .. n - 2 : stack'[i] = stack[i]
      <4>1. rest \in Seq(Frame) /\ Len(rest) = n - 1 /\ n - 1 \in 1 .. n - 1
        BY <2>2, <2>6 DEF rest
      <4>2. \A i \in 1 .. n - 2 : i \in 1 .. n - 1 /\ i # n - 1 /\ rest[i] = stack[i]
        BY <2>2 DEF rest
      <4>3. \A i \in 1 .. n - 2 : i \in 1 .. Len(rest)
        BY <4>1
      <4>4. /\ stack' \in Seq(Frame) /\ Len(stack') = Len(rest)
            /\ \A j \in 1 .. Len(rest) : stack'[j] = IF j = n - 1 THEN f ELSE rest[j]
        BY <3>1, <3>3, <4>1, ExceptSeq
      <4> QED
        BY <4>1, <4>2, <4>3, <4>4
    <3>6. LogTypeOK'
      BY <1>1, <1>2, <3>1, <3>5 DEF LogTypeOK
    <3>7. FrameInv'
      <4>1. ASSUME NEW i \in DOMAIN running'
            PROVE  /\ stack'[i].program = running'[i].program
                   /\ Lists(stack'[i].events, Owned(i)')
        <5>1. i \in DOMAIN running /\ running'[i] = running[i]
          BY <1>2
        <5>2. CASE i = n - 1
          BY <1>8, <3>3, <3>4, <3>5, <5>1, <5>2 DEF FrameInv
        <5>3. CASE i \in 1 .. n - 2
          BY <1>4, <1>8, <3>5, <5>1, <5>3 DEF FrameInv
        <5> QED
          BY <1>2, <5>2, <5>3
      <4>2. Lists(instructions', Settled')
        BY <1>4, <2>4, <2>6, <3>1
      <4> QED
        BY <1>2, <3>5, <4>1, <4>2 DEF FrameInv
    <3> QED
      BY <1>5, <1>6, <2>1, <3>6, <3>7
  <2> QED
    BY <1>2, <2>5, <2>6
<1> QED
  BY <1>7, <1>8

\* A call that fails takes its events with it, and nothing else.
LEMMA FailKeeps ==
  ASSUME LogInv, Fail
  PROVE  LogInv'
<1> USE DEF LogInv
<1> PICK n \in Nat : n = Len(running)
  BY StackFacts
<1>1. /\ UNCHANGED <<invoked, history, truncated>>
      /\ running # << >> /\ running' = Front(running)
      /\ failedCalls' = failedCalls \cup {Last(running).id}
      /\ outcome' = IF n = 1 THEN "failed" ELSE outcome
  BY DEF Fail
<1>2. /\ n \in DOMAIN running /\ DOMAIN running = 1 .. n
      /\ running' \in Seq(Call) /\ DOMAIN running' = 1 .. n - 1
      /\ Len(running') = n - 1
      /\ \A i \in 1 .. n - 1 : running'[i] = running[i]
      /\ \A k \in DOMAIN history, i \in 1 .. n - 1 : Under(k, i)' <=> Under(k, i)
      /\ Last(running) = running[n]
      /\ Reads => /\ stack # << >> /\ Len(stack) = n /\ DOMAIN stack = 1 .. n
                  /\ Top = stack[n] /\ Top.program = Last(running).program
  BY <1>1, ReturnFacts
<1>3. /\ Surviving' = {k \in Surviving : ~ Under(k, n)}
      /\ Surviving \subseteq DOMAIN history
  BY <1>1, <1>2 DEF Surviving, Under
<1>4. /\ n > 1 => Settled' = Settled
      /\ \A i \in 1 .. n - 1 : Owned(i)' = Owned(i)
  <2>1. ASSUME NEW i \in 1 .. n - 1, NEW k \in Surviving, Under(k, n)
        PROVE  Under(k, i)
    BY <1>2, <1>3, <2>1 DEF CallInv
  <2>2. ASSUME n > 1 PROVE Settled' = Settled
    <3>1. 1 \in 1 .. n - 1
      BY <2>2
    <3> QED
      BY <1>2, <1>3, <2>1, <3>1 DEF Settled
  <2>3. ASSUME NEW i \in 1 .. n - 1 PROVE Owned(i)' = Owned(i)
    <3>1. CASE i = n - 1
      BY <1>2, <1>3, <3>1 DEF Owned
    <3>2. CASE i < n - 1
      <4>1. i + 1 \in 1 .. n - 1
        BY <3>2
      <4> QED
        BY <1>2, <1>3, <2>1, <4>1 DEF Owned
    <3> QED
      BY <3>1, <3>2
  <2> QED
    BY <2>2, <2>3
<1>5. CallInv'
  <2>1. \A i \in 1 .. n - 1 : i \in DOMAIN running /\ i < n
    BY <1>2
  <2>2. \A i \in 1 .. n - 1 : running'[i].id # running[n].id
    <3>1. SUFFICES ASSUME NEW i \in 1 .. n - 1 PROVE running[i].id # running[n].id
      BY <1>2
    <3>2. running[i].id < running[n].id
      BY <1>2, <2>1 DEF CallInv
    <3>3. running[i].id \in Nat /\ running[n].id \in Nat
      BY <1>2, <2>1, StackFacts
    <3> QED
      BY <3>2, <3>3
  <2>3. \A i \in DOMAIN running' :
          running'[i].id \in 1 .. invoked' /\ running'[i].id \notin failedCalls'
    BY <1>1, <1>2, <2>1, <2>2 DEF CallInv
  <2>4. /\ \A k \in DOMAIN history' : history'[k] \subseteq 1 .. invoked'
        /\ \A i, j \in DOMAIN running' : i < j => running'[i].id < running'[j].id
    BY <1>1, <1>2, <2>1 DEF CallInv
  <2>5. /\ \A k \in DOMAIN history', i, j \in DOMAIN running' :
             i < j /\ Under(k, j)' => Under(k, i)'
        /\ \A k, l \in DOMAIN history', i \in DOMAIN running' :
             k < l /\ Under(k, i)' => Under(l, i)'
    BY <1>1, <1>2, <2>1 DEF CallInv
  <2> QED
    BY <2>3, <2>4, <2>5 DEF CallInv
<1>6. failedCalls' \subseteq 1 .. invoked'
  <2>1. running[n].id \in 1 .. invoked
    BY <1>2 DEF CallInv
  <2>2. failedCalls \subseteq 1 .. invoked
    BY DEF LogTypeOK
  <2> QED
    BY <1>1, <1>2, <2>1, <2>2
<1>7. CASE ~ Reads
  <2>1. UNCHANGED <<stack, instructions, stopped>>
    BY <1>7 DEF Fail
  <2>2. LogTypeOK'
    BY <1>1, <1>2, <1>6, <2>1 DEF LogTypeOK
  <2>3. FrameInv'
    BY <1>1, <1>7, <2>1 DEF FrameInv, Reads
  <2>4. truncated
    BY <1>1, <1>7 DEF Reads, OutcomeInv
  <2>5. OutcomeInv'
    <3>1. outcome' # "running" => running' = << >>
      <4>1. n = 1 => running' = << >>
        BY <1>2
      <4> QED
        BY <1>1, <4>1 DEF OutcomeInv
    <3> QED
      BY <1>1, <2>1, <2>4, <3>1 DEF OutcomeInv
  <2>6. CutInv'
    <3>1. PICK m \in 0 .. Len(history) :
            /\ Lists(instructions, Surviving \cap 1 .. m)
            /\ \A k \in 1 .. m, i \in DOMAIN running : ~ Under(k, i)
      BY <2>4 DEF CutInv
    <3>2. Surviving' \cap 1 .. m = Surviving \cap 1 .. m
      BY <1>2, <1>3, <3>1
    <3>3. \A k \in 1 .. m, i \in DOMAIN running' : ~ Under(k, i)'
      <4>1. \A k \in 1 .. m : k \in DOMAIN history
        BY StackFacts
      <4>2. \A i \in DOMAIN running' : i \in DOMAIN running /\ i \in 1 .. n - 1
        BY <1>2
      <4> QED
        BY <1>2, <3>1, <4>1, <4>2
    <3> QED
      BY <1>1, <2>1, <3>1, <3>2, <3>3 DEF CutInv
  <2> QED
    BY <1>5, <2>2, <2>3, <2>5, <2>6
<1>8. CASE Reads
  <2>1. ~ truncated' /\ CutInv'
    BY <1>1, <1>8 DEF Reads, CutInv
  <2>2. ReadFailure(Last(running).program)
    BY <1>8 DEF Fail
  <2>3. /\ stack' = Front(stack)
        /\ IF n = 1 THEN instructions' = << >> /\ stopped' = TRUE
                    ELSE UNCHANGED <<instructions, stopped>>
    BY <1>2, <1>8, <2>2 DEF ReadFailure
  <2>4. /\ stack' \in Seq(Frame) /\ Len(stack') = n - 1
        /\ \A i \in 1 .. n - 1 : stack'[i] = stack[i]
    <3>1. n \in Nat \ {0} /\ Len(stack) = n
      BY <1>2, <1>8
    <3> QED
      BY <2>3, <3>1, FrontOfStack
  <2>5. LogTypeOK'
    <3>1. instructions' \in Seq(Nat) /\ stopped' \in BOOLEAN
      BY <2>3, EmptySeq DEF LogTypeOK
    <3>2. outcome' \in {"running", "succeeded", "failed"}
      BY <1>1 DEF LogTypeOK
    <3> QED
      BY <1>1, <1>2, <1>6, <2>4, <3>1, <3>2 DEF LogTypeOK
  <2>6. OutcomeInv'
    <3>1. CASE n = 1
      <4>1. running' = << >>
        BY <1>2, <3>1
      <4> QED
        BY <1>1, <2>3, <3>1, <4>1 DEF OutcomeInv
    <3>2. CASE n # 1
      BY <1>1, <2>3, <3>2 DEF OutcomeInv
    <3> QED
      BY <3>1, <3>2
  <2>7. FrameInv'
    <3>1. CASE n = 1
      BY <2>3, <3>1 DEF FrameInv, Reads
    <3>2. CASE n # 1
      <4>1. ASSUME NEW i \in DOMAIN running'
            PROVE  /\ stack'[i].program = running'[i].program
                   /\ Lists(stack'[i].events, Owned(i)')
        <5>1. i \in DOMAIN running /\ i \in 1 .. n - 1
          BY <1>2
        <5> QED
          BY <1>2, <1>4, <1>8, <2>4, <5>1 DEF FrameInv
      <4>2. Lists(instructions', Settled')
        BY <1>2, <1>4, <1>8, <2>3, <3>2 DEF FrameInv
      <4> QED
        BY <1>2, <2>4, <4>1, <4>2 DEF FrameInv
    <3> QED
      BY <3>1, <3>2
  <2> QED
    BY <1>5, <2>1, <2>5, <2>6, <2>7
<1> QED
  BY <1>7, <1>8

\* When the log ends early, the events that are out of every running call are the
\* first of the survivors.
LEMMA TruncateKeeps ==
  ASSUME LogInv, Truncate
  PROVE  LogInv'
<1> USE DEF LogInv
<1>1. /\ UNCHANGED <<running, invoked, failedCalls, history, outcome, stack,
                     instructions, stopped>>
      /\ truncated' = TRUE /\ Reads
  BY DEF Truncate, OutcomeInv, Reads
<1>2. \E m \in 0 .. Len(history) :
        /\ Settled = Surviving \cap 1 .. m
        /\ \A k \in 1 .. m, i \in DOMAIN running : ~ Under(k, i)
  <2> DEFINE inside == {k \in DOMAIN history : 1 \in DOMAIN running /\ Under(k, 1)}
  <2>1. CASE inside = {}
    <3>1. \A k \in DOMAIN history, i \in DOMAIN running : ~ Under(k, i)
      <4>1. SUFFICES ASSUME NEW k \in DOMAIN history, NEW i \in DOMAIN running,
                            Under(k, i)
                     PROVE  FALSE
        OBVIOUS
      <4>2. 1 \in DOMAIN running /\ (i = 1 \/ 1 < i)
        BY StackFacts
      <4>3. Under(k, 1)
        BY <4>1, <4>2 DEF CallInv
      <4> QED
        BY <2>1, <4>2, <4>3
    <3>2. Settled = Surviving \cap 1 .. Len(history)
      <4>1. Settled = Surviving
        BY <2>1 DEF Settled, Surviving
      <4>2. Surviving \subseteq 1 .. Len(history)
        BY StackFacts DEF Surviving
      <4> QED
        BY <4>1, <4>2
    <3>3. \A k \in 1 .. Len(history) : k \in DOMAIN history
      BY StackFacts
    <3>4. Len(history) \in 0 .. Len(history)
      BY StackFacts
    <3> QED
      BY <3>1, <3>2, <3>3, <3>4
  <2>2. CASE inside # {}
    <3>1. inside \in SUBSET Nat
      BY StackFacts
    <3>2. PICK f \in inside : \A k \in inside : f <= k
      <4> HIDE DEF inside
      <4> QED
        BY <2>2, <3>1, LeastNatural
    <3>3. /\ f \in 1 .. Len(history) /\ 1 \in DOMAIN running /\ Under(f, 1)
          /\ f - 1 \in 0 .. Len(history)
      BY StackFacts
    <3>4. \A k \in DOMAIN history : k < f <=> ~ Under(k, 1)
      <4>1. ASSUME NEW k \in DOMAIN history, k < f PROVE ~ Under(k, 1)
        BY <3>1, <3>2, <3>3, <4>1, StackFacts
      <4>2. ASSUME NEW k \in DOMAIN history, ~ (k < f) PROVE Under(k, 1)
        <5>1. k = f \/ f < k
          BY <3>3, <4>2, StackFacts
        <5> QED
          BY <3>3, <5>1, StackFacts DEF CallInv
      <4> QED
        BY <4>1, <4>2
    <3>5. \A k \in 1 .. f - 1, i \in DOMAIN running : ~ Under(k, i)
      <4>1. SUFFICES ASSUME NEW k \in 1 .. f - 1, NEW i \in DOMAIN running,
                            Under(k, i)
                     PROVE  FALSE
        OBVIOUS
      <4>2. k \in DOMAIN history /\ k < f /\ (i = 1 \/ 1 < i)
        BY <3>3, StackFacts
      <4>3. Under(k, 1)
        BY <3>3, <4>1, <4>2 DEF CallInv
      <4> QED
        BY <3>4, <4>2, <4>3
    <3>6. Settled = Surviving \cap 1 .. f - 1
      <4>1. Settled = {k \in Surviving : k < f}
        BY <3>3, <3>4 DEF Settled, Surviving
      <4> QED
        BY <3>3, <4>1, StackFacts DEF Surviving
    <3> QED
      BY <3>3, <3>5, <3>6
  <2> QED
    BY <2>1, <2>2
<1>3. CutInv'
  <2>1. /\ Surviving' = Surviving
        /\ \A k \in DOMAIN history, i \in DOMAIN running : Under(k, i)' <=> Under(k, i)
    BY <1>1 DEF Surviving, Under
  <2>2. PICK m \in 0 .. Len(history) :
          /\ Settled = Surviving \cap 1 .. m
          /\ \A k \in 1 .. m, i \in DOMAIN running : ~ Under(k, i)
    BY <1>2
  <2>3. Lists(instructions, Surviving \cap 1 .. m)
    BY <1>1, <2>2 DEF FrameInv
  <2>4. \A k \in 1 .. m : k \in DOMAIN history
    BY StackFacts
  <2> QED
    BY <1>1, <2>1, <2>2, <2>3, <2>4 DEF CutInv
<1> QED
  BY <1>1, <1>3 DEF LogTypeOK, CallInv, OutcomeInv, FrameInv, Reads, Under

\* Every step keeps the frames in agreement with the execution.
LEMMA LogSteps == LogInv /\ [LogNext]_logVars => LogInv'
<1>1. SUFFICES ASSUME LogInv, [LogNext]_logVars PROVE LogInv'
  OBVIOUS
<1>2. ASSUME UNCHANGED logVars \/ Finish PROVE LogInv'
  <2>1. /\ UNCHANGED <<running, invoked, failedCalls, history, truncated, stack,
                       instructions, stopped>>
        /\ \/ outcome' = outcome
           \/ outcome' = "succeeded" /\ outcome = "running" /\ running = << >>
    BY <1>2 DEF logVars, Finish
  <2>2. LogTypeOK'
    BY <1>1, <2>1 DEF LogInv, LogTypeOK
  <2>3. CallInv'
    BY <1>1, <2>1 DEF LogInv, CallInv, Under
  <2>4. OutcomeInv'
    BY <1>1, <2>1 DEF LogInv, OutcomeInv
  <2>5. FrameInv'
    BY <1>1, <2>1 DEF LogInv, FrameInv, Reads, Owned, Settled, Surviving, Under
  <2>6. CutInv'
    BY <1>1, <2>1 DEF LogInv, CutInv, Surviving, Under
  <2> QED
    BY <2>2, <2>3, <2>4, <2>5, <2>6 DEF LogInv
<1> QED
  BY <1>1, <1>2, InvokeKeeps, LogEventKeeps, SucceedKeeps, FailKeeps,
     TruncateKeeps DEF LogNext

\* For every nesting of calls, of the same and of other programs, to any depth:
\* parse_instruction reports exactly the events whose enclosing calls succeeded,
\* in log order, and the first of them when the log was cut off.
THEOREM FramesFollowExecution == LogSafety => []FramesMatchExecution
<1>1. LogInv => FramesMatchExecution
  <2>1. SUFFICES ASSUME LogInv PROVE FramesMatchExecution
    OBVIOUS
  <2> USE <2>1 DEF LogInv
  <2>2. ASSUME outcome = "succeeded", ~ truncated
        PROVE  Lists(instructions, Surviving)
    <3>1. running = << >> /\ Reads
      BY <2>2 DEF OutcomeInv, Reads
    <3>2. Settled = Surviving
      BY <3>1 DEF Settled
    <3> QED
      BY <3>1, <3>2 DEF FrameInv
  <2>3. ASSUME outcome = "succeeded", truncated
        PROVE  \E n \in 0 .. Len(history) : Lists(instructions, Surviving \cap 1 .. n)
    BY <2>3 DEF CutInv
  <2>4. ASSUME outcome = "failed", ~ truncated
        PROVE  instructions = << >>
    BY <2>4 DEF OutcomeInv
  <2> QED
    BY <2>2, <2>3, <2>4 DEF FramesMatchExecution
<1> QED
  BY <1>1, LogStarts, LogSteps, PTL DEF LogSafety

-----------------------------------------------------------------------------
(* Loops over a sequence. *)

\* Induction along a loop, with the rounds for which a fact holds as a set.
LEMMA EachRound ==
  ASSUME NEW N \in Nat, NEW G, 0 \in G, \A n \in 1 .. N : n - 1 \in G => n \in G
  PROVE  \A n \in 0 .. N : n \in G
<1> DEFINE S == {n \in 0 .. N : n \notin G}
<1>1. SUFFICES ASSUME S # {} PROVE FALSE
  OBVIOUS
<1>2. PICK m \in S : \A k \in S : m <= k
  <2>1. S \in SUBSET Nat
    OBVIOUS
  <2> HIDE DEF S
  <2> QED
    BY <1>1, <2>1, LeastNatural
<1>3. m \in 1 .. N /\ m - 1 \in 0 .. N /\ m - 1 \notin S
  BY <1>2
<1> QED
  BY <1>2, <1>3

\* The functions that start with `first' and follow F from round to round.
Loops(N, X, first, F) ==
  {f \in [0 .. N -> X] :
     f[0] = first /\ \A n \in 1 .. N : f[n] = F[n][f[n - 1]]}

\* A function that is defined by its value of one round before exists.
LEMMA LoopExists ==
  ASSUME NEW N \in Nat, NEW X, NEW first \in X, NEW F \in [1 .. N -> [X -> X]]
  PROVE  Loops(N, X, first, F) # {}
<1> DEFINE Runs(f, m) == /\ f \in [0 .. m -> X] /\ f[0] = first
                         /\ \A n \in 1 .. m : f[n] = F[n][f[n - 1]]
           G == {m \in 0 .. N : \E f : Runs(f, m)}
<1>1. 0 \in G
  <2> DEFINE f == [n \in 0 .. 0 |-> first]
  <2>1. Runs(f, 0)
    OBVIOUS
  <2> HIDE DEF f, Runs
  <2> QED
    BY <2>1
<1>2. ASSUME NEW m \in 1 .. N, m - 1 \in G PROVE m \in G
  <2>1. PICK f : Runs(f, m - 1)
    BY <1>2
  <2>2. f[m - 1] \in X /\ F[m][f[m - 1]] \in X
    <3>1. m - 1 \in 0 .. (m - 1)
      OBVIOUS
    <3>2. f[m - 1] \in X
      BY <2>1, <3>1
    <3> QED
      BY <3>2
  <2> DEFINE g == [n \in 0 .. m |-> IF n < m THEN f[n] ELSE F[m][f[m - 1]]]
  <2>3. g \in [0 .. m -> X]
    <3>1. ASSUME NEW n \in 0 .. m, n < m PROVE f[n] \in X
      BY <2>1, <3>1
    <3> QED
      BY <2>2, <3>1
  <2>4. g[0] = first
    BY <2>1
  <2>5. ASSUME NEW n \in 1 .. m PROVE g[n] = F[n][g[n - 1]]
    <3>1. CASE n < m
      BY <2>1, <3>1
    <3>2. CASE n = m
      <4>1. g[n] = F[m][f[m - 1]] /\ g[n - 1] = f[m - 1]
        BY <3>2
      <4> QED
        BY <3>2, <4>1
    <3> QED BY <3>1, <3>2
  <2>6. Runs(g, m)
    BY <2>3, <2>4, <2>5
  <2> HIDE DEF g, Runs
  <2> QED
    BY <2>6
<1>3. N \in G
  <2> HIDE DEF G
  <2>1. \A n \in 0 .. N : n \in G
    BY <1>1, <1>2, EachRound, Zenon
  <2> QED
    BY <2>1
<1> QED
  BY <1>3 DEF Loops

\* The rounds of the loops, as their definitions say.
PicksUp(f, ixs, accepted) ==
  /\ f[0] = << >>
  /\ \A n \in 1 .. Len(ixs) :
       /\ <<ixs[n].op, ixs[n].shape>> \in accepted => f[n] = Append(f[n - 1], ixs[n])
       /\ <<ixs[n].op, ixs[n].shape>> \notin accepted => f[n] = f[n - 1]
  /\ \A n \in 0 .. Len(ixs) : f[n] \in Seq(Instruction)

LEMMA PickedRounds ==
  ASSUME NEW ixs \in Seq(Instruction), NEW accepted
  PROVE  PicksUp(Picked(ixs, accepted), ixs, accepted)
<1> DEFINE N == Len(ixs)
           X == Seq(Instruction)
           first == << >>
           Following(n, before) ==
             IF <<ixs[n].op, ixs[n].shape>> \in accepted
             THEN Append(before, ixs[n]) ELSE before
           F == [n \in 1 .. N |-> [before \in X |-> Following(n, before)]]
           Body(f) == [n \in 0 .. N |->
                         IF n = 0 THEN << >> ELSE Following(n, f[n - 1])]
<1>1. N \in Nat /\ first \in X /\ F \in [1 .. N -> [X -> X]]
  OBVIOUS
<1>2. \A n \in 1 .. N, x \in X : F[n][x] = Following(n, x)
  OBVIOUS
<1>3. Picked(ixs, accepted) = CHOOSE f : f = Body(f)
  BY DEF Picked
<1> HIDE DEF X, F, Following, N, first
<1>4. PICK f \in [0 .. N -> X] :
        f[0] = first /\ \A n \in 1 .. N : f[n] = F[n][f[n - 1]]
  <2>1. Loops(N, X, first, F) # {}
    BY <1>1, LoopExists, Zenon
  <2> QED
    BY <2>1 DEF Loops
<1>5. f = Body(f)
  <2>1. ASSUME NEW n \in 0 .. N PROVE f[n] = Body(f)[n]
    <3>1. CASE n = 0
      BY <1>1, <1>4, <3>1 DEF first
    <3>2. CASE n \in 1 .. N
      <4>1. f[n - 1] \in X
        BY <1>1, <1>4, <3>2
      <4> QED
        BY <1>1, <1>2, <1>4, <3>2, <4>1
    <3> QED
      BY <1>1, <3>1, <3>2
  <2> QED
    BY <1>4, <2>1
<1>6. Picked(ixs, accepted) = Body(Picked(ixs, accepted))
  BY <1>3, <1>5
<1>7. /\ Picked(ixs, accepted)[0] = << >>
      /\ \A n \in 1 .. N :
           Picked(ixs, accepted)[n] = Following(n, Picked(ixs, accepted)[n - 1])
  BY <1>1, <1>6
<1>8. << >> \in Seq(Instruction) /\ \A n \in 1 .. N : ixs[n] \in Instruction
  BY DEF N
<1>9. ASSUME NEW n \in 1 .. N, NEW x \in Seq(Instruction)
      PROVE  Following(n, x) \in Seq(Instruction)
  BY <1>8 DEF Following
<1> DEFINE G == {n \in 0 .. N : Picked(ixs, accepted)[n] \in Seq(Instruction)}
<1>10. 0 \in G
  <2>1. 0 \in 0 .. N
    BY <1>1
  <2>2. Picked(ixs, accepted)[0] \in Seq(Instruction)
    BY <1>7, <1>8, Zenon
  <2> QED
    BY <2>1, <2>2
<1>11. ASSUME NEW n \in 1 .. N, n - 1 \in G PROVE n \in G
  <2>1. Picked(ixs, accepted)[n - 1] \in Seq(Instruction) /\ n \in 0 .. N
    BY <1>1, <1>11
  <2>2. Following(n, Picked(ixs, accepted)[n - 1]) \in Seq(Instruction)
    BY <1>9, <2>1, Zenon
  <2>3. Picked(ixs, accepted)[n] \in Seq(Instruction)
    BY <1>7, <2>2, Zenon
  <2> QED
    BY <2>1, <2>3
<1> HIDE DEF G
<1>12. \A n \in 0 .. N : n \in G
  BY <1>1, <1>10, <1>11, EachRound, Zenon
<1>13. \A n \in 0 .. N : Picked(ixs, accepted)[n] \in Seq(Instruction)
  BY <1>12 DEF G
<1> QED
  BY <1>7, <1>13 DEF Following, N, PicksUp

AddsUp(f, amounts) ==
  /\ f[0] = 0
  /\ \A n \in 1 .. Len(amounts) : f[n] = f[n - 1] + amounts[n]
  /\ \A n \in 0 .. Len(amounts) : f[n] \in Nat

LEMMA SumsRounds ==
  ASSUME NEW amounts \in Seq(Nat)
  PROVE  AddsUp(Sums(amounts), amounts)
<1> DEFINE N == Len(amounts)
           X == Nat
           first == 0
           F == [n \in 1 .. N |-> [before \in X |-> before + amounts[n]]]
           Body(f) == [n \in 0 .. N |-> IF n = 0 THEN 0 ELSE f[n - 1] + amounts[n]]
<1>1. /\ N \in Nat /\ first \in X /\ F \in [1 .. N -> [X -> X]]
      /\ \A n \in 1 .. N : amounts[n] \in Nat
  OBVIOUS
<1>2. \A n \in 1 .. N, x \in X : F[n][x] = x + amounts[n]
  OBVIOUS
<1>3. Sums(amounts) = CHOOSE f : f = Body(f)
  BY DEF Sums
<1> HIDE DEF X, F, N, first
<1>4. PICK f \in [0 .. N -> X] :
        f[0] = first /\ \A n \in 1 .. N : f[n] = F[n][f[n - 1]]
  <2>1. Loops(N, X, first, F) # {}
    BY <1>1, LoopExists, Zenon
  <2> QED
    BY <2>1 DEF Loops
<1>5. f = Body(f)
  <2>1. ASSUME NEW n \in 0 .. N PROVE f[n] = Body(f)[n]
    <3>1. CASE n = 0
      BY <1>1, <1>4, <3>1 DEF first
    <3>2. CASE n \in 1 .. N
      <4>1. f[n - 1] \in X
        BY <1>1, <1>4, <3>2
      <4> QED
        BY <1>1, <1>2, <1>4, <3>2, <4>1
    <3> QED
      BY <1>1, <3>1, <3>2
  <2> QED
    BY <1>4, <2>1
<1>6. Sums(amounts) = Body(Sums(amounts))
  BY <1>3, <1>5
<1>7. /\ Sums(amounts)[0] = 0
      /\ \A n \in 1 .. N : Sums(amounts)[n] = Sums(amounts)[n - 1] + amounts[n]
  BY <1>1, <1>6
<1> DEFINE G == {n \in 0 .. N : Sums(amounts)[n] \in Nat}
<1>8. 0 \in G
  BY <1>1, <1>7
<1>10. ASSUME NEW n \in 1 .. N, n - 1 \in G PROVE n \in G
  <2>1. Sums(amounts)[n - 1] \in Nat /\ amounts[n] \in Nat
    BY <1>1, <1>10
  <2>2. Sums(amounts)[n] \in Nat
    BY <1>7, <2>1
  <2> QED
    BY <1>1, <2>2
<1> HIDE DEF G
<1>9. \A n \in 0 .. N : n \in G
  BY <1>1, <1>8, <1>10, EachRound, Zenon
<1> QED
  BY <1>7, <1>9 DEF N, G, AddsUp

-----------------------------------------------------------------------------
(* Sums. *)

\* Sums of sequences that begin alike are alike so far.
LEMMA SumsAlike ==
  ASSUME NEW s \in Seq(Nat), NEW t \in Seq(Nat), NEW N \in Nat,
         N <= Len(s), N <= Len(t), \A n \in 1 .. N : s[n] = t[n]
  PROVE  Sums(s)[N] = Sums(t)[N]
<1> DEFINE G == {n \in 0 .. N : Sums(s)[n] = Sums(t)[n]}
<1>0. AddsUp(Sums(s), s) /\ AddsUp(Sums(t), t)
  BY SumsRounds
<1>1. 0 \in G
  BY <1>0 DEF AddsUp
<1>2. ASSUME NEW n \in 1 .. N, n - 1 \in G PROVE n \in G
  <2>1. n \in 1 .. Len(s) /\ n \in 1 .. Len(t)
    OBVIOUS
  <2> QED
    BY <1>0, <1>2, <2>1 DEF AddsUp
<1> HIDE DEF G
<1>3. \A n \in 0 .. N : n \in G
  BY <1>1, <1>2, EachRound, Zenon
<1> QED
  BY <1>3 DEF G

LEMMA TotalOfNone ==
  ASSUME NEW s \in Seq(Nat), Len(s) = 0
  PROVE  Total(s) = 0
BY SumsRounds DEF AddsUp, Total

LEMMA TotalOfMore ==
  ASSUME NEW s \in Seq(Nat), NEW x \in Nat
  PROVE  Total(Append(s, x)) = Total(s) + x /\ Total(s) \in Nat
<1> DEFINE t == Append(s, x)
<1>1. /\ t \in Seq(Nat) /\ Len(t) = Len(s) + 1 /\ t[Len(t)] = x /\ Len(s) \in Nat
      /\ \A n \in 1 .. Len(s) : s[n] = t[n]
  OBVIOUS
<1> HIDE DEF t
<1>0. AddsUp(Sums(s), s) /\ AddsUp(Sums(t), t)
  BY <1>1, SumsRounds
<1>2. Sums(t)[Len(t)] = Sums(t)[Len(s)] + x
  BY <1>0, <1>1 DEF AddsUp
<1>3. Sums(t)[Len(s)] = Sums(s)[Len(s)]
  <2>1. Len(s) <= Len(s) /\ Len(s) <= Len(t)
    BY <1>1
  <2> QED
    BY <1>1, <2>1, SumsAlike, Zenon
<1>4. Total(s) \in Nat
  BY <1>0, <1>1 DEF AddsUp, Total
<1> QED
  BY <1>2, <1>3, <1>4 DEF Total, t

LEMMA TotalOfBoth ==
  ASSUME NEW s \in Seq(Nat), NEW t \in Seq(Nat)
  PROVE  Total(s \o t) = Total(s) + Total(t)
<1> DEFINE u == s \o t
           G == {n \in 0 .. Len(t) : Sums(u)[Len(s) + n] = Total(s) + Sums(t)[n]}
<1>1. /\ u \in Seq(Nat) /\ Len(u) = Len(s) + Len(t)
      /\ Len(s) \in Nat /\ Len(t) \in Nat
      /\ \A n \in 1 .. Len(s) : u[n] = s[n]
      /\ \A n \in 1 .. Len(t) : u[Len(s) + n] = t[n] /\ t[n] \in Nat
  OBVIOUS
<1> HIDE DEF u
<1>0. AddsUp(Sums(s), s) /\ AddsUp(Sums(t), t) /\ AddsUp(Sums(u), u)
  BY <1>1, SumsRounds
<1>2. Total(s) \in Nat
  BY <1>0, <1>1 DEF AddsUp, Total
<1>3. 0 \in G
  <2>1. Len(s) <= Len(s) /\ Len(s) <= Len(u)
    BY <1>1
  <2>2. Sums(u)[Len(s)] = Sums(s)[Len(s)]
    BY <1>1, <2>1, SumsAlike, Zenon
  <2> QED
    BY <1>0, <1>1, <1>2, <2>2 DEF AddsUp, Total
<1>4. ASSUME NEW n \in 1 .. Len(t), n - 1 \in G PROVE n \in G
  <2>1. Sums(u)[Len(s) + n] = Sums(u)[Len(s) + n - 1] + t[n]
    <3>1. Len(s) + n \in 1 .. Len(u)
      BY <1>1
    <3>2. Sums(u)[Len(s) + n] = Sums(u)[Len(s) + n - 1] + u[Len(s) + n]
      BY <1>0, <3>1 DEF AddsUp
    <3> QED
      BY <1>1, <3>2
  <2>2. Sums(t)[n] = Sums(t)[n - 1] + t[n] /\ Sums(t)[n - 1] \in Nat
    BY <1>0, <1>1 DEF AddsUp
  <2>3. Sums(u)[Len(s) + (n - 1)] = Total(s) + Sums(t)[n - 1]
    BY <1>4
  <2>4. Len(s) + (n - 1) = Len(s) + n - 1 /\ t[n] \in Nat
    BY <1>1
  <2>5. Sums(u)[Len(s) + n] = Total(s) + Sums(t)[n]
    BY <1>2, <2>1, <2>2, <2>3, <2>4
  <2> QED
    BY <2>5
<1> HIDE DEF G
<1>5. \A n \in 0 .. Len(t) : n \in G
  BY <1>1, <1>3, <1>4, EachRound, Zenon
<1>6. Len(t) \in G
  BY <1>1, <1>5
<1> QED
  BY <1>1, <1>6 DEF G, Total, u

\* Two sums taken together.
LEMMA TotalOfSums ==
  ASSUME NEW s \in Seq(Nat), NEW t \in Seq(Nat), NEW u \in Seq(Nat),
         Len(s) = Len(t), Len(u) = Len(t),
         \A n \in 1 .. Len(u) : u[n] = s[n] + t[n]
  PROVE  Total(u) = Total(s) + Total(t)
<1> DEFINE N == Len(u)
           G == {n \in 0 .. N : Sums(u)[n] = Sums(s)[n] + Sums(t)[n]}
<1>1. N \in Nat /\ N = Len(s) /\ N = Len(t)
      /\ \A n \in 1 .. N : s[n] \in Nat /\ t[n] \in Nat
  OBVIOUS
<1>0. AddsUp(Sums(s), s) /\ AddsUp(Sums(t), t) /\ AddsUp(Sums(u), u)
  BY SumsRounds
<1>2. 0 \in G
  BY <1>0, <1>1 DEF AddsUp
<1>3. ASSUME NEW n \in 1 .. N, n - 1 \in G PROVE n \in G
  <2>1. /\ Sums(u)[n] = Sums(u)[n - 1] + u[n]
        /\ Sums(s)[n] = Sums(s)[n - 1] + s[n]
        /\ Sums(t)[n] = Sums(t)[n - 1] + t[n]
        /\ Sums(s)[n - 1] \in Nat /\ Sums(t)[n - 1] \in Nat
    BY <1>0, <1>1 DEF AddsUp
  <2>2. Sums(u)[n - 1] = Sums(s)[n - 1] + Sums(t)[n - 1]
    BY <1>3
  <2>3. u[n] = s[n] + t[n] /\ s[n] \in Nat /\ t[n] \in Nat
    BY <1>1
  <2> HIDE DEF N
  <2>4. n \in G <=> Sums(u)[n] = Sums(s)[n] + Sums(t)[n]
    OBVIOUS
  <2> HIDE DEF N, G
  <2>5. \A b, c, y, z \in Nat : (b + c) + (y + z) = (b + y) + (c + z)
    OBVIOUS
  <2>6. (Sums(s)[n - 1] + Sums(t)[n - 1]) + (s[n] + t[n])
          = (Sums(s)[n - 1] + s[n]) + (Sums(t)[n - 1] + t[n])
    BY <2>1, <2>3, <2>5, Zenon
  <2>7. Sums(u)[n] = Sums(s)[n] + Sums(t)[n]
    BY <2>1, <2>2, <2>3, <2>6, Zenon
  <2> QED
    BY <2>4, <2>7
<1> HIDE DEF G
<1>4. \A n \in 0 .. N : n \in G
  BY <1>1, <1>2, <1>3, EachRound, Zenon
<1>5. N \in G
  BY <1>1, <1>4
<1> QED
  BY <1>1, <1>5 DEF G, Total

-----------------------------------------------------------------------------
(* Passes. *)

LEMMA InstructionFacts ==
  ASSUME NEW ix \in Instruction
  PROVE  /\ ix.op \in RawOps \cup PumpOps \cup LaunchLabOps \cup TipOps
         /\ ix.mint \in Key /\ ix.user \in Key /\ ix.amount \in 0 .. U64Max
         /\ ix.amount \in Nat
         /\ ix.shape \in {"full", "lean", "bad"}
BY TransactionAssumption

IsAccepted(ixs, i, accepted) == <<ixs[i].op, ixs[i].shape>> \in accepted

\* The pass has picked up the accepted ones of the first n instructions: the k-th
\* is that with index g[k].
Embeds(g, s, ixs, accepted, n) ==
  /\ g \in [1 .. Len(s) -> 1 .. n]
  /\ \A k \in 1 .. Len(s) : s[k] = ixs[g[k]] /\ IsAccepted(ixs, g[k], accepted)
  /\ \A k, l \in 1 .. Len(s) : k < l => g[k] < g[l]
  /\ \A i \in 1 .. n : IsAccepted(ixs, i, accepted) => \E k \in 1 .. Len(s) : g[k] = i

LEMMA EmbedsOneMore ==
  ASSUME NEW ixs \in Seq(Instruction), NEW accepted, NEW n \in 1 .. Len(ixs),
         NEW s \in Seq(Instruction), NEW g, Embeds(g, s, ixs, accepted, n - 1),
         IsAccepted(ixs, n, accepted)
  PROVE  Embeds([k \in 1 .. (Len(s) + 1) |-> IF k <= Len(s) THEN g[k] ELSE n],
                Append(s, ixs[n]), ixs, accepted, n)
<1> DEFINE t == Append(s, ixs[n])
           L == Len(s)
           h == [k \in 1 .. (L + 1) |-> IF k <= L THEN g[k] ELSE n]
<1>1. /\ Len(t) = L + 1 /\ t[L + 1] = ixs[n] /\ L \in Nat
      /\ \A k \in 1 .. L : t[k] = s[k]
      /\ n \in Nat /\ n > 0
  OBVIOUS
<1> HIDE DEF t, L
<1>2. /\ \A k \in 1 .. L : g[k] \in 1 .. (n - 1) /\ g[k] < n /\ g[k] \in 1 .. n
      /\ \A k \in 1 .. L : s[k] = ixs[g[k]] /\ IsAccepted(ixs, g[k], accepted)
      /\ \A k, l \in 1 .. L : k < l => g[k] < g[l]
      /\ \A i \in 1 .. (n - 1) : IsAccepted(ixs, i, accepted) => \E k \in 1 .. L : g[k] = i
  <2>1. /\ g \in [1 .. L -> 1 .. (n - 1)]
        /\ \A k \in 1 .. L : s[k] = ixs[g[k]] /\ IsAccepted(ixs, g[k], accepted)
        /\ \A k, l \in 1 .. L : k < l => g[k] < g[l]
        /\ \A i \in 1 .. (n - 1) : IsAccepted(ixs, i, accepted) => \E k \in 1 .. L : g[k] = i
    BY Zenon DEF Embeds, L
  <2>2. \A k \in 1 .. L : g[k] \in 1 .. (n - 1)
    BY <2>1
  <2>3. \A m \in 1 .. (n - 1) : m < n /\ m \in 1 .. n
    BY <1>1
  <2> QED
    BY <2>1, <2>2, <2>3, Zenon
<1>3. /\ \A k \in 1 .. L : h[k] = g[k] /\ k \in 1 .. (L + 1)
      /\ h[L + 1] = n /\ L + 1 \in 1 .. (L + 1)
      /\ \A k \in 1 .. (L + 1) : k \in 1 .. L \/ k = L + 1
      /\ \A i \in 1 .. n : i \in 1 .. (n - 1) \/ i = n
  BY <1>1
<1>4. h \in [1 .. (L + 1) -> 1 .. n]
  BY <1>1, <1>2
<1> HIDE DEF h
<1>5. ASSUME NEW k \in 1 .. (L + 1)
      PROVE  t[k] = ixs[h[k]] /\ IsAccepted(ixs, h[k], accepted)
  BY <1>1, <1>2, <1>3
<1>6. ASSUME NEW k \in 1 .. (L + 1), NEW l \in 1 .. (L + 1), k < l PROVE h[k] < h[l]
  <2>1. k \in 1 .. L
    BY <1>1, <1>6
  <2> QED
    BY <1>2, <1>3, <1>6, <2>1
<1>7. ASSUME NEW i \in 1 .. n, IsAccepted(ixs, i, accepted)
      PROVE  \E k \in 1 .. (L + 1) : h[k] = i
  BY <1>2, <1>3, <1>7
<1> QED
  BY <1>1, <1>4, <1>5, <1>6, <1>7, Zenon DEF Embeds, t, h, L

LEMMA PassEmbeds ==
  ASSUME NEW ixs \in Seq(Instruction), NEW accepted
  PROVE  /\ Pass(ixs, accepted) \in Seq(Instruction)
         /\ \E g : Embeds(g, Pass(ixs, accepted), ixs, accepted, Len(ixs))
<1> DEFINE N == Len(ixs)
           f == Picked(ixs, accepted)
           G == {n \in 0 .. N : \E g : Embeds(g, f[n], ixs, accepted, n)}
<1>1. PicksUp(f, ixs, accepted) /\ N \in Nat
  BY PickedRounds
<1> HIDE DEF f
<1>2. 0 \in G
  <2>1. f[0] = << >> /\ 0 \in 0 .. N
    BY <1>1 DEF PicksUp
  <2>2. Embeds([k \in 1 .. 0 |-> 0], << >>, ixs, accepted, 0)
    BY DEF Embeds
  <2> QED
    BY <2>1, <2>2
<1>3. ASSUME NEW n \in 1 .. N, n - 1 \in G PROVE n \in G
  <2>1. PICK g : Embeds(g, f[n - 1], ixs, accepted, n - 1)
    BY <1>3
  <2>2. f[n - 1] \in Seq(Instruction) /\ n \in 0 .. N
    BY <1>1 DEF PicksUp
  <2>3. CASE IsAccepted(ixs, n, accepted)
    <3>1. f[n] = Append(f[n - 1], ixs[n])
      BY <1>1, <2>3 DEF PicksUp, IsAccepted
    <3>2. \E h : Embeds(h, Append(f[n - 1], ixs[n]), ixs, accepted, n)
      BY <2>1, <2>2, <2>3, EmbedsOneMore, Zenon
    <3> QED
      BY <2>2, <3>1, <3>2
  <2>4. CASE ~ IsAccepted(ixs, n, accepted)
    <3>1. f[n] = f[n - 1]
      BY <1>1, <2>4 DEF PicksUp, IsAccepted
    <3>2. Embeds(g, f[n], ixs, accepted, n)
      <4>1. \A i \in 1 .. n : i \in 1 .. (n - 1) \/ i = n
        OBVIOUS
      <4>2. g \in [1 .. Len(f[n]) -> 1 .. n]
        BY <2>1, <3>1 DEF Embeds
      <4> QED
        BY <2>1, <2>4, <3>1, <4>1, <4>2 DEF Embeds
    <3> QED
      BY <2>2, <3>2
  <2> QED
    BY <2>3, <2>4
<1> HIDE DEF G
<1>4. \A n \in 0 .. N : n \in G
  BY <1>1, <1>2, <1>3, EachRound, Zenon
<1>5. N \in 0 .. N
  BY <1>1
<1>6. \E g : Embeds(g, f[N], ixs, accepted, N)
  BY <1>4, <1>5 DEF G
<1>7. f[N] \in Seq(Instruction)
  BY <1>1, <1>5 DEF PicksUp
<1> QED
  BY <1>6, <1>7 DEF Pass, f, N

\* A pass depends only on what it accepts of these instructions.
LEMMA PassesAlike ==
  ASSUME NEW ixs \in Seq(Instruction), NEW A, NEW B,
         \A i \in 1 .. Len(ixs) : IsAccepted(ixs, i, A) <=> IsAccepted(ixs, i, B)
  PROVE  Pass(ixs, A) = Pass(ixs, B)
<1> DEFINE N == Len(ixs)
           G == {n \in 0 .. N : Picked(ixs, A)[n] = Picked(ixs, B)[n]}
<1>1. PicksUp(Picked(ixs, A), ixs, A) /\ PicksUp(Picked(ixs, B), ixs, B) /\ N \in Nat
  BY PickedRounds
<1>2. 0 \in G
  BY <1>1 DEF PicksUp
<1>3. ASSUME NEW n \in 1 .. N, n - 1 \in G PROVE n \in G
  <2>1. Picked(ixs, A)[n - 1] = Picked(ixs, B)[n - 1] /\ n \in 0 .. N
    BY <1>3
  <2>2. CASE IsAccepted(ixs, n, A)
    BY <1>1, <2>1, <2>2 DEF PicksUp, IsAccepted
  <2>3. CASE ~ IsAccepted(ixs, n, A)
    BY <1>1, <2>1, <2>3 DEF PicksUp, IsAccepted
  <2> QED
    BY <2>2, <2>3
<1> HIDE DEF G
<1>4. \A n \in 0 .. N : n \in G
  BY <1>1, <1>2, <1>3, EachRound, Zenon
<1> QED
  BY <1>1, <1>4 DEF G, Pass

\* What the instructions with these operations are worth.
Weight(ix, ops) == IF ix.op \in ops THEN ix.amount ELSE 0
Weights(s, ops) == [k \in 1 .. Len(s) |-> Weight(s[k], ops)]
Kept(ixs, accepted, ops) ==
  [i \in 1 .. Len(ixs) |-> IF IsAccepted(ixs, i, accepted) THEN Weight(ixs[i], ops) ELSE 0]

LEMMA WeightTypes ==
  ASSUME NEW s \in Seq(Instruction), NEW ops, NEW accepted
  PROVE  /\ Weights(s, ops) \in Seq(Nat) /\ Len(Weights(s, ops)) = Len(s)
         /\ Kept(s, accepted, ops) \in Seq(Nat) /\ Len(Kept(s, accepted, ops)) = Len(s)
<1>1. ASSUME NEW k \in 1 .. Len(s)
      PROVE  Weight(s[k], ops) \in Nat
  <2>1. s[k] \in Instruction
    OBVIOUS
  <2> QED
    BY <2>1, InstructionFacts DEF Weight
<1>2. Len(s) \in Nat
  OBVIOUS
<1> QED
  BY <1>1, <1>2 DEF Weights, Kept

LEMMA WeightsOfMore ==
  ASSUME NEW s \in Seq(Instruction), NEW ix \in Instruction, NEW ops
  PROVE  Weights(Append(s, ix), ops) = Append(Weights(s, ops), Weight(ix, ops))
<1> DEFINE t == Append(s, ix)
           w == Weights(s, ops)
           x == Weight(ix, ops)
<1>1. /\ Len(t) = Len(s) + 1 /\ t[Len(s) + 1] = ix /\ Len(s) \in Nat
      /\ \A k \in 1 .. Len(s) : t[k] = s[k]
  OBVIOUS
<1>2. w \in Seq(Nat) /\ Len(w) = Len(s) /\ \A k \in 1 .. Len(s) : w[k] = Weight(s[k], ops)
  BY WeightTypes DEF Weights
<1>3. x \in Nat
  BY InstructionFacts DEF Weight
<1>6. \A k \in 1 .. Len(s) : Weight(t[k], ops) = w[k]
  BY <1>1, <1>2
<1>5. Weight(t[Len(s) + 1], ops) = x
  BY <1>1
<1> HIDE DEF w, x, t
<1>4. /\ Append(w, x) \in Seq(Nat) /\ Len(Append(w, x)) = Len(s) + 1
      /\ \A k \in 1 .. Len(s) : Append(w, x)[k] = w[k]
      /\ Append(w, x)[Len(s) + 1] = x
  BY <1>1, <1>2, <1>3
<1>7. Weights(t, ops) = [k \in 1 .. (Len(s) + 1) |-> Weight(t[k], ops)]
  BY <1>1 DEF Weights
<1>9. \A k \in 1 .. (Len(s) + 1) : Weights(t, ops)[k] = Append(w, x)[k]
  <2>1. \A k \in 1 .. (Len(s) + 1) : k \in 1 .. Len(s) \/ k = Len(s) + 1
    BY <1>1
  <2> QED
    BY <1>4, <1>5, <1>6, <1>7, <2>1
<1>8. Weights(t, ops) = Append(w, x)
  <2>1. \A q \in Seq(Nat) : q = [k \in 1 .. Len(q) |-> q[k]]
    OBVIOUS
  <2>2. Append(w, x) = [k \in 1 .. Len(Append(w, x)) |-> Append(w, x)[k]]
    BY <1>4, <2>1, Zenon
  <2> QED
    BY <1>4, <1>7, <1>9, <2>2
<1> QED
  BY <1>8 DEF t, w, x

\* What a pass picks up is worth what it accepts.
LEMMA PassWeighs ==
  ASSUME NEW ixs \in Seq(Instruction), NEW accepted, NEW ops
  PROVE  Total(Weights(Pass(ixs, accepted), ops)) = Total(Kept(ixs, accepted, ops))
<1> DEFINE N == Len(ixs)
           f == Picked(ixs, accepted)
           w == Kept(ixs, accepted, ops)
           G == {n \in 0 .. N : Total(Weights(f[n], ops)) = Sums(w)[n]}
<1>1. PicksUp(f, ixs, accepted) /\ N \in Nat
  BY PickedRounds
<1>2. w \in Seq(Nat) /\ Len(w) = N
  BY WeightTypes
<1>3. AddsUp(Sums(w), w)
  BY <1>2, SumsRounds
<1>4. \A n \in 1 .. N :
        /\ IsAccepted(ixs, n, accepted) => w[n] = Weight(ixs[n], ops)
        /\ ~ IsAccepted(ixs, n, accepted) => w[n] = 0
  BY DEF Kept
<1>5. \A n \in 1 .. N : ixs[n] \in Instruction /\ n - 1 \in 0 .. N /\ n \in 0 .. N
  OBVIOUS
<1> HIDE DEF f, w
<1>6. 0 \in G
  <2>1. f[0] = << >> /\ << >> \in Seq(Instruction) /\ 0 \in 0 .. N
    BY <1>1 DEF PicksUp
  <2>2. Weights(<< >>, ops) \in Seq(Nat) /\ Len(Weights(<< >>, ops)) = 0
    <3>1. Len(<< >>) = 0
      OBVIOUS
    <3> QED
      BY <2>1, <3>1, WeightTypes
  <2>3. Total(Weights(<< >>, ops)) = 0
    BY <2>2, TotalOfNone
  <2> QED
    BY <1>3, <2>1, <2>3 DEF AddsUp
<1>7. ASSUME NEW n \in 1 .. N, n - 1 \in G PROVE n \in G
  <2>1. Total(Weights(f[n - 1], ops)) = Sums(w)[n - 1]
    BY <1>7
  <2>2. f[n - 1] \in Seq(Instruction) /\ Sums(w)[n - 1] \in Nat
    BY <1>1, <1>2, <1>3, <1>5 DEF PicksUp, AddsUp
  <2>3. Sums(w)[n] = Sums(w)[n - 1] + w[n]
    BY <1>2, <1>3 DEF AddsUp
  <2>4. CASE IsAccepted(ixs, n, accepted)
    <3>1. f[n] = Append(f[n - 1], ixs[n])
      BY <1>1, <2>4 DEF PicksUp, IsAccepted
    <3>2. Weights(f[n], ops) = Append(Weights(f[n - 1], ops), Weight(ixs[n], ops))
      BY <1>5, <2>2, <3>1, WeightsOfMore
    <3>3. Weight(ixs[n], ops) \in Nat
      BY <1>5, InstructionFacts DEF Weight
    <3>4. Weights(f[n - 1], ops) \in Seq(Nat)
      BY <2>2, WeightTypes
    <3>5. Total(Weights(f[n], ops)) = Total(Weights(f[n - 1], ops)) + Weight(ixs[n], ops)
      BY <3>2, <3>3, <3>4, TotalOfMore
    <3> QED
      BY <1>4, <1>5, <2>1, <2>3, <2>4, <3>5
  <2>5. CASE ~ IsAccepted(ixs, n, accepted)
    <3>1. f[n] = f[n - 1]
      BY <1>1, <2>5 DEF PicksUp, IsAccepted
    <3>2. Sums(w)[n] = Sums(w)[n - 1]
      BY <1>4, <2>2, <2>3, <2>5
    <3> QED
      BY <1>5, <2>1, <3>1, <3>2
  <2> QED
    BY <2>4, <2>5
<1> HIDE DEF G
<1>8. \A n \in 0 .. N : n \in G
  BY <1>1, <1>6, <1>7, EachRound, Zenon
<1>9. N \in G
  BY <1>1, <1>8
<1> QED
  BY <1>2, <1>9 DEF G, Pass, Total, f, w, N

-----------------------------------------------------------------------------
(* What the loops are run over. *)

Dex == [kind : {"PumpFunTrade", "CreateToken", "UserTrade", "BotTrade",
                "BonkCreateToken", "BonkTrade"},
        mint : Key, user : Key, is_buy : BOOLEAN, amount : 0 .. U64Max]

IxOps == RawOps \cup PumpOps \cup LaunchLabOps

AcceptedBy(p, ops) == IF p = "parser" THEN Accepted(ops) ELSE AcceptedShreder(ops)

\* What a parser accepts, besides the operation.
Fits(p, ix) == ix.shape = "full" \/ (p # "parser" /\ ix.op = "buy" /\ ix.shape = "lean")

Sources(p, ixs) ==
  Pass(ixs, AcceptedBy(p, RawOps)) \o Pass(ixs, AcceptedBy(p, PumpOps))
    \o Pass(ixs, AcceptedBy(p, LaunchLabOps))

LEMMA AcceptedFits ==
  ASSUME NEW p, NEW ixs, NEW i, NEW ops
  PROVE  IsAccepted(ixs, i, AcceptedBy(p, ops)) <=> ixs[i].op \in ops /\ Fits(p, ixs[i])
BY DEF IsAccepted, AcceptedBy, Accepted, AcceptedShreder, Fits

LEMMA DexTypes ==
  ASSUME NEW ix \in Instruction, ix.op \in IxOps, NEW bot
  PROVE  DexInstruction(ix, bot) \in Dex
<1>1. CASE ix.op \in RawOps
  <2>1. 0 \in 0 .. U64Max
    BY TransactionAssumption
  <2> QED
    BY <1>1, <2>1, InstructionFacts DEF RawOps, DexInstruction, Dex
<1>2. CASE ix.op = "create"
  BY <1>2, InstructionFacts DEF RawOps, DexInstruction, Dex
<1>3. CASE ix.op \in {"buy", "sell"}
  BY <1>3, InstructionFacts DEF RawOps, DexInstruction, Dex
<1>4. CASE ix.op = "initialize"
  BY <1>4, InstructionFacts DEF RawOps, DexInstruction, Dex
<1>5. CASE ix.op = "launchlab_trade"
  BY <1>5, InstructionFacts DEF RawOps, DexInstruction, Dex
<1> QED
  BY <1>1, <1>2, <1>3, <1>4, <1>5 DEF IxOps, PumpOps, LaunchLabOps

\* Each kind stands for its operations.
LEMMA DexKinds ==
  ASSUME NEW ix \in Instruction, ix.op \in IxOps, NEW bot
  PROVE  LET d == DexInstruction(ix, bot)
         IN /\ d.mint = ix.mint /\ d.user = ix.user
            /\ d.kind = "CreateToken" <=> ix.op = "create"
            /\ d.kind \in {"BonkCreateToken", "BonkTrade"} <=> ix.op \in LaunchLabOps
<1>1. CASE ix.op \in RawOps
  BY <1>1, InstructionFacts DEF RawOps, DexInstruction, LaunchLabOps
<1>2. CASE ix.op = "create"
  BY <1>2, InstructionFacts DEF RawOps, DexInstruction, LaunchLabOps
<1>3. CASE ix.op \in {"buy", "sell"}
  BY <1>3, InstructionFacts DEF RawOps, DexInstruction, LaunchLabOps
<1>4. CASE ix.op = "initialize"
  BY <1>4, InstructionFacts DEF RawOps, DexInstruction, LaunchLabOps
<1>5. CASE ix.op = "launchlab_trade"
  BY <1>5, InstructionFacts DEF RawOps, DexInstruction, LaunchLabOps
<1> QED
  BY <1>1, <1>2, <1>3, <1>4, <1>5 DEF IxOps, PumpOps, LaunchLabOps

TradeKinds == {"PumpFunTrade", "UserTrade", "BotTrade"}
TradeOps == {"buy", "sell"}

\* What a trade is worth.
Value(d) == IF d.kind \in TradeKinds THEN d.amount ELSE 0

LEMMA DexValue ==
  ASSUME NEW ix \in Instruction, ix.op \in IxOps, NEW bot
  PROVE  Value(DexInstruction(ix, bot)) = IF ix.op \in TradeOps THEN ix.amount ELSE 0
<1>1. CASE ix.op \in RawOps
  BY <1>1 DEF RawOps, DexInstruction, TradeKinds, TradeOps, Value
<1>2. CASE ix.op = "create"
  BY <1>2 DEF RawOps, DexInstruction, TradeKinds, TradeOps, Value
<1>3. CASE ix.op \in {"buy", "sell"}
  BY <1>3 DEF RawOps, DexInstruction, TradeKinds, TradeOps, Value
<1>4. CASE ix.op = "initialize"
  BY <1>4 DEF RawOps, DexInstruction, TradeKinds, TradeOps, Value
<1>5. CASE ix.op = "launchlab_trade"
  BY <1>5 DEF RawOps, DexInstruction, TradeKinds, TradeOps, Value
<1> QED
  BY <1>1, <1>2, <1>3, <1>4, <1>5 DEF IxOps, PumpOps, LaunchLabOps

-----------------------------------------------------------------------------
(* What the loops collect. *)

Opt(S) == {<< >>} \cup {<<x>> : x \in S}

TradeEvents == [event : {"NewUserTrade", "NewBotTrade", "PumpFunTrade"},
                token : {<< >>}, trade : {<<d>> : d \in Dex}]

Buys == {d \in Dex : d.kind = "UserTrade" /\ d.is_buy}

Acc == [token : Opt(Dex), dev : Opt(Buys), bonk : Opt(Dex), bonkTrade : Opt(Dex),
        out : Seq(TradeEvents)]

StepOf(p, acc, d) == IF p = "parser" THEN Step(acc, d) ELSE StepShreder(acc, d)

Dev(acc) == IF acc.dev = << >> THEN 0 ELSE acc.dev[1].amount

Merges(p, acc, d) ==
  /\ d.kind = "UserTrade" /\ ByTokenCreator(acc, d)
  /\ p = "parser" => acc.dev = << >> \/ SameTrader(acc.dev[1], d)

LEMMA OptFacts ==
  ASSUME NEW S, NEW o \in Opt(S), o # << >>
  PROVE  o[1] \in S /\ o = <<o[1]>>
BY DEF Opt

LEMMA OptOfOne ==
  ASSUME NEW S, NEW x \in S
  PROVE  <<x>> \in Opt(S) /\ <<x>> # << >> /\ <<x>>[1] = x
BY DEF Opt

LEMMA SaturateTypes ==
  ASSUME NEW n \in Nat
  PROVE  Saturate(n) \in 0 .. U64Max /\ Saturate(n) <= n /\ (n <= U64Max => Saturate(n) = n)
BY TransactionAssumption DEF Saturate

LEMMA TradeEventTypes ==
  ASSUME NEW d \in Dex, d.kind \in TradeKinds
  PROVE  TradeEvent(d) \in TradeEvents /\ TradeEvent(d).trade = <<d>>
<1>1. CASE d.kind = "UserTrade"
  BY <1>1 DEF TradeEvent, TradeEvents
<1>2. CASE d.kind = "BotTrade"
  BY <1>2 DEF TradeEvent, TradeEvents
<1>3. CASE d.kind = "PumpFunTrade"
  BY <1>3 DEF TradeEvent, TradeEvents
<1> QED
  BY <1>1, <1>2, <1>3 DEF TradeKinds

\* The developer's buys after a step that merges one more.
MergesInto(acc, after, d) ==
  /\ after = [acc EXCEPT !.dev = after.dev]
  /\ after.dev \in Opt(Buys) /\ after.dev # << >>
  /\ after.dev[1].mint = d.mint /\ after.dev[1].user = d.user
  /\ after.dev[1].amount = Saturate(Dev(acc) + d.amount)

LEMMA StepMerges ==
  ASSUME NEW p, NEW acc \in Acc, NEW d \in Dex, Merges(p, acc, d)
  PROVE  MergesInto(acc, StepOf(p, acc, d), d)
<1> DEFINE after == StepOf(p, acc, d)
<1>1. /\ d.amount \in 0 .. U64Max /\ Saturate(d.amount) = d.amount /\ d.amount \in Nat
      /\ d.is_buy /\ d.kind = "UserTrade"
  BY SaturateTypes, TransactionAssumption DEF Dex, Merges, ByTokenCreator
<1>2. CASE p = "parser"
  <2>1. after = [acc EXCEPT !.dev = merge_trade(acc.dev, d)]
    BY <1>2 DEF StepOf, Step, Merges, Acc
  <2>2. after.dev = merge_trade(acc.dev, d)
    BY <2>1 DEF Acc
  <2>3. CASE acc.dev = << >>
    <3>1. after.dev = <<d>> /\ Dev(acc) = 0
      BY <2>2, <2>3 DEF merge_trade, Dev
    <3>2. d \in Buys
      BY <1>1 DEF Buys
    <3> QED
      BY <1>1, <2>1, <3>1, <3>2, OptOfOne DEF MergesInto
  <2>4. CASE acc.dev # << >>
    <3> DEFINE x == [acc.dev[1] EXCEPT !.amount = Saturate(@ + d.amount)]
    <3>1. acc.dev[1] \in Buys /\ acc.dev[1].amount \in Nat
      <4>1. acc.dev[1] \in Buys
        BY <2>4, OptFacts DEF Acc
      <4> QED
        BY <4>1, TransactionAssumption DEF Buys, Dex
    <3>2. Saturate(acc.dev[1].amount + d.amount) \in 0 .. U64Max
      BY <1>1, <3>1, SaturateTypes
    <3>3. /\ x \in Buys
          /\ x.mint = d.mint /\ x.user = d.user
          /\ x.amount = Saturate(acc.dev[1].amount + d.amount)
      BY <1>1, <1>2, <2>4, <3>1, <3>2 DEF Buys, Dex, Merges, SameTrader
    <3>4. after.dev = <<x>> /\ Dev(acc) = acc.dev[1].amount
      BY <2>2, <2>4 DEF merge_trade, Dev
    <3> HIDE DEF x
    <3> QED
      BY <2>1, <3>3, <3>4, OptOfOne DEF MergesInto
  <2> QED
    BY <2>3, <2>4
<1>3. CASE p # "parser"
  <2> DEFINE x == [d EXCEPT !.amount = Saturate(@ + Dev(acc))]
  <2>1. after = [acc EXCEPT !.dev = <<x>>]
    BY <1>3 DEF StepOf, StepShreder, Merges, Dev
  <2>2. Dev(acc) \in Nat
    <3>1. CASE acc.dev = << >>
      BY <3>1 DEF Dev
    <3>2. CASE acc.dev # << >>
      <4>1. acc.dev[1] \in Buys
        BY <3>2, OptFacts DEF Acc
      <4> QED
        BY <3>2, <4>1, TransactionAssumption DEF Buys, Dex, Dev
    <3> QED
      BY <3>1, <3>2
  <2>3. d.amount + Dev(acc) \in Nat /\ d.amount + Dev(acc) = Dev(acc) + d.amount
    BY <1>1, <2>2
  <2>4. Saturate(d.amount + Dev(acc)) \in 0 .. U64Max
    BY <2>3, SaturateTypes
  <2>5. /\ x \in Buys
        /\ x.mint = d.mint /\ x.user = d.user
        /\ x.amount = Saturate(Dev(acc) + d.amount)
    BY <1>1, <2>3, <2>4 DEF Buys, Dex
  <2> HIDE DEF x
  <2>6. after.dev = <<x>>
    BY <2>1 DEF Acc
  <2> QED
    BY <2>1, <2>5, <2>6, OptOfOne DEF MergesInto
<1> QED
  BY <1>2, <1>3

LEMMA StepCollects ==
  ASSUME NEW p, NEW acc, NEW d, ~ Merges(p, acc, d)
  PROVE  StepOf(p, acc, d) = Collect(acc, d)
BY DEF StepOf, Step, StepShreder, Merges

\* What a step does to each part.
StepFacts(p, acc, after, d) ==
  /\ after.token = IF d.kind = "CreateToken" THEN <<d>> ELSE acc.token
  /\ after.bonk = IF d.kind = "BonkCreateToken" THEN <<d>> ELSE acc.bonk
  /\ after.bonkTrade = IF d.kind = "BonkTrade" THEN <<d>> ELSE acc.bonkTrade
  /\ Merges(p, acc, d) =>
       /\ after.out = acc.out /\ after.dev # << >>
       /\ after.dev[1].mint = d.mint /\ after.dev[1].user = d.user
       /\ after.dev[1].amount = Saturate(Dev(acc) + d.amount)
  /\ ~ Merges(p, acc, d) =>
       /\ after.dev = acc.dev
       /\ after.out = IF d.kind \in TradeKinds THEN Append(acc.out, TradeEvent(d))
                                               ELSE acc.out

LEMMA StepDoes ==
  ASSUME NEW p, NEW acc \in Acc, NEW d \in Dex
  PROVE  StepOf(p, acc, d) \in Acc /\ StepFacts(p, acc, StepOf(p, acc, d), d)
<1> DEFINE after == StepOf(p, acc, d)
<1>0. d.kind \in {"PumpFunTrade", "CreateToken", "UserTrade", "BotTrade",
                  "BonkCreateToken", "BonkTrade"}
  BY DEF Dex
<1>1. CASE Merges(p, acc, d)
  <2>1. d.kind = "UserTrade"
    BY <1>1 DEF Merges
  <2>2. MergesInto(acc, after, d)
    BY <1>1, StepMerges
  <2> HIDE DEF after
  <2>3. after \in Acc
    BY <2>2 DEF MergesInto, Acc
  <2>4. /\ after.token = acc.token /\ after.bonk = acc.bonk
        /\ after.bonkTrade = acc.bonkTrade /\ after.out = acc.out
    BY <2>2 DEF MergesInto, Acc
  <2>5. StepFacts(p, acc, after, d)
    BY <1>1, <2>1, <2>2, <2>4 DEF StepFacts, MergesInto
  <2> QED
    BY <2>3, <2>5 DEF after
<1>2. CASE ~ Merges(p, acc, d)
  <2>0. after = Collect(acc, d)
    BY <1>2, StepCollects
  <2>6. <<d>> \in Opt(Dex)
    BY OptOfOne
  <2> HIDE DEF after
  <2>1. CASE d.kind = "CreateToken"
    <3>1. after = [acc EXCEPT !.token = <<d>>]
      BY <2>0, <2>1 DEF Collect
    <3> QED
      BY <1>2, <2>1, <2>6, <3>1 DEF StepFacts, Acc, TradeKinds, after
  <2>2. CASE d.kind = "BonkCreateToken"
    <3>1. after = [acc EXCEPT !.bonk = <<d>>]
      BY <2>0, <2>2 DEF Collect
    <3> QED
      BY <1>2, <2>2, <2>6, <3>1 DEF StepFacts, Acc, TradeKinds, after
  <2>3. CASE d.kind = "BonkTrade"
    <3>1. after = [acc EXCEPT !.bonkTrade = <<d>>]
      BY <2>0, <2>3 DEF Collect
    <3> QED
      BY <1>2, <2>3, <2>6, <3>1 DEF StepFacts, Acc, TradeKinds, after
  <2>4. CASE d.kind \in TradeKinds
    <3>1. after = [acc EXCEPT !.out = Append(acc.out, TradeEvent(d))]
      BY <2>0, <2>4 DEF Collect, Emit, TradeKinds, Acc
    <3>2. Append(acc.out, TradeEvent(d)) \in Seq(TradeEvents)
      <4>1. acc.out \in Seq(TradeEvents)
        BY DEF Acc
      <4> QED
        BY <2>4, <4>1, TradeEventTypes
    <3> HIDE DEF TradeEvents
    <3>3. after \in Acc
      BY <3>1, <3>2 DEF Acc
    <3>4. /\ after.token = acc.token /\ after.bonk = acc.bonk /\ after.dev = acc.dev
          /\ after.bonkTrade = acc.bonkTrade /\ after.out = Append(acc.out, TradeEvent(d))
      BY <3>1 DEF Acc
    <3> QED
      BY <1>2, <2>4, <3>3, <3>4 DEF StepFacts, TradeKinds, after
  <2> QED
    BY <1>0, <2>1, <2>2, <2>3, <2>4 DEF TradeKinds
<1> QED
  BY <1>1, <1>2

\* The rounds of the loop of a processor.
Collects(p, f, list) ==
  /\ f[0] = Nothing
  /\ \A n \in 1 .. Len(list) : f[n] = StepOf(p, f[n - 1], list[n])
  /\ \A n \in 0 .. Len(list) : f[n] \in Acc

LEMMA CollectedRounds ==
  ASSUME NEW p, NEW list \in Seq(Dex)
  PROVE  Collects(p, Collected(p, list), list)
<1> DEFINE N == Len(list)
           X == Acc
           first == Nothing
           F == [n \in 1 .. N |-> [before \in X |-> StepOf(p, before, list[n])]]
           Body(f) == [n \in 0 .. N |->
                         IF n = 0 THEN Nothing ELSE StepOf(p, f[n - 1], list[n])]
           c == Collected(p, list)
<1>0. \A n \in 1 .. N : list[n] \in Dex
  OBVIOUS
<1>1. N \in Nat /\ first \in X /\ F \in [1 .. N -> [X -> X]]
  <2>1. Nothing \in Acc
    BY DEF Nothing, Acc, Opt
  <2>2. \A n \in 1 .. N, before \in Acc : StepOf(p, before, list[n]) \in Acc
    BY <1>0, StepDoes
  <2> HIDE DEF Acc
  <2> QED
    BY <2>1, <2>2
<1>2. \A n \in 1 .. N, x \in X : F[n][x] = StepOf(p, x, list[n])
  OBVIOUS
<1>3. c = CHOOSE f : f = Body(f)
  BY DEF Collected, StepOf
<1> HIDE DEF X, F, N, first, c
<1>4. PICK f \in [0 .. N -> X] :
        f[0] = first /\ \A n \in 1 .. N : f[n] = F[n][f[n - 1]]
  <2>1. Loops(N, X, first, F) # {}
    BY <1>1, LoopExists, Zenon
  <2> QED
    BY <2>1 DEF Loops
<1>5. f = Body(f)
  <2>1. ASSUME NEW n \in 0 .. N PROVE f[n] = Body(f)[n]
    <3>1. CASE n = 0
      BY <1>1, <1>4, <3>1 DEF first
    <3>2. CASE n \in 1 .. N
      <4>1. f[n - 1] \in X
        BY <1>1, <1>4, <3>2
      <4> QED
        BY <1>1, <1>2, <1>4, <3>2, <4>1
    <3> QED
      BY <1>1, <3>1, <3>2
  <2> QED
    BY <1>4, <2>1
<1>6. c = Body(c)
  BY <1>3, <1>5
<1>7. c[0] = Nothing /\ \A n \in 1 .. N : c[n] = StepOf(p, c[n - 1], list[n])
  BY <1>1, <1>6
<1> DEFINE G == {n \in 0 .. N : c[n] \in Acc}
<1>8. 0 \in G
  BY <1>1, <1>7 DEF first, X
<1>9. ASSUME NEW n \in 1 .. N, n - 1 \in G PROVE n \in G
  <2>1. c[n - 1] \in Acc /\ list[n] \in Dex /\ n \in 0 .. N
    BY <1>0, <1>9 DEF N
  <2> QED
    BY <1>7, <2>1, StepDoes
<1> HIDE DEF G
<1>10. \A n \in 0 .. N : n \in G
  BY <1>1, <1>8, <1>9, EachRound, Zenon
<1> QED
  BY <1>7, <1>10 DEF N, G, c, Collects

-----------------------------------------------------------------------------
(* The invariants of the loops. *)

\* After n instructions the token is that of the last create instruction so far,
\* and only a loop that has seen one has buys of a developer; of a list with one
\* create instruction, they are its creator's.
OneCreate(list) ==
  \A k, l \in 1 .. Len(list) :
    list[k].kind = "CreateToken" /\ list[l].kind = "CreateToken" => k = l

LastCreate(list, n, k) ==
  /\ k \in 1 .. n /\ list[k].kind = "CreateToken"
  /\ \A l \in 1 .. n : l > k => list[l].kind # "CreateToken"

TracksToken(list, n, acc) ==
  /\ acc.token = << >> =>
       acc.dev = << >> /\ \A k \in 1 .. n : list[k].kind # "CreateToken"
  /\ acc.token # << >> => \E k \in 1 .. n : LastCreate(list, n, k) /\ acc.token = <<list[k]>>
  /\ acc.dev # << >> /\ OneCreate(list) =>
       acc.dev[1].mint = acc.token[1].mint /\ acc.dev[1].user = acc.token[1].user

LEMMA StepTracksToken ==
  ASSUME NEW p, NEW list \in Seq(Dex), NEW n \in 1 .. Len(list), NEW acc \in Acc,
         TracksToken(list, n - 1, acc)
  PROVE  TracksToken(list, n, StepOf(p, acc, list[n]))
<1> DEFINE after == StepOf(p, acc, list[n])
           d == list[n]
<1>0. /\ d \in Dex /\ n \in Nat /\ n - 1 \in Nat /\ n \in 1 .. n
      /\ \A k \in 1 .. n : k \in 1 .. (n - 1) \/ k = n
      /\ \A k \in 1 .. (n - 1) : k \in 1 .. n /\ k < n /\ k # n /\ k \in 1 .. Len(list)
      /\ \A k \in 1 .. n : ~ (k > n)
  OBVIOUS
<1>1. after \in Acc /\ StepFacts(p, acc, after, d)
  BY <1>0, StepDoes
<1> HIDE DEF after, d
<1>2. CASE d.kind = "CreateToken"
  <2>1. after.token = <<d>> /\ after.token # << >> /\ after.token[1] = d
    BY <1>1, <1>2 DEF StepFacts
  <2>2. LastCreate(list, n, n)
    BY <1>0, <1>2 DEF LastCreate, d
  <2>3. ~ Merges(p, acc, d) /\ after.dev = acc.dev
    BY <1>1, <1>2 DEF Merges, StepFacts
  <2>4. OneCreate(list) => acc.token = << >>
    <3>1. SUFFICES ASSUME acc.token # << >>, OneCreate(list) PROVE FALSE
      OBVIOUS
    <3>2. PICK k \in 1 .. (n - 1) : LastCreate(list, n - 1, k)
      BY <3>1 DEF TracksToken
    <3> QED
      BY <1>0, <1>2, <3>1, <3>2 DEF LastCreate, OneCreate, d
  <2>5. OneCreate(list) => after.dev = << >>
    BY <2>3, <2>4 DEF TracksToken
  <2> QED
    BY <1>0, <2>1, <2>2, <2>5 DEF TracksToken, d, after
<1>3. CASE d.kind # "CreateToken"
  <2>1. after.token = acc.token
    BY <1>1, <1>3 DEF StepFacts
  <2>2. ASSUME acc.token = << >>
        PROVE  after.dev = << >> /\ \A k \in 1 .. n : list[k].kind # "CreateToken"
    <3>1. ~ Merges(p, acc, d)
      BY <2>2 DEF Merges, ByTokenCreator
    <3> QED
      BY <1>0, <1>1, <1>3, <2>2, <3>1 DEF TracksToken, StepFacts, d
  <2>3. ASSUME acc.token # << >>
        PROVE  \E k \in 1 .. n : LastCreate(list, n, k) /\ acc.token = <<list[k]>>
    <3>1. PICK k \in 1 .. (n - 1) : LastCreate(list, n - 1, k) /\ acc.token = <<list[k]>>
      BY <2>3 DEF TracksToken
    <3>2. LastCreate(list, n, k)
      BY <1>0, <1>3, <3>1 DEF LastCreate, d
    <3> QED
      BY <1>0, <3>1, <3>2
  <2>4. ASSUME after.dev # << >>, OneCreate(list)
        PROVE  /\ after.dev[1].mint = acc.token[1].mint
               /\ after.dev[1].user = acc.token[1].user
    <3>1. CASE Merges(p, acc, d)
      BY <1>1, <3>1 DEF StepFacts, Merges, ByTokenCreator
    <3>2. CASE ~ Merges(p, acc, d)
      BY <1>1, <2>4, <3>2 DEF StepFacts, TracksToken
    <3> QED
      BY <3>1, <3>2
  <2> QED
    BY <2>1, <2>2, <2>3, <2>4 DEF TracksToken, after, d
<1> QED
  BY <1>2, <1>3

LEMMA TokenTracked ==
  ASSUME NEW p, NEW list \in Seq(Dex)
  PROVE  \A n \in 0 .. Len(list) : TracksToken(list, n, Collected(p, list)[n])
<1> DEFINE N == Len(list)
           c == Collected(p, list)
           G == {n \in 0 .. N : TracksToken(list, n, c[n])}
<1>1. Collects(p, c, list) /\ N \in Nat
  BY CollectedRounds
<1> HIDE DEF c
<1>2. 0 \in G
  <2>1. c[0] = Nothing
    BY <1>1 DEF Collects
  <2>2. TracksToken(list, 0, Nothing)
    BY DEF TracksToken, Nothing
  <2> QED
    BY <1>1, <2>1, <2>2
<1>3. ASSUME NEW n \in 1 .. N, n - 1 \in G PROVE n \in G
  <2>1. /\ c[n - 1] \in Acc /\ c[n] = StepOf(p, c[n - 1], list[n]) /\ n \in 0 .. N
        /\ TracksToken(list, n - 1, c[n - 1])
    BY <1>1, <1>3 DEF Collects
  <2>2. TracksToken(list, n, StepOf(p, c[n - 1], list[n]))
    BY <2>1, StepTracksToken
  <2> QED
    BY <2>1, <2>2
<1> HIDE DEF G
<1>4. \A n \in 0 .. N : n \in G
  BY <1>1, <1>2, <1>3, EachRound, Zenon
<1> QED
  BY <1>4 DEF G, N, c

\* Without LaunchLab instructions nothing of LaunchLab is collected.
NoBonk(list) == \A k \in 1 .. Len(list) : list[k].kind \notin {"BonkCreateToken", "BonkTrade"}

LEMMA NoBonkCollected ==
  ASSUME NEW p, NEW list \in Seq(Dex), NoBonk(list)
  PROVE  \A n \in 0 .. Len(list) :
           Collected(p, list)[n].bonk = << >> /\ Collected(p, list)[n].bonkTrade = << >>
<1> DEFINE N == Len(list)
           c == Collected(p, list)
           G == {n \in 0 .. N : c[n].bonk = << >> /\ c[n].bonkTrade = << >>}
<1>1. Collects(p, c, list) /\ N \in Nat
  BY CollectedRounds
<1> HIDE DEF c
<1>2. 0 \in G
  BY <1>1 DEF Collects, Nothing
<1>3. ASSUME NEW n \in 1 .. N, n - 1 \in G PROVE n \in G
  <2>1. /\ c[n - 1] \in Acc /\ c[n] = StepOf(p, c[n - 1], list[n]) /\ n \in 0 .. N
        /\ list[n] \in Dex /\ list[n].kind \notin {"BonkCreateToken", "BonkTrade"}
        /\ c[n - 1].bonk = << >> /\ c[n - 1].bonkTrade = << >>
    BY <1>1, <1>3 DEF Collects, NoBonk
  <2>2. StepFacts(p, c[n - 1], c[n], list[n])
    BY <2>1, StepDoes
  <2> QED
    BY <2>1, <2>2 DEF StepFacts
<1> HIDE DEF G
<1>4. \A n \in 0 .. N : n \in G
  BY <1>1, <1>2, <1>3, EachRound, Zenon
<1> QED
  BY <1>4 DEF G, N, c

LEMMA BuysAlike ==
  ASSUME NEW x \in Buys, NEW y \in Buys,
         x.mint = y.mint, x.user = y.user, x.amount = y.amount
  PROVE  x = y
<1>1. /\ x \in Dex /\ y \in Dex /\ x.kind = y.kind
      /\ x.is_buy \in BOOLEAN /\ y.is_buy \in BOOLEAN /\ x.is_buy /\ y.is_buy
  BY DEF Buys, Dex
<1>2. x.is_buy = y.is_buy
  BY <1>1
<1>3. \A z \in Dex : z = [kind |-> z.kind, mint |-> z.mint, user |-> z.user,
                         is_buy |-> z.is_buy, amount |-> z.amount]
  BY DEF Dex
<1> QED
  BY <1>1, <1>2, <1>3, Zenon

\* Of a list with one create instruction the two loops collect the same.
LEMMA StepsAlike ==
  ASSUME NEW list \in Seq(Dex), OneCreate(list), NEW n \in 1 .. Len(list),
         NEW acc \in Acc, TracksToken(list, n - 1, acc)
  PROVE  StepOf("parser", acc, list[n]) = StepOf("shreder", acc, list[n])
<1> DEFINE d == list[n]
           one == StepOf("parser", acc, d)
           two == StepOf("shreder", acc, d)
<1>0. d \in Dex
  OBVIOUS
<1> HIDE DEF d
<1>1. Merges("parser", acc, d) <=> Merges("shreder", acc, d)
  <2>1. ASSUME acc.dev # << >>, Merges("shreder", acc, d)
        PROVE  SameTrader(acc.dev[1], d)
    <3>1. acc.dev[1] \in Buys
      BY <2>1, OptFacts DEF Acc
    <3> QED
      BY <1>0, <2>1, <3>1 DEF TracksToken, Merges, ByTokenCreator, SameTrader, Buys, Dex
  <2> QED
    BY <2>1 DEF Merges
<1>2. CASE Merges("parser", acc, d)
  <2>1. MergesInto(acc, one, d) /\ MergesInto(acc, two, d)
    BY <1>0, <1>1, <1>2, StepMerges, Zenon
  <2> HIDE DEF one, two
  <2>2. /\ one.dev[1] \in Buys /\ one.dev = <<one.dev[1]>>
        /\ two.dev[1] \in Buys /\ two.dev = <<two.dev[1]>>
    BY <2>1, OptFacts DEF MergesInto
  <2>3. one.dev[1] = two.dev[1]
    BY <2>1, <2>2, BuysAlike DEF MergesInto
  <2> QED
    BY <2>1, <2>2, <2>3 DEF MergesInto, one, two, d
<1>3. CASE ~ Merges("parser", acc, d)
  BY <1>1, <1>3, StepCollects DEF d
<1> QED
  BY <1>2, <1>3

LEMMA CollectedAlike ==
  ASSUME NEW list \in Seq(Dex), OneCreate(list)
  PROVE  \A n \in 0 .. Len(list) :
           Collected("parser", list)[n] = Collected("shreder", list)[n]
<1> DEFINE N == Len(list)
           c == Collected("parser", list)
           e == Collected("shreder", list)
           G == {n \in 0 .. N : c[n] = e[n]}
<1>1. Collects("parser", c, list) /\ Collects("shreder", e, list) /\ N \in Nat
  BY CollectedRounds
<1>5. \A n \in 0 .. Len(list) : TracksToken(list, n, c[n])
  BY TokenTracked
<1> HIDE DEF c, e
<1>2. 0 \in G
  BY <1>1 DEF Collects
<1>3. ASSUME NEW n \in 1 .. N, n - 1 \in G PROVE n \in G
  <2>1. /\ n - 1 \in 0 .. N /\ n \in 0 .. N /\ c[n - 1] \in Acc /\ c[n - 1] = e[n - 1]
        /\ c[n] = StepOf("parser", c[n - 1], list[n])
        /\ e[n] = StepOf("shreder", c[n - 1], list[n])
    BY <1>1, <1>3 DEF Collects
  <2>2. StepOf("parser", c[n - 1], list[n]) = StepOf("shreder", c[n - 1], list[n])
    BY <1>5, <2>1, StepsAlike
  <2> QED
    BY <2>1, <2>2
<1> HIDE DEF G
<1>4. \A n \in 0 .. N : n \in G
  BY <1>1, <1>2, <1>3, EachRound, Zenon
<1> QED
  BY <1>4 DEF G, N, c, e

-----------------------------------------------------------------------------
(* What the callbacks report. *)

LEMMA ReportedOfMore ==
  ASSUME NEW S, NEW events \in Seq(S), NEW e \in S, \A x \in S : Amount(x) \in Nat
  PROVE  /\ Reported(Append(events, e)) = Reported(events) + Amount(e)
         /\ Reported(events) \in Nat
<1> DEFINE s == [i \in DOMAIN events |-> Amount(events[i])]
           longer == Append(events, e)
           t == [i \in DOMAIN longer |-> Amount(longer[i])]
<1>0. /\ DOMAIN events = 1 .. Len(events) /\ Len(events) \in Nat
      /\ \A i \in 1 .. Len(events) : events[i] \in S
      /\ DOMAIN longer = 1 .. (Len(events) + 1)
      /\ \A i \in 1 .. Len(events) : longer[i] = events[i]
      /\ longer[Len(events) + 1] = e
  OBVIOUS
<1> HIDE DEF longer
<1>1. s \in Seq(Nat) /\ Len(s) = Len(events) /\ DOMAIN s = 1 .. Len(events)
  BY <1>0
<1>2. \A i \in 1 .. Len(events) : s[i] = Amount(longer[i])
  BY <1>0
<1>3. Amount(e) \in Nat
  OBVIOUS
<1>4. t = [i \in 1 .. (Len(events) + 1) |-> Amount(longer[i])]
  BY <1>0
<1> HIDE DEF s, t
<1>5. /\ Append(s, Amount(e)) \in Seq(Nat) /\ Len(Append(s, Amount(e))) = Len(events) + 1
      /\ \A i \in 1 .. Len(events) : Append(s, Amount(e))[i] = s[i]
      /\ Append(s, Amount(e))[Len(events) + 1] = Amount(e)
  BY <1>0, <1>1, <1>3
<1>6. t = Append(s, Amount(e))
  <2>1. \A q \in Seq(Nat) : q = [k \in 1 .. Len(q) |-> q[k]]
    OBVIOUS
  <2>2. Append(s, Amount(e)) = [k \in 1 .. (Len(events) + 1) |-> Append(s, Amount(e))[k]]
    <3>1. Append(s, Amount(e))
            = [k \in 1 .. Len(Append(s, Amount(e))) |-> Append(s, Amount(e))[k]]
      BY <1>5, <2>1, Zenon
    <3> QED
      BY <1>5, <3>1
  <2>3. \A k \in 1 .. (Len(events) + 1) : Amount(longer[k]) = Append(s, Amount(e))[k]
    <3>1. \A k \in 1 .. (Len(events) + 1) : k \in 1 .. Len(events) \/ k = Len(events) + 1
      BY <1>0
    <3> QED
      BY <1>0, <1>2, <1>5, <3>1
  <2> QED
    BY <1>4, <2>2, <2>3
<1>7. Total(Append(s, Amount(e))) = Total(s) + Amount(e) /\ Total(s) \in Nat
  BY <1>1, <1>3, TotalOfMore
<1> QED
  BY <1>6, <1>7 DEF Reported, s, t, longer

Worth(list) == [k \in 1 .. Len(list) |-> Value(list[k])]

\* What was traded is reported or stays with the developer.
Accounted(reported, dev, traded) ==
  /\ reported + dev <= traded
  /\ traded <= U64Max => reported + dev = traded

LEMMA DevTypes ==
  ASSUME NEW acc \in Acc
  PROVE  Dev(acc) \in 0 .. U64Max /\ Dev(acc) \in Nat
<1>1. CASE acc.dev = << >>
  BY <1>1, TransactionAssumption DEF Dev
<1>2. CASE acc.dev # << >>
  <2>1. acc.dev[1] \in Buys
    BY <1>2, OptFacts DEF Acc
  <2> QED
    BY <1>2, <2>1, TransactionAssumption DEF Buys, Dex, Dev
<1> QED
  BY <1>1, <1>2

LEMMA TradeAmounts ==
  ASSUME NEW e \in TradeEvents PROVE Amount(e) \in Nat
<1>1. PICK d \in Dex : e.trade = <<d>>
  BY DEF TradeEvents
<1>2. e.trade # << >> /\ e.trade[1] = d
  BY <1>1
<1>3. d.amount \in Nat
  BY TransactionAssumption DEF Dex
<1> QED
  BY <1>2, <1>3 DEF Amount

LEMMA StepAccounts ==
  ASSUME NEW p, NEW acc \in Acc, NEW d \in Dex, NEW traded \in Nat,
         Accounted(Reported(acc.out), Dev(acc), traded)
  PROVE  LET after == StepOf(p, acc, d)
             worth == Value(d)
         IN  Accounted(Reported(after.out), Dev(after), traded + worth)
<1> DEFINE after == StepOf(p, acc, d)
           worth == Value(d)
<1>1. after \in Acc /\ StepFacts(p, acc, after, d)
  BY StepDoes
<1>2. Dev(acc) \in Nat /\ Dev(after) \in Nat /\ d.amount \in Nat /\ U64Max \in Nat
  BY <1>1, DevTypes, TransactionAssumption DEF Dex
<1>3. acc.out \in Seq(TradeEvents)
  BY DEF Acc
<1> HIDE DEF after
<1>4. CASE Merges(p, acc, d)
  <2>1. after.out = acc.out /\ Dev(after) = Saturate(Dev(acc) + d.amount)
    BY <1>1, <1>4 DEF StepFacts, Dev
  <2>2. worth = d.amount
    BY <1>4 DEF Merges, TradeKinds, Value
  <2>3. Reported(acc.out) \in Nat
    <3>1. PICK x \in Dex : x.kind = "UserTrade"
      BY <1>4 DEF Merges
    <3>2. TradeEvent(x) \in TradeEvents
      BY <3>1, TradeEventTypes DEF TradeKinds
    <3> QED
      BY <1>3, <3>2, ReportedOfMore, TradeAmounts
  <2>4. /\ Saturate(Dev(acc) + d.amount) <= Dev(acc) + d.amount
        /\ Dev(acc) + d.amount <= U64Max =>
             Saturate(Dev(acc) + d.amount) = Dev(acc) + d.amount
    BY <1>2, SaturateTypes
  <2> QED
    BY <1>2, <2>1, <2>2, <2>3, <2>4 DEF Accounted, after
<1>5. CASE ~ Merges(p, acc, d) /\ d.kind \in TradeKinds
  <2>1. after.out = Append(acc.out, TradeEvent(d)) /\ Dev(after) = Dev(acc)
    BY <1>1, <1>5 DEF StepFacts, Dev
  <2>2. TradeEvent(d) \in TradeEvents /\ Amount(TradeEvent(d)) = d.amount
    <3>1. TradeEvent(d) \in TradeEvents /\ TradeEvent(d).trade = <<d>>
      BY <1>5, TradeEventTypes
    <3>2. <<d>> # << >> /\ <<d>>[1] = d
      OBVIOUS
    <3> QED
      BY <3>1, <3>2 DEF Amount
  <2>3. /\ Reported(after.out) = Reported(acc.out) + d.amount
        /\ Reported(acc.out) \in Nat
    BY <1>3, <2>1, <2>2, ReportedOfMore, TradeAmounts
  <2> QED
    BY <1>2, <1>5, <2>1, <2>3 DEF Accounted, after, Value
<1>6. CASE d.kind \notin TradeKinds
  <2>1. after.out = acc.out /\ Dev(after) = Dev(acc)
    BY <1>1, <1>6 DEF StepFacts, Dev, Merges, TradeKinds
  <2> QED
    BY <1>2, <1>6, <2>1 DEF Accounted, after, Value
<1> QED
  BY <1>4, <1>5, <1>6

LEMMA CollectedAccounts ==
  ASSUME NEW p, NEW list \in Seq(Dex)
  PROVE  LET acc == Collected(p, list)[Len(list)]
         IN  Accounted(Reported(acc.out), Dev(acc), Total(Worth(list)))
<1> DEFINE N == Len(list)
           c == Collected(p, list)
           w == Worth(list)
           G == {n \in 0 .. N : Accounted(Reported(c[n].out), Dev(c[n]), Sums(w)[n])}
<1>1. Collects(p, c, list) /\ N \in Nat
  BY CollectedRounds
<1>2. /\ w \in Seq(Nat) /\ Len(w) = N
      /\ \A n \in 1 .. N : w[n] = Value(list[n])
  <2>1. \A n \in 1 .. N : list[n].amount \in Nat
    <3>1. \A n \in 1 .. N : list[n] \in Dex
      OBVIOUS
    <3> QED
      BY <3>1, TransactionAssumption DEF Dex
  <2> QED
    BY <1>1, <2>1 DEF Worth, Value
<1>3. AddsUp(Sums(w), w)
  BY <1>2, SumsRounds
<1> HIDE DEF c, w
<1>4. 0 \in G
  <2>1. c[0].out = << >> /\ c[0].dev = << >> /\ Sums(w)[0] = 0
    BY <1>1, <1>3 DEF Collects, Nothing, AddsUp
  <2>2. Reported(<< >>) = 0
    <3>1. [i \in DOMAIN << >> |-> Amount(<< >>[i])] \in Seq(Nat)
          /\ Len([i \in DOMAIN << >> |-> Amount(<< >>[i])]) = 0
      OBVIOUS
    <3> QED
      BY <3>1, TotalOfNone DEF Reported
  <2> QED
    BY <1>1, <2>1, <2>2 DEF Accounted, Dev
<1>5. ASSUME NEW n \in 1 .. N, n - 1 \in G PROVE n \in G
  <2>1. /\ n - 1 \in 0 .. N /\ n \in 0 .. N /\ c[n - 1] \in Acc /\ list[n] \in Dex
        /\ c[n] = StepOf(p, c[n - 1], list[n])
        /\ Accounted(Reported(c[n - 1].out), Dev(c[n - 1]), Sums(w)[n - 1])
    BY <1>1, <1>5 DEF Collects
  <2>2. Sums(w)[n] = Sums(w)[n - 1] + w[n] /\ Sums(w)[n - 1] \in Nat
    BY <1>2, <1>3, <2>1 DEF AddsUp
  <2>3. Accounted(Reported(c[n].out), Dev(c[n]), Sums(w)[n - 1] + w[n])
    BY <1>2, <2>1, <2>2, StepAccounts
  <2> QED
    BY <2>1, <2>2, <2>3
<1> HIDE DEF G
<1>6. \A n \in 0 .. N : n \in G
  BY <1>1, <1>4, <1>5, EachRound, Zenon
<1>7. N \in G
  BY <1>1, <1>6
<1> QED
  BY <1>2, <1>7 DEF G, Total, N, c, w

-----------------------------------------------------------------------------
(* The lists of the processors. *)

\* The list takes the accepted instructions, and those of PumpFun in their order:
\* the k-th is that with index h[k].
TakesFrom(h, p, s, ixs) ==
  /\ h \in [1 .. Len(s) -> 1 .. Len(ixs)]
  /\ \A k \in 1 .. Len(s) : s[k] = ixs[h[k]] /\ s[k].op \in IxOps /\ Fits(p, s[k])
  /\ \A i \in 1 .. Len(ixs) :
       ixs[i].op \in IxOps /\ Fits(p, ixs[i]) => \E k \in 1 .. Len(s) : h[k] = i
  /\ \A k, l \in 1 .. Len(s) :
       s[k].op \in PumpOps /\ s[l].op \in PumpOps /\ k < l => h[k] < h[l]

Joins(z, S, x, y) ==
  /\ z \in Seq(S) /\ Len(z) = Len(x) + Len(y)
  /\ \A k \in 1 .. Len(x) : z[k] = x[k]
  /\ \A k \in 1 .. Len(y) : z[Len(x) + k] = y[k]

LEMMA Joined ==
  ASSUME NEW S, NEW x \in Seq(S), NEW y \in Seq(S)
  PROVE  Joins(x \o y, S, x, y)
BY DEF Joins

LEMMA SourcesTake ==
  ASSUME NEW p, NEW ixs \in Seq(Instruction)
  PROVE  /\ Sources(p, ixs) \in Seq(Instruction)
         /\ \E h : TakesFrom(h, p, Sources(p, ixs), ixs)
<1> DEFINE A == Pass(ixs, AcceptedBy(p, RawOps))
           B == Pass(ixs, AcceptedBy(p, PumpOps))
           C == Pass(ixs, AcceptedBy(p, LaunchLabOps))
           s == Sources(p, ixs)
           N == Len(ixs)
<1>1. A \in Seq(Instruction) /\ \E g : Embeds(g, A, ixs, AcceptedBy(p, RawOps), N)
  BY PassEmbeds
<1>2. B \in Seq(Instruction) /\ \E g : Embeds(g, B, ixs, AcceptedBy(p, PumpOps), N)
  BY PassEmbeds
<1>3. C \in Seq(Instruction) /\ \E g : Embeds(g, C, ixs, AcceptedBy(p, LaunchLabOps), N)
  BY PassEmbeds
<1>4. s = (A \o B) \o C
  BY DEF Sources
<1> HIDE DEF A, B, C, s
<1>5. PICK a : Embeds(a, A, ixs, AcceptedBy(p, RawOps), N)
  BY <1>1
<1>6. PICK b : Embeds(b, B, ixs, AcceptedBy(p, PumpOps), N)
  BY <1>2
<1>7. PICK c : Embeds(c, C, ixs, AcceptedBy(p, LaunchLabOps), N)
  BY <1>3
<1> DEFINE j == Len(A)
           m == Len(B)
           r == Len(C)
           h == [k \in 1 .. (j + m + r) |->
                   IF k <= j THEN a[k]
                   ELSE IF k <= j + m THEN b[k - j] ELSE c[k - (j + m)]]
<1>8. /\ s \in Seq(Instruction) /\ Len(s) = j + m + r
      /\ j \in Nat /\ m \in Nat /\ r \in Nat
      /\ \A k \in 1 .. j : s[k] = A[k]
      /\ \A k \in 1 .. m : s[j + k] = B[k]
      /\ \A k \in 1 .. r : s[j + m + k] = C[k]
  <2>1. /\ A \o B \in Seq(Instruction) /\ Len(A \o B) = j + m
        /\ j \in Nat /\ m \in Nat /\ r \in Nat
        /\ \A k \in 1 .. j : (A \o B)[k] = A[k]
        /\ \A k \in 1 .. m : (A \o B)[j + k] = B[k]
    BY <1>1, <1>2, <1>3
  <2> DEFINE D == A \o B
  <2>4. D \in Seq(Instruction) /\ Len(D) = j + m
    BY <2>1
  <2> HIDE DEF D, j, m, r
  <2>2. /\ D \o C \in Seq(Instruction) /\ Len(D \o C) = j + m + r
        /\ \A k \in 1 .. (j + m) : (D \o C)[k] = D[k]
        /\ \A k \in 1 .. r : (D \o C)[j + m + k] = C[k]
    <3>1. Joins(D \o C, Instruction, D, C)
      BY <1>3, <2>4, Joined, Zenon
    <3> QED
      BY <2>4, <3>1, Zenon DEF r, Joins
  <2>3. /\ \A k \in 1 .. j : k \in 1 .. (j + m)
        /\ \A k \in 1 .. m : j + k \in 1 .. (j + m)
    BY <2>1
  <2> QED
    BY <1>4, <2>1, <2>2, <2>3 DEF D
<1>9. /\ \A k \in 1 .. j : a[k] \in 1 .. N /\ A[k] = ixs[a[k]]
                            /\ A[k].op \in RawOps /\ Fits(p, A[k])
      /\ \A k \in 1 .. m : b[k] \in 1 .. N /\ B[k] = ixs[b[k]]
                            /\ B[k].op \in PumpOps /\ Fits(p, B[k])
      /\ \A k \in 1 .. r : c[k] \in 1 .. N /\ C[k] = ixs[c[k]]
                            /\ C[k].op \in LaunchLabOps /\ Fits(p, C[k])
  <2>1. ASSUME NEW k \in 1 .. j
        PROVE  a[k] \in 1 .. N /\ A[k] = ixs[a[k]] /\ A[k].op \in RawOps /\ Fits(p, A[k])
    <3>1. a[k] \in 1 .. N /\ A[k] = ixs[a[k]] /\ IsAccepted(ixs, a[k], AcceptedBy(p, RawOps))
      BY <1>5 DEF Embeds
    <3> QED
      BY <3>1, AcceptedFits
  <2>2. ASSUME NEW k \in 1 .. m
        PROVE  b[k] \in 1 .. N /\ B[k] = ixs[b[k]] /\ B[k].op \in PumpOps /\ Fits(p, B[k])
    <3>1. b[k] \in 1 .. N /\ B[k] = ixs[b[k]] /\ IsAccepted(ixs, b[k], AcceptedBy(p, PumpOps))
      BY <1>6 DEF Embeds
    <3> QED
      BY <3>1, AcceptedFits
  <2>3. ASSUME NEW k \in 1 .. r
        PROVE  c[k] \in 1 .. N /\ C[k] = ixs[c[k]] /\ C[k].op \in LaunchLabOps /\ Fits(p, C[k])
    <3>1. /\ c[k] \in 1 .. N /\ C[k] = ixs[c[k]]
          /\ IsAccepted(ixs, c[k], AcceptedBy(p, LaunchLabOps))
      BY <1>7 DEF Embeds
    <3> QED
      BY <3>1, AcceptedFits
  <2> QED
    BY <2>1, <2>2, <2>3
<1> HIDE DEF j, m, r
<1>10. /\ \A k \in 1 .. j : k \in 1 .. (j + m + r) /\ h[k] = a[k]
       /\ \A k \in 1 .. m : j + k \in 1 .. (j + m + r) /\ h[j + k] = b[k]
       /\ \A k \in 1 .. r : j + m + k \in 1 .. (j + m + r) /\ h[j + m + k] = c[k]
  <2>1. \A k \in 1 .. j : k \in 1 .. (j + m + r) /\ h[k] = a[k]
    BY <1>8
  <2>2. ASSUME NEW k \in 1 .. m
        PROVE  j + k \in 1 .. (j + m + r) /\ h[j + k] = b[k]
    <3>1. /\ j + k \in 1 .. (j + m + r) /\ ~ (j + k <= j) /\ j + k <= j + m
          /\ (j + k) - j = k
      BY <1>8
    <3> QED
      BY <3>1
  <2>3. ASSUME NEW k \in 1 .. r
        PROVE  j + m + k \in 1 .. (j + m + r) /\ h[j + m + k] = c[k]
    <3>1. /\ j + m + k \in 1 .. (j + m + r) /\ ~ (j + m + k <= j)
          /\ ~ (j + m + k <= j + m) /\ (j + m + k) - (j + m) = k
      BY <1>8
    <3> QED
      BY <3>1
  <2> QED
    BY <2>1, <2>2, <2>3
<1>11. DOMAIN h = 1 .. (j + m + r) /\ h = [k \in 1 .. (j + m + r) |-> h[k]]
  OBVIOUS
<1> HIDE DEF h
<1>12. ASSUME NEW k \in 1 .. (j + m + r)
       PROVE  \/ k \in 1 .. j
              \/ \E i \in 1 .. m : k = j + i
              \/ \E i \in 1 .. r : k = j + m + i
  <2>1. CASE k > j /\ k <= j + m
    <3>1. k - j \in 1 .. m /\ k = j + (k - j)
      BY <1>8, <2>1
    <3> QED
      BY <3>1
  <2>2. CASE k > j + m
    <3>1. k - (j + m) \in 1 .. r /\ k = j + m + (k - (j + m))
      BY <1>8, <2>2
    <3> QED
      BY <3>1
  <2> QED
    BY <1>8, <2>1, <2>2
<1>13. ASSUME NEW k \in 1 .. (j + m + r)
       PROVE  /\ h[k] \in 1 .. N /\ s[k] = ixs[h[k]] /\ s[k].op \in IxOps /\ Fits(p, s[k])
              /\ s[k].op \in PumpOps => \E i \in 1 .. m : k = j + i
  <2>1. CASE k \in 1 .. j
    <3>1. /\ h[k] = a[k] /\ s[k] = A[k] /\ a[k] \in 1 .. N /\ A[k] = ixs[a[k]]
          /\ A[k].op \in RawOps /\ Fits(p, A[k])
      BY <1>8, <1>9, <1>10, <2>1
    <3> QED
      BY <3>1 DEF IxOps, RawOps, PumpOps
  <2>2. CASE \E i \in 1 .. m : k = j + i
    <3>1. PICK i \in 1 .. m : k = j + i
      BY <2>2
    <3>2. /\ h[k] = b[i] /\ s[k] = B[i] /\ b[i] \in 1 .. N /\ B[i] = ixs[b[i]]
          /\ B[i].op \in PumpOps /\ Fits(p, B[i])
      BY <1>8, <1>9, <1>10, <3>1
    <3> QED
      BY <3>1, <3>2 DEF IxOps
  <2>3. CASE \E i \in 1 .. r : k = j + m + i
    <3>1. PICK i \in 1 .. r : k = j + m + i
      BY <2>3
    <3>2. /\ h[k] = c[i] /\ s[k] = C[i] /\ c[i] \in 1 .. N /\ C[i] = ixs[c[i]]
          /\ C[i].op \in LaunchLabOps /\ Fits(p, C[i])
      BY <1>8, <1>9, <1>10, <3>1
    <3> QED
      BY <3>1, <3>2 DEF IxOps, LaunchLabOps, PumpOps
  <2> QED
    BY <1>12, <2>1, <2>2, <2>3
<1>14. ASSUME NEW i \in 1 .. N, ixs[i].op \in IxOps, Fits(p, ixs[i])
       PROVE  \E k \in 1 .. (j + m + r) : h[k] = i
  <2>1. CASE ixs[i].op \in RawOps
    <3>1. PICK k \in 1 .. j : a[k] = i
      BY <1>5, <1>14, <2>1, AcceptedFits DEF Embeds, j
    <3> QED
      BY <1>10, <3>1
  <2>2. CASE ixs[i].op \in PumpOps
    <3>1. PICK k \in 1 .. m : b[k] = i
      BY <1>6, <1>14, <2>2, AcceptedFits DEF Embeds, m
    <3> QED
      BY <1>10, <3>1
  <2>3. CASE ixs[i].op \in LaunchLabOps
    <3>1. PICK k \in 1 .. r : c[k] = i
      BY <1>7, <1>14, <2>3, AcceptedFits DEF Embeds, r
    <3> QED
      BY <1>10, <3>1
  <2> QED
    BY <1>14, <2>1, <2>2, <2>3 DEF IxOps
<1>15. ASSUME NEW k \in 1 .. (j + m + r), NEW l \in 1 .. (j + m + r),
              s[k].op \in PumpOps, s[l].op \in PumpOps, k < l
       PROVE  h[k] < h[l]
  <2>1. PICK i \in 1 .. m : k = j + i
    BY <1>13, <1>15
  <2>2. PICK o \in 1 .. m : l = j + o
    BY <1>13, <1>15
  <2>3. i < o
    BY <1>8, <1>15, <2>1, <2>2
  <2>4. b[i] < b[o]
    BY <1>6, <2>3 DEF Embeds, m
  <2> QED
    BY <1>10, <2>1, <2>2, <2>4
<1>16. h \in [1 .. (j + m + r) -> 1 .. N]
  BY <1>11, <1>13
<1>17. TakesFrom(h, p, s, ixs)
  BY <1>8, <1>13, <1>14, <1>15, <1>16, Zenon DEF TakesFrom
<1> QED
  BY <1>8, <1>17 DEF s

ListOf(p, ixs, bot) == Extracted(Sources(p, ixs), bot)

LEMMA ListFacts ==
  ASSUME NEW p, NEW ixs \in Seq(Instruction), NEW bot
  PROVE  /\ ListOf(p, ixs, bot) \in Seq(Dex)
         /\ Len(ListOf(p, ixs, bot)) = Len(Sources(p, ixs))
         /\ \A k \in 1 .. Len(Sources(p, ixs)) :
              ListOf(p, ixs, bot)[k] = DexInstruction(Sources(p, ixs)[k], bot)
<1> DEFINE s == Sources(p, ixs)
<1>1. s \in Seq(Instruction) /\ \A k \in 1 .. Len(s) : s[k].op \in IxOps
  BY SourcesTake DEF TakesFrom
<1> HIDE DEF s
<1>2. /\ \A k \in 1 .. Len(s) : s[k] \in Instruction
      /\ DOMAIN s = 1 .. Len(s) /\ Len(s) \in Nat
  BY <1>1
<1>3. \A k \in 1 .. Len(s) : DexInstruction(s[k], bot) \in Dex
  BY <1>1, <1>2, DexTypes
<1>4. ListOf(p, ixs, bot) = [k \in 1 .. Len(s) |-> DexInstruction(s[k], bot)]
  BY <1>2 DEF ListOf, Extracted, s
<1> HIDE DEF Dex
<1> QED
  BY <1>2, <1>3, <1>4 DEF s

\* The create instructions that a parser accepts.
Creates(ixs, i) == i \in 1 .. Len(ixs) /\ ixs[i].op = "create" /\ ixs[i].shape = "full"

\* The list holds them in their order.
OrdersCreates(h, list, ixs, bot) ==
  /\ h \in [1 .. Len(list) -> 1 .. Len(ixs)]
  /\ \A k \in DOMAIN h : list[k] = DexInstruction(ixs[h[k]], bot)
  /\ \A k \in DOMAIN h : list[k].kind = "CreateToken" <=> Creates(ixs, h[k])
  /\ \A i : Creates(ixs, i) => \E k \in DOMAIN h : h[k] = i
  /\ \A k, l \in DOMAIN h :
       Creates(ixs, h[k]) /\ Creates(ixs, h[l]) /\ k < l => h[k] < h[l]

LEMMA ListCreates ==
  ASSUME NEW p, NEW ixs \in Seq(Instruction), NEW bot
  PROVE  \E h : OrdersCreates(h, ListOf(p, ixs, bot), ixs, bot)
<1> DEFINE s == Sources(p, ixs)
           list == ListOf(p, ixs, bot)
<1>1. /\ Len(list) = Len(s)
      /\ \A k \in 1 .. Len(s) : list[k] = DexInstruction(s[k], bot)
  BY ListFacts
<1>2. PICK h : TakesFrom(h, p, s, ixs)
  BY SourcesTake
<1>0. s \in Seq(Instruction)
  BY SourcesTake
<1> HIDE DEF s, list
<1>3. h \in [1 .. Len(list) -> 1 .. Len(ixs)] /\ DOMAIN h = 1 .. Len(s)
  BY <1>1, <1>2 DEF TakesFrom
<1>4. ASSUME NEW k \in 1 .. Len(s)
      PROVE  /\ s[k] = ixs[h[k]] /\ list[k] = DexInstruction(ixs[h[k]], bot)
             /\ list[k].kind = "CreateToken" <=> Creates(ixs, h[k])
             /\ Creates(ixs, h[k]) => s[k].op \in PumpOps
  <2>1. /\ s[k] \in Instruction /\ s[k] = ixs[h[k]] /\ s[k].op \in IxOps /\ Fits(p, s[k])
        /\ h[k] \in 1 .. Len(ixs)
    BY <1>0, <1>2 DEF TakesFrom
  <2>2. DexInstruction(s[k], bot).kind = "CreateToken" <=> s[k].op = "create"
    BY <2>1, DexKinds
  <2>3. s[k].op = "create" => s[k].shape = "full"
    BY <2>1 DEF Fits
  <2> QED
    BY <1>1, <2>1, <2>2, <2>3 DEF Creates, PumpOps
<1>5. ASSUME NEW i, Creates(ixs, i) PROVE \E k \in DOMAIN h : h[k] = i
  <2>1. i \in 1 .. Len(ixs) /\ ixs[i].op \in IxOps /\ Fits(p, ixs[i])
    BY <1>5 DEF Creates, IxOps, PumpOps, Fits
  <2> QED
    BY <1>2, <1>3, <2>1 DEF TakesFrom
<1>6. ASSUME NEW k \in DOMAIN h, NEW l \in DOMAIN h,
             Creates(ixs, h[k]), Creates(ixs, h[l]), k < l
      PROVE  h[k] < h[l]
  BY <1>2, <1>3, <1>4, <1>6 DEF TakesFrom
<1> QED
  <2>1. OrdersCreates(h, list, ixs, bot)
    BY <1>3, <1>4, <1>5, <1>6 DEF OrdersCreates
  <2> QED
    BY <2>1 DEF list

LEMMA ListOneCreate ==
  ASSUME NEW p, NEW ixs \in Seq(Instruction), NEW bot,
         \A i, j : Creates(ixs, i) /\ Creates(ixs, j) => i = j
  PROVE  OneCreate(ListOf(p, ixs, bot))
<1> DEFINE list == ListOf(p, ixs, bot)
<1>0. PICK h : OrdersCreates(h, list, ixs, bot)
  BY ListCreates, Zenon
<1> HIDE DEF list
<1>1. /\ h \in [1 .. Len(list) -> 1 .. Len(ixs)] /\ DOMAIN h = 1 .. Len(list)
      /\ \A k \in DOMAIN h : list[k].kind = "CreateToken" <=> Creates(ixs, h[k])
      /\ \A k, l \in DOMAIN h :
           Creates(ixs, h[k]) /\ Creates(ixs, h[l]) /\ k < l => h[k] < h[l]
  BY <1>0 DEF OrdersCreates
<1>2. ASSUME NEW k \in 1 .. Len(list), NEW l \in 1 .. Len(list), k < l
      PROVE  ~ (list[k].kind = "CreateToken" /\ list[l].kind = "CreateToken")
  <2>1. h[k] \in Nat
    BY <1>1
  <2>2. SUFFICES ASSUME Creates(ixs, h[k]), Creates(ixs, h[l]) PROVE FALSE
    BY <1>1
  <2>3. h[k] < h[l] /\ h[k] = h[l]
    BY <1>1, <1>2, <2>2
  <2> QED
    BY <2>1, <2>3
<1>3. \A k, l \in 1 .. Len(list) : k < l \/ l < k \/ k = l
  OBVIOUS
<1> QED
  BY <1>2, <1>3 DEF OneCreate, list

\* The last create instruction of the transaction is that of the list.
LEMMA ListLastCreate ==
  ASSUME NEW p, NEW ixs \in Seq(Instruction), NEW bot, NEW i, Creates(ixs, i),
         \A j : Creates(ixs, j) => j <= i
  PROVE  LET list == ListOf(p, ixs, bot)
         IN  \E k : LastCreate(list, Len(list), k) /\ list[k] = DexInstruction(ixs[i], bot)
<1> DEFINE list == ListOf(p, ixs, bot)
<1>0. PICK h : OrdersCreates(h, list, ixs, bot)
  BY ListCreates, Zenon
<1> HIDE DEF list
<1>1. /\ h \in [1 .. Len(list) -> 1 .. Len(ixs)] /\ DOMAIN h = 1 .. Len(list)
      /\ \A k \in DOMAIN h : list[k] = DexInstruction(ixs[h[k]], bot)
      /\ \A k \in DOMAIN h : list[k].kind = "CreateToken" <=> Creates(ixs, h[k])
      /\ \A j : Creates(ixs, j) => \E k \in DOMAIN h : h[k] = j
      /\ \A k, l \in DOMAIN h :
           Creates(ixs, h[k]) /\ Creates(ixs, h[l]) /\ k < l => h[k] < h[l]
  BY <1>0 DEF OrdersCreates
<1>2. PICK k \in 1 .. Len(list) : h[k] = i
  BY <1>1
<1>3. ASSUME NEW l \in 1 .. Len(list), l > k, Creates(ixs, h[l]) PROVE FALSE
  <2>1. h[k] < h[l] /\ h[l] <= i /\ h[k] \in Nat /\ h[l] \in Nat
    BY <1>1, <1>2, <1>3
  <2> QED
    BY <1>2, <2>1
<1>4. LastCreate(list, Len(list), k)
  BY <1>1, <1>2, <1>3 DEF LastCreate
<1> QED
  BY <1>1, <1>2, <1>4 DEF list

LEMMA ListNoBonk ==
  ASSUME NEW p, NEW ixs \in Seq(Instruction), NEW bot,
         \A i \in 1 .. Len(ixs) : ~ (ixs[i].op \in LaunchLabOps /\ ixs[i].shape = "full")
  PROVE  NoBonk(ListOf(p, ixs, bot))
<1> DEFINE s == Sources(p, ixs)
           list == ListOf(p, ixs, bot)
<1>1. /\ Len(list) = Len(s)
      /\ \A k \in 1 .. Len(s) : list[k] = DexInstruction(s[k], bot)
  BY ListFacts
<1>2. PICK h : TakesFrom(h, p, s, ixs)
  BY SourcesTake
<1>0. s \in Seq(Instruction)
  BY SourcesTake
<1> HIDE DEF s, list
<1>3. ASSUME NEW k \in 1 .. Len(list)
      PROVE  list[k].kind \notin {"BonkCreateToken", "BonkTrade"}
  <2>1. /\ s[k] \in Instruction /\ s[k] = ixs[h[k]] /\ s[k].op \in IxOps /\ Fits(p, s[k])
        /\ h[k] \in 1 .. Len(ixs) /\ list[k] = DexInstruction(s[k], bot)
    BY <1>0, <1>1, <1>2, <1>3 DEF TakesFrom
  <2>2. list[k].kind \in {"BonkCreateToken", "BonkTrade"} <=> s[k].op \in LaunchLabOps
    BY <2>1, DexKinds
  <2>3. s[k].op \in LaunchLabOps => s[k].shape = "full"
    BY <2>1 DEF Fits, LaunchLabOps
  <2> QED
    BY <2>1, <2>2, <2>3
<1> QED
  BY <1>3 DEF NoBonk, list

LEMMA SourcesAlike ==
  ASSUME NEW ixs \in Seq(Instruction), \A i \in 1 .. Len(ixs) : ixs[i].shape # "lean"
  PROVE  Sources("parser", ixs) = Sources("shreder", ixs)
<1>1. ASSUME NEW ops
      PROVE  Pass(ixs, AcceptedBy("parser", ops)) = Pass(ixs, AcceptedBy("shreder", ops))
  <2>1. \A i \in 1 .. Len(ixs) :
          IsAccepted(ixs, i, AcceptedBy("parser", ops))
            <=> IsAccepted(ixs, i, AcceptedBy("shreder", ops))
    BY AcceptedFits DEF Fits
  <2> QED
    BY <2>1, PassesAlike
<1> QED
  BY <1>1 DEF Sources

LEMMA WeightsOfBoth ==
  ASSUME NEW s \in Seq(Instruction), NEW t \in Seq(Instruction), NEW ops
  PROVE  Total(Weights(s \o t, ops)) = Total(Weights(s, ops)) + Total(Weights(t, ops))
<1> DEFINE u == s \o t
           v == Weights(s, ops)
           w == Weights(t, ops)
<1>1. Joins(u, Instruction, s, t)
  BY Joined, Zenon
<1>2. v \in Seq(Nat) /\ w \in Seq(Nat) /\ Len(v) = Len(s) /\ Len(w) = Len(t)
  BY WeightTypes
<1>3. Joins(v \o w, Nat, v, w)
  BY <1>2, Joined, Zenon
<1>4. /\ \A k \in 1 .. Len(s) : v[k] = Weight(s[k], ops)
      /\ \A k \in 1 .. Len(t) : w[k] = Weight(t[k], ops)
  BY DEF Weights
<1> HIDE DEF u, v, w
<1>5. Len(s) \in Nat /\ Len(t) \in Nat
  OBVIOUS
<1>6. ASSUME NEW k \in 1 .. (Len(s) + Len(t))
      PROVE  Weight(u[k], ops) = (v \o w)[k]
  <2>1. CASE k \in 1 .. Len(s)
    <3>1. u[k] = s[k] /\ (v \o w)[k] = v[k] /\ v[k] = Weight(s[k], ops)
      BY <1>1, <1>2, <1>3, <1>4, <2>1, Zenon DEF Joins
    <3> QED
      BY <3>1, Zenon
  <2>2. CASE k \notin 1 .. Len(s)
    <3> DEFINE l == k - Len(s)
    <3>1. l \in 1 .. Len(t) /\ k = Len(s) + l
      BY <1>5, <2>2
    <3> HIDE DEF l
    <3>2. u[k] = t[l] /\ (v \o w)[k] = w[l] /\ w[l] = Weight(t[l], ops)
      BY <1>1, <1>2, <1>3, <1>4, <3>1, Zenon DEF Joins
    <3> QED
      BY <3>2, Zenon
  <2> QED
    BY <2>1, <2>2
<1>7. Weights(u, ops) = [k \in 1 .. (Len(s) + Len(t)) |-> Weight(u[k], ops)]
  BY <1>1 DEF Weights, Joins
<1>8. v \o w = [k \in 1 .. (Len(s) + Len(t)) |-> (v \o w)[k]]
  <2>1. \A q \in Seq(Nat) : q = [k \in 1 .. Len(q) |-> q[k]]
    OBVIOUS
  <2>2. v \o w \in Seq(Nat) /\ Len(v \o w) = Len(s) + Len(t)
    BY <1>2, <1>3 DEF Joins
  <2>3. v \o w = [k \in 1 .. Len(v \o w) |-> (v \o w)[k]]
    BY <2>1, <2>2, Zenon
  <2> QED
    BY <2>2, <2>3, Zenon
<1>9. Weights(u, ops) = v \o w
  BY <1>6, <1>7, <1>8, Zenon
<1>10. Total(v \o w) = Total(v) + Total(w)
  BY <1>2, TotalOfBoth
<1> QED
  BY <1>9, <1>10 DEF u, v, w

\* What the list is worth is what the accepted instructions trade.
LEMMA ListWorth ==
  ASSUME NEW p, NEW ixs \in Seq(Instruction), NEW bot
  PROVE  Total(Worth(ListOf(p, ixs, bot))) = Total(Kept(ixs, AcceptedBy(p, TradeOps), TradeOps))
<1> DEFINE s == Sources(p, ixs)
           list == ListOf(p, ixs, bot)
           A == Pass(ixs, AcceptedBy(p, RawOps))
           B == Pass(ixs, AcceptedBy(p, PumpOps))
           C == Pass(ixs, AcceptedBy(p, LaunchLabOps))
           kA == Kept(ixs, AcceptedBy(p, RawOps), TradeOps)
           kB == Kept(ixs, AcceptedBy(p, PumpOps), TradeOps)
           kC == Kept(ixs, AcceptedBy(p, LaunchLabOps), TradeOps)
           kT == Kept(ixs, AcceptedBy(p, TradeOps), TradeOps)
           N == Len(ixs)
<1>1. Worth(list) = Weights(s, TradeOps)
  <2>1. /\ Len(list) = Len(s)
        /\ \A k \in 1 .. Len(s) : list[k] = DexInstruction(s[k], bot)
    BY ListFacts
  <2>2. s \in Seq(Instruction) /\ \A k \in 1 .. Len(s) : s[k].op \in IxOps
    BY SourcesTake DEF TakesFrom
  <2> HIDE DEF s, list
  <2>3. ASSUME NEW k \in 1 .. Len(s)
        PROVE  Value(list[k]) = Weight(s[k], TradeOps)
    <3>1. s[k] \in Instruction /\ s[k].op \in IxOps /\ list[k] = DexInstruction(s[k], bot)
      BY <2>1, <2>2
    <3> QED
      BY <3>1, DexValue DEF Weight
  <2> QED
    BY <2>1, <2>3 DEF Worth, Weights
<1>2. A \in Seq(Instruction) /\ B \in Seq(Instruction) /\ C \in Seq(Instruction)
  BY PassEmbeds
<1>3. s = (A \o B) \o C
  BY DEF Sources
<1>4. /\ Total(Weights(A, TradeOps)) = Total(kA)
      /\ Total(Weights(B, TradeOps)) = Total(kB)
      /\ Total(Weights(C, TradeOps)) = Total(kC)
  BY PassWeighs
<1>5. /\ kA \in Seq(Nat) /\ kB \in Seq(Nat) /\ kC \in Seq(Nat) /\ kT \in Seq(Nat)
      /\ Len(kA) = N /\ Len(kB) = N /\ Len(kC) = N /\ Len(kT) = N
  BY WeightTypes
<1>6. ASSUME NEW i \in 1 .. N
      PROVE  /\ kC[i] = 0 /\ kT[i] = kA[i] + kB[i]
             /\ kA[i] \in Nat /\ kB[i] \in Nat
  <2> DEFINE weight == Weight(ixs[i], TradeOps)
  <2>1. /\ kA[i] = IF ixs[i].op \in RawOps /\ Fits(p, ixs[i]) THEN weight ELSE 0
        /\ kB[i] = IF ixs[i].op \in PumpOps /\ Fits(p, ixs[i]) THEN weight ELSE 0
        /\ kC[i] = IF ixs[i].op \in LaunchLabOps /\ Fits(p, ixs[i]) THEN weight ELSE 0
        /\ kT[i] = IF ixs[i].op \in TradeOps /\ Fits(p, ixs[i]) THEN weight ELSE 0
    BY AcceptedFits DEF Kept
  <2>2. /\ ixs[i].op \notin TradeOps => weight = 0
        /\ weight \in Nat
    <3>1. ixs[i] \in Instruction
      OBVIOUS
    <3> QED
      BY <3>1, InstructionFacts DEF Weight
  <2> HIDE DEF weight, kA, kB, kC, kT
  <2>3. CASE ixs[i].op \in RawOps
    BY <2>1, <2>2, <2>3 DEF RawOps, PumpOps, LaunchLabOps, TradeOps
  <2>4. CASE ixs[i].op \in PumpOps
    BY <2>1, <2>2, <2>4 DEF RawOps, PumpOps, LaunchLabOps, TradeOps
  <2>5. CASE ixs[i].op \in LaunchLabOps
    BY <2>1, <2>2, <2>5 DEF RawOps, PumpOps, LaunchLabOps, TradeOps
  <2>6. CASE ixs[i].op \notin RawOps \cup PumpOps \cup LaunchLabOps
    <3>1. ixs[i].op \notin TradeOps
      BY <2>6 DEF TradeOps, PumpOps
    <3> QED
      BY <2>1, <2>6, <3>1
  <2> QED
    BY <2>3, <2>4, <2>5, <2>6
<1> HIDE DEF A, B, C, kA, kB, kC, kT, s, list
<1>7. Total(kT) = Total(kA) + Total(kB)
  BY <1>5, <1>6, TotalOfSums
<1>8. Total(kC) = 0
  <2>2. \A i \in 1 .. Len(kC) : kC[i] = kC[i] + kC[i]
    BY <1>5, <1>6
  <2>3. Total(kC) = Total(kC) + Total(kC)
    BY <1>5, <2>2, TotalOfSums
  <2>4. Total(kC) \in Nat
    BY <1>5, TotalOfMore
  <2> QED
    BY <2>3, <2>4
<1>9. /\ Total(Weights(s, TradeOps))
           = Total(Weights(A \o B, TradeOps)) + Total(Weights(C, TradeOps))
      /\ Total(Weights(A \o B, TradeOps))
           = Total(Weights(A, TradeOps)) + Total(Weights(B, TradeOps))
  <2>1. A \o B \in Seq(Instruction)
    BY <1>2, Joined, Zenon DEF Joins
  <2> QED
    <3>1. Total(Weights(A \o B, TradeOps))
            = Total(Weights(A, TradeOps)) + Total(Weights(B, TradeOps))
      BY <1>2, WeightsOfBoth
    <3> DEFINE D == A \o B
    <3>2. D \in Seq(Instruction) /\ s = D \o C
      BY <1>3, <2>1
    <3> HIDE DEF D
    <3>3. Total(Weights(D \o C, TradeOps))
            = Total(Weights(D, TradeOps)) + Total(Weights(C, TradeOps))
      BY <1>2, <3>2, WeightsOfBoth
    <3> QED
      BY <3>1, <3>2, <3>3 DEF D
<1>10. Total(kA) \in Nat /\ Total(kB) \in Nat
  BY <1>5, TotalOfMore
<1> QED
  BY <1>1, <1>4, <1>7, <1>8, <1>9, <1>10 DEF list, kT

-----------------------------------------------------------------------------
(* The callbacks. *)

Announcement(acc, tip) ==
  [event |-> IF acc.dev = << >> THEN "NewToken" ELSE "NewToken2",
   token |-> <<acc.token[1]>>, trade |-> acc.dev, tip |-> tip]

LEMMA ConcludeDoes ==
  ASSUME NEW acc \in Acc, NEW tip, acc.bonk = << >>, acc.bonkTrade = << >>
  PROVE  /\ acc.token = << >> => Conclude(acc, tip) = acc.out
         /\ acc.token # << >> =>
              Conclude(acc, tip) = Append(acc.out, Announcement(acc, tip))
<1>1. CASE acc.token = << >>
  BY <1>1 DEF Conclude
<1>2. CASE acc.token # << >>
  <2>1. Conclude(acc, tip) = Emit(acc, Announcement(acc, tip)).out
    BY <1>2 DEF Conclude, Announcement
  <2> QED
    BY <1>2, <2>1 DEF Emit, Acc
<1> QED
  BY <1>1, <1>2

Callbacks(p, ixs, bot) ==
  LET list == ListOf(p, ixs, bot)
  IN  Conclude(Collected(p, list)[Len(list)], parse_tip_info(ixs))

LEMMA Processors ==
  ASSUME NEW ixs, NEW bot
  PROVE  /\ process_transaction(ixs, bot) = Callbacks("parser", ixs, bot)
         /\ process_transaction_shreder(ixs) = Callbacks("shreder", ixs, {})
BY DEF process_transaction, process_transaction_shreder, Callbacks, ListOf, Sources,
       AcceptedBy, parse_compiled_instruction, parse_compiled_instruction_shreder

TxTypes == tx \in Seq(Instruction)

LEMMA CreatedAre ==
  ASSUME TxTypes, NEW i
  PROVE  i \in Created <=> Creates(tx, i)
BY DEF TxTypes, Created, Uses, Accepted, Creates

LEMMA Agreement ==
  TxTypes => ProcessorsAgree
<1> SUFFICES ASSUME TxTypes, OnlyFull, \A i, j \in Created : i = j
             PROVE  process_transaction(tx, {}) = process_transaction_shreder(tx)
  BY DEF ProcessorsAgree
<1> DEFINE list == ListOf("parser", tx, {})
<1>1. \A i \in 1 .. Len(tx) : tx[i].shape # "lean"
  BY DEF TxTypes, OnlyFull
<1>2. list = ListOf("shreder", tx, {})
  BY <1>1, SourcesAlike DEF TxTypes, ListOf
<1>3. list \in Seq(Dex)
  BY ListFacts DEF TxTypes
<1>4. OneCreate(list)
  <2>1. \A i, j : Creates(tx, i) /\ Creates(tx, j) => i = j
    BY CreatedAre
  <2> QED
    BY <2>1, ListOneCreate DEF TxTypes
<1> HIDE DEF list
<1>5. Collected("parser", list)[Len(list)] = Collected("shreder", list)[Len(list)]
  <2>1. Len(list) \in 0 .. Len(list)
    BY <1>3
  <2> QED
    BY <1>3, <1>4, <2>1, CollectedAlike
<1> QED
  BY <1>2, <1>5, Processors DEF Callbacks, list

\* What a processor has collected when no LaunchLab instruction is accepted.
LEMMA AtTheEnd ==
  ASSUME NEW p, NEW bot, TxTypes, NoLaunchLab
  PROVE  LET list == ListOf(p, tx, bot)
             acc == Collected(p, list)[Len(list)]
         IN  /\ list \in Seq(Dex) /\ acc \in Acc
             /\ acc.bonk = << >> /\ acc.bonkTrade = << >>
             /\ TracksToken(list, Len(list), acc)
             /\ Accounted(Reported(acc.out), Dev(acc), Total(Worth(list)))
<1> DEFINE list == ListOf(p, tx, bot)
           acc == Collected(p, list)[Len(list)]
<1>1. list \in Seq(Dex)
  BY ListFacts DEF TxTypes
<1>2. NoBonk(list)
  <2>1. ASSUME NEW i \in 1 .. Len(tx), tx[i].op \in LaunchLabOps, tx[i].shape = "full"
        PROVE  FALSE
    <3>1. <<tx[i].op, tx[i].shape>> \in Accepted(LaunchLabOps)
      BY <2>1 DEF Accepted
    <3>2. i \in DOMAIN tx
      BY DEF TxTypes
    <3> QED
      BY <2>1, <3>1, <3>2, Zenon DEF NoLaunchLab, Uses
  <2> QED
    BY <2>1, ListNoBonk DEF TxTypes
<1> HIDE DEF list
<1>3. Len(list) \in 0 .. Len(list)
  BY <1>1
<1>4. acc.bonk = << >> /\ acc.bonkTrade = << >>
  BY <1>1, <1>2, <1>3, NoBonkCollected
<1>5. TracksToken(list, Len(list), acc)
  BY <1>1, <1>3, TokenTracked
<1>6. acc \in Acc
  BY <1>1, <1>3, CollectedRounds DEF Collects
<1>7. Accounted(Reported(acc.out), Dev(acc), Total(Worth(list)))
  BY <1>1, CollectedAccounts
<1> QED
  BY <1>1, <1>4, <1>5, <1>6, <1>7 DEF list

LEMMA CallbacksConserve ==
  ASSUME NEW p, NEW bot, TxTypes, NoLaunchLab
  PROVE  Conserved(Callbacks(p, tx, bot), Traded(AcceptedBy(p, TradeOps)))
<1> DEFINE list == ListOf(p, tx, bot)
           acc == Collected(p, list)[Len(list)]
           tip == parse_tip_info(tx)
           traded == Total(Worth(list))
           e == Announcement(acc, tip)
<1>1. /\ acc \in Acc /\ acc.bonk = << >> /\ acc.bonkTrade = << >>
      /\ TracksToken(list, Len(list), acc)
      /\ Accounted(Reported(acc.out), Dev(acc), traded)
  BY AtTheEnd
<1>2. Traded(AcceptedBy(p, TradeOps)) = traded
  <2> DEFINE accepted == AcceptedBy(p, TradeOps)
  <2>1. traded = Total(Kept(tx, accepted, TradeOps))
    BY ListWorth DEF TxTypes
  <2>2. Kept(tx, accepted, TradeOps)
          = [i \in DOMAIN tx |->
               IF <<tx[i].op, tx[i].shape>> \in accepted THEN tx[i].amount ELSE 0]
    <3>1. ASSUME NEW i \in 1 .. Len(tx)
          PROVE  (IF IsAccepted(tx, i, accepted) THEN Weight(tx[i], TradeOps) ELSE 0)
                   = IF <<tx[i].op, tx[i].shape>> \in accepted THEN tx[i].amount ELSE 0
      BY AcceptedFits DEF IsAccepted, Weight
    <3>2. DOMAIN tx = 1 .. Len(tx)
      BY DEF TxTypes
    <3> QED
      BY <3>1, <3>2 DEF Kept
  <2> QED
    BY <2>1, <2>2 DEF Traded
<1>3. Callbacks(p, tx, bot) = Conclude(acc, tip)
  BY DEF Callbacks
<1> HIDE DEF acc, tip, traded, list, e
<1>4. Dev(acc) \in Nat
  BY <1>1, DevTypes
<1>7. /\ Reported(Append(acc.out, e)) = Reported(acc.out) + Dev(acc)
      /\ Reported(acc.out) \in Nat
  <2> DEFINE S == TradeEvents \cup {e}
  <2>1. Amount(e) = Dev(acc)
    BY DEF Amount, Dev, e, Announcement
  <2>2. \A x \in S : Amount(x) \in Nat
    BY <1>4, <2>1, TradeAmounts
  <2>3. acc.out \in Seq(S)
    <3>1. acc.out \in Seq(TradeEvents)
      BY <1>1 DEF Acc
    <3> HIDE DEF TradeEvents
    <3> QED
      BY <3>1
  <2>4. e \in S
    OBVIOUS
  <2> HIDE DEF S
  <2> QED
    BY <2>1, <2>2, <2>3, <2>4, ReportedOfMore
<1>5. CASE acc.token = << >>
  <2>1. Dev(acc) = 0 /\ Conclude(acc, tip) = acc.out
    BY <1>1, <1>5, ConcludeDoes DEF TracksToken, Dev
  <2> QED
    BY <1>1, <1>2, <1>3, <1>7, <2>1 DEF Accounted, Conserved
<1>6. CASE acc.token # << >>
  <2>1. Conclude(acc, tip) = Append(acc.out, e)
    BY <1>1, <1>6, ConcludeDoes DEF e
  <2> QED
    BY <1>1, <1>2, <1>3, <1>7, <2>1 DEF Accounted, Conserved
<1> QED
  BY <1>5, <1>6

LEMMA Conservation ==
  TxTypes => AmountsConserved
<1> SUFFICES ASSUME TxTypes, NoLaunchLab
             PROVE  /\ \A bot \in BotWallets :
                         Conserved(process_transaction(tx, bot), Traded(Accepted(TradeOps)))
                    /\ Conserved(process_transaction_shreder(tx),
                                 Traded(AcceptedShreder(TradeOps)))
  BY DEF AmountsConserved, TradeOps
<1>1. ASSUME NEW bot
      PROVE  Conserved(process_transaction(tx, bot), Traded(Accepted(TradeOps)))
  <2>1. Conserved(Callbacks("parser", tx, bot), Traded(AcceptedBy("parser", TradeOps)))
    BY CallbacksConserve
  <2> QED
    BY <2>1, Processors DEF AcceptedBy
<1>2. Conserved(process_transaction_shreder(tx), Traded(AcceptedShreder(TradeOps)))
  <2>1. Conserved(Callbacks("shreder", tx, {}), Traded(AcceptedBy("shreder", TradeOps)))
    BY CallbacksConserve
  <2> QED
    BY <2>1, Processors DEF AcceptedBy
<1> QED
  BY <1>1, <1>2

LEMMA CallbacksAnnounce ==
  ASSUME NEW p, TxTypes, NoLaunchLab, NEW i, Creates(tx, i),
         \A j : Creates(tx, j) => j <= i
  PROVE  Announces(Callbacks(p, tx, {}), i, \A j \in Created : j = i)
<1> DEFINE list == ListOf(p, tx, {})
           acc == Collected(p, list)[Len(list)]
           tip == parse_tip_info(tx)
           e == Announcement(acc, tip)
           events == Append(acc.out, e)
<1>1. /\ acc \in Acc /\ acc.bonk = << >> /\ acc.bonkTrade = << >>
      /\ TracksToken(list, Len(list), acc) /\ list \in Seq(Dex)
  BY AtTheEnd
<1>2. PICK k : LastCreate(list, Len(list), k) /\ list[k] = DexInstruction(tx[i], {})
  BY ListLastCreate DEF TxTypes
<1>3. Callbacks(p, tx, {}) = Conclude(acc, tip)
  BY DEF Callbacks
<1>4. (\A j \in Created : j = i) => OneCreate(list)
  <2>1. ASSUME \A j \in Created : j = i PROVE \A a, b : Creates(tx, a) /\ Creates(tx, b) => a = b
    BY <2>1, CreatedAre
  <2> QED
    BY <2>1, ListOneCreate DEF TxTypes
<1> HIDE DEF list, acc, tip
<1>5. acc.token = <<list[k]>> /\ acc.token # << >> /\ acc.token[1] = list[k]
  <2>1. acc.token # << >>
    BY <1>1, <1>2 DEF TracksToken, LastCreate
  <2>2. PICK l \in 1 .. Len(list) : LastCreate(list, Len(list), l) /\ acc.token = <<list[l]>>
    BY <1>1, <2>1 DEF TracksToken
  <2>3. l = k
    BY <1>2, <2>2 DEF LastCreate
  <2> QED
    BY <2>1, <2>2, <2>3
<1>6. list[k].mint = tx[i].mint /\ list[k].user = tx[i].user
  BY <1>2 DEF DexInstruction
<1>7. Callbacks(p, tx, {}) = events
  BY <1>1, <1>3, <1>5, ConcludeDoes
<1>8. /\ events[Len(events)] = e /\ DOMAIN events = 1 .. Len(events)
      /\ Len(events) \in 1 .. Len(events)
      /\ \A m \in 1 .. Len(events) : m # Len(events) => events[m] \in TradeEvents
  <2>1. acc.out \in Seq(TradeEvents)
    BY <1>1 DEF Acc
  <2> HIDE DEF e, TradeEvents
  <2> QED
    BY <2>1
<1> HIDE DEF events
<1>9. {m \in DOMAIN events : events[m].event \in {"NewToken", "NewToken2"}} = {Len(events)}
  <2>1. e.event \in {"NewToken", "NewToken2"}
    BY DEF Announcement
  <2>2. \A x \in TradeEvents : x.event \notin {"NewToken", "NewToken2"}
    BY DEF TradeEvents
  <2> HIDE DEF e, TradeEvents
  <2> QED
    BY <1>8, <2>1, <2>2
<1>10. /\ e.token[1] = acc.token[1] /\ e.trade = acc.dev /\ e.tip = tip
       /\ e.event = "NewToken2" => acc.dev # << >>
  BY DEF Announcement
<1>11. ASSUME e.event = "NewToken2", \A j \in Created : j = i
       PROVE  SameTrader(e.trade[1], [e.token[1] EXCEPT !.is_buy = TRUE])
  <2>1. acc.dev # << >> /\ acc.dev[1] \in Buys
    BY <1>1, <1>10, <1>11, OptFacts DEF Acc
  <2>2. acc.dev[1].mint = acc.token[1].mint /\ acc.dev[1].user = acc.token[1].user
    BY <1>1, <1>4, <1>11, <2>1 DEF TracksToken
  <2>3. acc.dev[1].is_buy = TRUE
    BY <2>1 DEF Buys, Dex
  <2>4. acc.token[1] \in Dex
    BY <1>1, <1>5, OptFacts DEF Acc
  <2> HIDE DEF e
  <2> QED
    BY <1>10, <2>2, <2>3, <2>4 DEF SameTrader, Dex
<1> HIDE DEF e
<1> QED
  BY <1>5, <1>6, <1>7, <1>8, <1>9, <1>10, <1>11 DEF Announces, tip

LEMMA Announcing ==
  TxTypes => CreatedTokenAnnounced
<1> SUFFICES ASSUME TxTypes, NoLaunchLab, NEW i \in Created, \A j \in Created : j <= i
             PROVE  /\ Announces(process_transaction(tx, {}), i, \A j \in Created : j = i)
                    /\ Announces(process_transaction_shreder(tx), i, \A j \in Created : j = i)
  BY DEF CreatedTokenAnnounced
<1>1. Creates(tx, i) /\ \A j : Creates(tx, j) => j <= i
  BY CreatedAre
<1>2. Announces(Callbacks("parser", tx, {}), i, \A j \in Created : j = i)
  BY <1>1, CallbacksAnnounce
<1>3. Announces(Callbacks("shreder", tx, {}), i, \A j \in Created : j = i)
  BY <1>1, CallbacksAnnounce
<1> QED
  BY <1>2, <1>3, Processors

LEMMA TxKeepsTypes ==
  TransactionSafety => []TxTypes
<1>1. TransactionInit => TxTypes
  BY DEF TransactionInit, TxTypes
<1>2. TxTypes /\ [AddInstruction]_tx => TxTypes'
  BY DEF TxTypes, AddInstruction
<1> QED
  BY <1>1, <1>2, PTL DEF TransactionSafety

\* PumpfunEventParser::process_transaction and process_pumpfun_transaction_shreder
\* make the same callbacks in the same order for every transaction that creates at
\* most one token and of which both parsers accept the same instructions.
THEOREM ProcessorsMakeTheSameCallbacks ==
  TransactionSafety => []ProcessorsAgree
BY TxKeepsTypes, Agreement, PTL

\* Whatever instructions a transaction holds and whichever wallets are the bot's,
\* the callbacks report what was traded, unless the sum exceeds the largest amount.
THEOREM NoAmountLost ==
  TransactionSafety => []AmountsConserved
BY TxKeepsTypes, Conservation, PTL

\* A transaction that creates tokens announces the last of them in its last callback,
\* with none but its creator's buys if it is the only one.
THEOREM LastTokenAnnounced ==
  TransactionSafety => []CreatedTokenAnnounced
BY TxKeepsTypes, Announcing, PTL
=============================================================================
