--------------------------- MODULE OrderedDelivery ---------------------------
(***************************************************************************)
(* What the decoder promises its caller, without buffers, FEC sets, limits *)
(* or time: a tracked slot has a cursor; a call hands out batches of one   *)
(* slot that are disjoint runs of consecutive indices from the cursor on,  *)
(* and moves the cursor past them; a finished slot hands out nothing more; *)
(* slots may be forgotten at any time and then start afresh.               *)
(***************************************************************************)
EXTENDS Integers

CONSTANTS Slot, MaxIndex

VARIABLES tracked, done, cursor, out

vars == <<tracked, done, cursor, out>>

Init ==
  /\ tracked = {} /\ done = {} /\ out = {}
  /\ cursor = [s \in Slot |-> 0]

Indices(batch) == {d.index : d \in batch.shreds}

\* The batches are disjoint runs of consecutive indices, from index m up to but
\* not including index n, with one shred per index.
RunsBetween(batches, m, n) ==
  /\ \A b \in batches :
       /\ \A d, e \in b.shreds : d.index = e.index => d = e
       /\ \E i, j \in m .. (n - 1) : i <= j /\ Indices(b) = i .. j
  /\ \A a, b \in batches : a # b => Indices(a) \cap Indices(b) = {}

\* The slots that stay tracked, other than those in S, are left alone; the
\* others start afresh.
Others(S) ==
  /\ done' \subseteq tracked'
  /\ tracked' \subseteq tracked \cup S
  /\ \A t \in tracked' \ S : cursor'[t] = cursor[t] /\ (t \in done' <=> t \in done)
  /\ \A t \in Slot \ tracked' : cursor'[t] = 0

Forget == Others({}) /\ out' = {}

Deliver(s, n) ==
  /\ s \notin done /\ n >= cursor[s]
  /\ \A b \in out' : b.slot = s
  /\ RunsBetween(out', cursor[s], n)
  /\ s \in tracked' => cursor'[s] = n
  /\ s \in done' => n > cursor[s]
  /\ Others({s})

Next == Forget \/ \E s \in Slot, n \in 0 .. MaxIndex : Deliver(s, n)

Spec == Init /\ [][Next]_vars
=============================================================================
