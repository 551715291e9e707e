-------------------------- MODULE WebSocketServer --------------------------
(* run_ws_server of src/src/grpc/ws_server.rs: one task per accepted peer, *)
(* subscribed to the broadcast channel WS_SENDER before the WebSocket      *)
(* handshake, which has a timeout.  Messages are numbered from 1.          *)
(* The broadcast channel (external) keeps the last BroadcastCapacity       *)
(* messages; a receiver that fell behind is told so and then continues     *)
(* with the oldest message kept.                                           *)
EXTENDS Integers

CONSTANTS Peer, BroadcastCapacity, MaxMessages

ASSUME ServerAssumption == BroadcastCapacity \in Nat \ {0} /\ MaxMessages \in Nat

VARIABLES
    published,  \* messages sent to WS_SENDER
    peer,       \* peer -> "absent", "handshake", "open" or "closed"
    next,       \* peer -> the next message its receiver will take
    delivered,  \* peer -> the messages written to its socket
    skipped,    \* peer -> the messages it lost by lagging
    joined      \* history: peer -> messages published before it was accepted

wsVars == <<published, peer, next, delivered, skipped, joined>>

WsInit ==
    /\ published = 0
    /\ peer = [p \in Peer |-> "absent"]
    /\ next = [p \in Peer |-> 1]
    /\ delivered = [p \in Peer |-> {}]
    /\ skipped = [p \in Peer |-> {}]
    /\ joined = [p \in Peer |-> 0]

Publish ==
    /\ published < MaxMessages
    /\ published' = published + 1
    /\ UNCHANGED <<peer, next, delivered, skipped, joined>>

\* listener.accept and WS_SENDER.subscribe: only later messages are received.
Accept(p) ==
    /\ peer[p] = "absent"
    /\ peer' = [peer EXCEPT ![p] = "handshake"]
    /\ next' = [next EXCEPT ![p] = published + 1]
    /\ joined' = [joined EXCEPT ![p] = published]
    /\ UNCHANGED <<published, delivered, skipped>>

\* Mutant: subscribed only once the handshake is done.
SubscribeAfterHandshake(p) ==
    /\ peer[p] = "handshake"
    /\ peer' = [peer EXCEPT ![p] = "open"]
    /\ next' = [next EXCEPT ![p] = published + 1]
    /\ UNCHANGED <<published, delivered, skipped, joined>>

\* accept_async succeeds.
HandshakeDone(p) ==
    /\ peer[p] = "handshake"
    /\ peer' = [peer EXCEPT ![p] = "open"]
    /\ UNCHANGED <<published, next, delivered, skipped, joined>>

\* accept_async fails or HANDSHAKE_TIMEOUT fires.
HandshakeFails(p) ==
    /\ peer[p] = "handshake"
    /\ peer' = [peer EXCEPT ![p] = "closed"]
    /\ UNCHANGED <<published, next, delivered, skipped, joined>>

Oldest == IF published > BroadcastCapacity THEN published - BroadcastCapacity + 1 ELSE 1

\* rx.recv returns a message and it is written to the peer.
Forward(p) ==
    /\ peer[p] = "open" /\ next[p] \in Oldest .. published
    /\ delivered' = [delivered EXCEPT ![p] = @ \cup {next[p]}]
    /\ next' = [next EXCEPT ![p] = @ + 1]
    /\ UNCHANGED <<published, peer, skipped, joined>>

\* rx.recv returns Lagged: logged, and the loop goes on.
Lagged(p) ==
    /\ peer[p] = "open" /\ next[p] < Oldest
    /\ skipped' = [skipped EXCEPT ![p] = @ \cup next[p] .. (Oldest - 1)]
    /\ next' = [next EXCEPT ![p] = Oldest]
    /\ UNCHANGED <<published, peer, delivered, joined>>

\* Close frame, end of stream, or a failed read, write, pong or ping.
PeerLeaves(p) ==
    /\ peer[p] = "open"
    /\ peer' = [peer EXCEPT ![p] = "closed"]
    /\ UNCHANGED <<published, next, delivered, skipped, joined>>

WsNext ==
    \/ Publish
    \/ \E p \in Peer : \/ Accept(p) \/ HandshakeDone(p) \/ HandshakeFails(p)
                       \/ Forward(p) \/ Lagged(p) \/ PeerLeaves(p)

WsSafety == WsInit /\ [][WsNext]_wsVars

\* Peer tasks are scheduled, writes complete or fail, and the handshake timer
\* fires.
WsFairness ==
    \A p \in Peer : /\ WF_wsVars(HandshakeFails(p))
                    /\ WF_wsVars(Forward(p)) /\ WF_wsVars(Lagged(p))

-----------------------------------------------------------------------------
\* Every message published since a peer was accepted and taken from its
\* receiver was either written to the peer or skipped, and none was both.
Accounted(p) ==
    /\ delivered[p] \cap skipped[p] = {}
    /\ delivered[p] \cup skipped[p] = (joined[p] + 1) .. (next[p] - 1)

(* A peer that stays open gets every message published after it was        *)
(* accepted, those published during its handshake included, once, except   *)
(* for those it lost by lagging more than the capacity behind; a peer that *)
(* never completes the handshake does not occupy its task for ever         *)
(* (ws_server.rs:30-42, 66-76).                                            *)
PeersServed ==
    \A p \in Peer :
        /\ []Accounted(p)
        /\ (peer[p] = "handshake") ~> (peer[p] # "handshake")
        /\ \A m \in 1 .. MaxMessages :
             (peer[p] = "open" /\ m \in (joined[p] + 1) .. published) ~>
                 (peer[p] = "closed" \/ m \in delivered[p] \cup skipped[p])
=============================================================================
