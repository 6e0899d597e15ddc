--------------------------------- MODULE Dlep ---------------------------------
(***************************************************************************)
(* A DLEP radio and a DLEP router on one interface: the discovery by UDP   *)
(* of dlep_interface.c, the sessions of dlep_session.c on the TCP          *)
(* connections of radio/ and router/, the signals of ext_base_proto/, and  *)
(* what oonf_layer2.c and oonf_stream_socket.c do for them.  The radio     *)
(* reports its own neighbors (not_proxied), both accept one session.       *)
(*                                                                         *)
(* toRadio and toRouter hold what the other end has generated and this end *)
(* has not processed: the buffer of the writer, the network and the buffer *)
(* of the reader together.  A discovery and its answer are one step; a     *)
(* repeated PEER_DISCOVERY or PEER_OFFER does what one of them does.       *)
(***************************************************************************)
EXTENDS Naturals, SequencesExt

CONSTANTS
    Neigh,         \* layer-2 neighbors of the radio
    MaxData,       \* bound: values of the metrics of a neighbor
    MaxInFlight    \* bound: signals on their way before others are added

ASSUME ConstantsAssumption ==
    IsFiniteSet(Neigh) /\ MaxData \in Nat /\ MaxInFlight \in Nat

Absent == 0
Data == 1 .. MaxData
Nobody == [n \in Neigh |-> Absent]

VARIABLES
    l2,            \* layer-2 database of the radio: neighbor -> metrics or Absent
    local,         \* local_neighbor_tree: neighbor -> its state, or "NONE"
    changed,       \* the local neighbors with their flag "changed"
    orphan,        \* neighbors whose ack timer has survived their session
    stray,         \* does udp_out of the radio hold a DESTINATION_UP?
    locked,        \* is remote_socket of the router's UDP session left set?
    radio, router, \* the two ends of the session
    syn,           \* has the router connected and the radio not accepted?
    toRadio, toRouter,
    known,         \* layer-2 database of the router, what DLEP gave it
    linked         \* does the network deliver?

vars == <<l2, local, changed, orphan, stray, locked, radio, router, syn,
          toRadio, toRouter, known, linked>>
radioDb == <<local, changed, orphan>>
udp == <<stray, locked>>

(* restrict_signal: the only signal accepted, "ALL", or "NONE" without     *)
(* session; are remote_heartbeat_timeout and the local heartbeat running?  *)
Session == [restrict : {"NONE", "INIT", "INIT_ACK", "TERM_ACK", "ALL"},
            remote : BOOLEAN, heartbeat : BOOLEAN]
Closed == [restrict |-> "NONE", remote |-> FALSE, heartbeat |-> FALSE]
Open(restrict) == [restrict |-> restrict, remote |-> TRUE, heartbeat |-> FALSE]
Established == [restrict |-> "ALL", remote |-> TRUE, heartbeat |-> TRUE]
IsOpen(session) == session.restrict /= "NONE"

Signal(type) == [type |-> type]
Dest(type, n, v) == [type |-> type, neigh |-> n, data |-> v]
Ack(type, n) == [type |-> type, neigh |-> n]

(* Signals for an end that is gone are lost with the connection.           *)
SendToRouter(signals) ==
    toRouter' = IF IsOpen(router) THEN toRouter \o signals ELSE <<>>
SendToRadio(signals) ==
    toRadio' = IF IsOpen(radio) \/ syn THEN toRadio \o signals ELSE <<>>
RoomLeft == Len(toRadio) + Len(toRouter) < MaxInFlight

(* dlep_session_process_signal: signals of another type than the           *)
(* restriction end the session.                                            *)
Accepts(session, signal) == session.restrict \in {"ALL", signal.type}
-----------------------------------------------------------------------------
(* _cb_tcp_lost of the radio.  dlep_session_remove forgets the local       *)
(* neighbors; their ack timers run on.                                     *)
ForgetLocals ==
    /\ local' = [n \in Neigh |-> "NONE"]
    /\ changed' = {}
    /\ orphan' = orphan \cup {n \in Neigh : local[n] \in {"UP_SENT", "DOWN_SENT"}}
CloseRadio ==
    /\ radio' = Closed
    /\ ForgetLocals
    /\ toRadio' = <<>>
    /\ UNCHANGED <<l2, udp, router, syn, toRouter, known, linked>>

(* oonf_layer2_net_remove with the origin of DLEP: the neighbors have data *)
(* of that origin, a DESTINATION_UP carries the mandatory metrics.         *)
NetRemove == known' = Nobody

(* Mutant: the layer-2 data outlives the session.                          *)
CloseRouterKeepsData ==
    /\ router' = Closed
    /\ toRouter' = <<>>
    /\ syn' = FALSE
    /\ toRadio' = IF syn THEN <<>> ELSE toRadio
    /\ UNCHANGED known

(* _cb_tcp_lost of the router with _cb_cleanup_router: everything of its   *)
(* layer-2 origin goes.                                                    *)
CloseRouter ==
    /\ router' = Closed
    /\ toRouter' = <<>>
    /\ syn' = FALSE
    /\ toRadio' = IF syn THEN <<>> ELSE toRadio
    /\ NetRemove

(* The process of the radio ends, by a crash or a restart.                 *)
RadioDies ==
    /\ radio' = Closed
    /\ l2' = Nobody
    /\ local' = [n \in Neigh |-> "NONE"]
    /\ changed' = {} /\ orphan' = {}
    /\ stray' = FALSE
    /\ syn' = FALSE
    /\ toRadio' = <<>>
    /\ UNCHANGED <<locked, router, toRouter, known, linked>>
RouterRestart ==
    /\ CloseRouter
    /\ locked' = FALSE
    /\ UNCHANGED <<l2, radioDb, stray, radio, linked>>
-----------------------------------------------------------------------------
(* _cb_create_peer_discovery of the router and its answer, _cb_receive_udp *)
(* on both sides.  The answer starts with whatever is left in udp_out of   *)
(* the radio; a router that gets another signal than PEER_OFFER first      *)
(* returns before it invalidates remote_socket, and never sends again.     *)
Discover ==
    /\ ~IsOpen(router) /\ ~locked
    /\ ~IsOpen(radio) /\ linked
    /\ stray' = FALSE
    /\ IF stray
       THEN /\ locked' = TRUE
            /\ UNCHANGED <<router, syn, toRadio>>
       ELSE /\ router' = Open("INIT_ACK")
            /\ syn' = TRUE
            /\ toRadio' = <<Signal("INIT")>>
            /\ UNCHANGED locked
    /\ UNCHANGED <<l2, radioDb, radio, toRouter, known, linked>>

(* The answer of the radio is lost.                                        *)
OfferLost ==
    /\ ~IsOpen(router) /\ ~locked
    /\ ~IsOpen(radio) /\ linked
    /\ stray
    /\ stray' = FALSE
    /\ UNCHANGED <<l2, radioDb, locked, radio, router, syn, toRadio, toRouter,
                   known, linked>>

(* _cb_incoming_tcp, _cb_init_radio                                        *)
Accept ==
    /\ syn /\ linked
    /\ radio' = Open("INIT")
    /\ syn' = FALSE
    /\ UNCHANGED <<l2, radioDb, udp, router, toRadio, toRouter, known, linked>>
-----------------------------------------------------------------------------
(* Mutant: a neighbor without entry in the database is written all the     *)
(* same.                                                                   *)
DestOfAny(type, n) == <<Dest(type, n, l2[n])>>

(* dlep_session_generate_signal for a neighbor: nothing without its data.  *)
DestOf(type, n) == IF l2[n] = Absent THEN <<>> ELSE <<Dest(type, n, l2[n])>>

(* DESTINATION_UP for everybody in the layer-2 database.                   *)
Ups ==
    LET present == SetToSeq({n \in Neigh : l2[n] /= Absent})
    IN  [i \in DOMAIN present |-> Dest("UP", present[i], l2[present[i]])]

(* _l2_neigh_changed: a neighbor of the radio has new metrics.  Nothing    *)
(* asks for the state of the session.                                      *)
NeighChanged(n, data) ==
    CASE local[n] = "UP_SENT" ->
           /\ changed' = changed \cup {n}
           /\ UNCHANGED <<local, toRouter>>
      [] local[n] = "UP_ACKED" ->
           /\ SendToRouter(<<Dest("UPDATE", n, data)>>)
           /\ changed' = changed \ {n}
           /\ UNCHANGED local
      [] OTHER ->
           /\ SendToRouter(<<Dest("UP", n, data)>>)
           /\ local' = [local EXCEPT ![n] = "UP_SENT"]
           /\ changed' = changed \ {n}

(* A plugin sets the metrics of a neighbor, a new one or not.              *)
(* _l2_neigh_added gives a new one to the UDP session of the interface     *)
(* instead of the session it looks at, then oonf_layer2_neigh_commit calls *)
(* _l2_neigh_changed.                                                      *)
L2Set(n, data) ==
    /\ l2[n] /= data
    /\ RoomLeft
    /\ l2' = [l2 EXCEPT ![n] = data]
    /\ stray' = (stray \/ (l2[n] = Absent /\ IsOpen(radio)))
    /\ IF IsOpen(radio) THEN NeighChanged(n, data) ELSE UNCHANGED <<local, changed, toRouter>>
    /\ UNCHANGED <<orphan, locked, radio, router, syn, toRadio, known, linked>>

(* Is neigh_addr of the local neighbor unspecified?  Whoever adds a local  *)
(* neighbor sets it.                                                       *)
NeighAddrUnset(n) == local[n] = "NONE"

(* _l2_neigh_removed.  The callbacks never give it a destination, so that  *)
(* it asks for local neighbors without address.                            *)
L2Remove(n) ==
    LET withdraw == local[n] /= "NONE" /\ NeighAddrUnset(n)
    IN  /\ l2[n] /= Absent
        /\ l2' = [l2 EXCEPT ![n] = Absent]
        /\ IF withdraw
           THEN /\ local' = [local EXCEPT ![n] = "DOWN_SENT"]
                /\ SendToRouter(<<Ack("DOWN", n)>>)
           ELSE UNCHANGED <<local, toRouter>>
        /\ UNCHANGED <<changed, orphan, udp, radio, router, syn, toRadio, known, linked>>

(* _cb_destination_timeout of the radio.  The router is not told.          *)
AckTimeout(n) ==
    /\ local[n] \in {"UP_SENT", "DOWN_SENT"}
    /\ local' = [local EXCEPT ![n] = "NONE"]
    /\ changed' = changed \ {n}
    /\ UNCHANGED <<l2, orphan, udp, radio, router, syn, toRadio, toRouter, known, linked>>

(* The ack timer of a session that is freed uses its memory: the radio     *)
(* crashes or it does not.                                                 *)
OrphanTimeout(n) ==
    /\ n \in orphan
    /\ \/ RadioDies
       \/ /\ orphan' = orphan \ {n}
          /\ UNCHANGED <<l2, local, changed, udp, radio, router, syn, toRadio,
                         toRouter, known, linked>>
-----------------------------------------------------------------------------
(* The radio processes the first of its signals.                           *)
RadioTakes(types) ==
    /\ linked /\ IsOpen(radio)
    /\ toRadio /= <<>>
    /\ Head(toRadio).type \in types
    /\ Accepts(radio, Head(toRadio))
RadioKeeps == UNCHANGED <<l2, orphan, udp, router, syn, known, linked>>

(* _radio_process_peer_init                                                *)
RadioInit ==
    /\ RadioTakes({"INIT"})
    /\ radio' = Established
    /\ SendToRouter(<<Signal("INIT_ACK")>> \o Ups)
    /\ local' = [n \in Neigh |-> IF l2[n] = Absent THEN local[n] ELSE "UP_SENT"]
    /\ toRadio' = Tail(toRadio)
    /\ UNCHANGED changed
    /\ RadioKeeps

(* Mutant: metrics that changed before the ack are not sent.               *)
RadioUpAckForgets(n) ==
    /\ local' = [local EXCEPT ![n] = "UP_ACKED"]
    /\ changed' = changed \ {n}
    /\ UNCHANGED toRouter

(* _radio_process_destination_up_ack of a local neighbor                   *)
RadioUpAck(n) ==
    IF local[n] = "UP_SENT"
    THEN /\ local' = [local EXCEPT ![n] = "UP_ACKED"]
         /\ changed' = changed \ {n}
         /\ SendToRouter(IF n \in changed THEN DestOf("UPDATE", n) ELSE <<>>)
    ELSE UNCHANGED <<local, changed, toRouter>>

(* _radio_process_destination_down_ack of a local neighbor                 *)
RadioDownAck(n) ==
    /\ local' = IF local[n] = "DOWN_SENT" THEN [local EXCEPT ![n] = "NONE"] ELSE local
    /\ UNCHANGED <<changed, toRouter>>

(* The acks of the router.  The radio does not ask whether it still has    *)
(* the local neighbor: an ack after the ack timeout crashes it.            *)
RadioAck ==
    /\ RadioTakes({"UP_ACK", "DOWN_ACK"})
    /\ LET n == Head(toRadio).neigh
       IN  IF local[n] = "NONE"
           THEN RadioDies
           ELSE /\ IF Head(toRadio).type = "UP_ACK" THEN RadioUpAck(n) ELSE RadioDownAck(n)
                /\ toRadio' = Tail(toRadio)
                /\ UNCHANGED radio
                /\ RadioKeeps

(* dlep_base_proto_process_heartbeat, .._peer_termination                  *)
RadioHeartbeat ==
    /\ RadioTakes({"HEARTBEAT"})
    /\ radio' = [radio EXCEPT !.remote = TRUE]
    /\ toRadio' = Tail(toRadio)
    /\ UNCHANGED <<local, changed, toRouter>>
    /\ RadioKeeps
RadioTermination ==
    /\ RadioTakes({"TERM"})
    /\ SendToRouter(<<Signal("TERM_ACK")>>)
    /\ toRadio' = Tail(toRadio)
    /\ UNCHANGED <<radio, local, changed>>
    /\ RadioKeeps

(* .._peer_termination_ack, or a signal that is not accepted               *)
RadioDrops ==
    /\ linked /\ IsOpen(radio)
    /\ toRadio /= <<>>
    /\ Head(toRadio).type = "TERM_ACK" \/ ~Accepts(radio, Head(toRadio))
    /\ CloseRadio

RadioReceive ==
    RadioInit \/ RadioAck \/ RadioHeartbeat \/ RadioTermination \/ RadioDrops
-----------------------------------------------------------------------------
(* The router processes the first of its signals.                          *)
RouterTakes(types) ==
    /\ linked /\ IsOpen(router)
    /\ toRouter /= <<>>
    /\ Head(toRouter).type \in types
    /\ Accepts(router, Head(toRouter))
    /\ toRouter' = Tail(toRouter)
    /\ UNCHANGED <<l2, radioDb, udp, radio, syn, linked>>

(* _router_process_peer_init_ack                                           *)
RouterInitAck ==
    /\ RouterTakes({"INIT_ACK"})
    /\ router' = Established
    /\ UNCHANGED <<toRadio, known>>

(* _router_process_destination_up, .._update, .._down.  Of an update the   *)
(* metric extension adds a neighbor the base protocol does not know.       *)
RouterDestination ==
    /\ RouterTakes({"UP", "UPDATE", "DOWN"})
    /\ LET s == Head(toRouter)
       IN  /\ known' = [known EXCEPT ![s.neigh] = IF s.type = "DOWN" THEN Absent ELSE s.data]
           /\ SendToRadio(CASE s.type = "UP" -> <<Ack("UP_ACK", s.neigh)>>
                             [] s.type = "DOWN" /\ known[s.neigh] /= Absent ->
                                  <<Ack("DOWN_ACK", s.neigh)>>
                             [] OTHER -> <<>>)
    /\ UNCHANGED router

RouterHeartbeat ==
    /\ RouterTakes({"HEARTBEAT"})
    /\ router' = [router EXCEPT !.remote = TRUE]
    /\ UNCHANGED <<toRadio, known>>
RouterTermination ==
    /\ RouterTakes({"TERM"})
    /\ SendToRadio(<<Signal("TERM_ACK")>>)
    /\ UNCHANGED <<router, known>>
RouterDrops ==
    /\ linked /\ IsOpen(router)
    /\ toRouter /= <<>>
    /\ Head(toRouter).type = "TERM_ACK" \/ ~Accepts(router, Head(toRouter))
    /\ CloseRouter
    /\ UNCHANGED <<l2, radioDb, udp, radio, linked>>

RouterReceive ==
    RouterInitAck \/ RouterDestination \/ RouterHeartbeat \/ RouterTermination \/ RouterDrops
-----------------------------------------------------------------------------
(* _cb_remote_heartbeat with dlep_session_terminate, which does nothing    *)
(* for a session that is not established.                                  *)
Expired(session) ==
    [restrict |-> IF session.restrict = "ALL" THEN "TERM_ACK" ELSE session.restrict,
     remote |-> FALSE, heartbeat |-> FALSE]
Farewell(session) == IF session.restrict = "ALL" THEN <<Signal("TERM")>> ELSE <<>>

RadioHeartbeatTimeout ==
    /\ radio.remote
    /\ radio' = Expired(radio)
    /\ SendToRouter(Farewell(radio))
    /\ UNCHANGED <<l2, radioDb, udp, router, syn, toRadio, known, linked>>
RouterHeartbeatTimeout ==
    /\ router.remote
    /\ router' = Expired(router)
    /\ SendToRadio(Farewell(router))
    /\ UNCHANGED <<l2, radioDb, udp, radio, syn, toRouter, known, linked>>

(* _cb_local_heartbeat *)
RadioSendsHeartbeat ==
    /\ radio.heartbeat /\ RoomLeft
    /\ SendToRouter(<<Signal("HEARTBEAT")>>)
    /\ UNCHANGED <<l2, radioDb, udp, radio, router, syn, toRadio, known, linked>>
RouterSendsHeartbeat ==
    /\ router.heartbeat /\ RoomLeft
    /\ SendToRadio(<<Signal("HEARTBEAT")>>)
    /\ UNCHANGED <<l2, radioDb, udp, radio, router, syn, toRouter, known, linked>>

(* oonf_stream_socket.c closes a connection with an error, or after 120    *)
(* seconds in which nothing was sent or received: the other end is gone,   *)
(* the network is, or this end does not send heartbeats.                   *)
Breaks(session, peer) ==
    IsOpen(session) /\ (~IsOpen(peer) \/ ~linked \/ ~session.heartbeat)

(* Mutant: the connections a router opens have no timeout.                 *)
RouterStreamTimeoutNever ==
    /\ Breaks(router, radio) /\ ~linked
    /\ CloseRouter
    /\ UNCHANGED <<l2, radioDb, udp, radio, linked>>

RouterStreamTimeout ==
    /\ Breaks(router, radio)
    /\ CloseRouter
    /\ UNCHANGED <<l2, radioDb, udp, radio, linked>>
RadioStreamTimeout ==
    /\ Breaks(radio, router)
    /\ CloseRadio

LinkChanges ==
    /\ linked' = ~linked
    /\ UNCHANGED <<l2, radioDb, udp, radio, router, syn, toRadio, toRouter, known>>
-----------------------------------------------------------------------------
Init ==
    /\ l2 = Nobody
    /\ local = [n \in Neigh |-> "NONE"] /\ changed = {} /\ orphan = {}
    /\ stray = FALSE /\ locked = FALSE
    /\ radio = Closed /\ router = Closed
    /\ syn = FALSE
    /\ toRadio = <<>> /\ toRouter = <<>>
    /\ known = Nobody
    /\ linked = TRUE

L2Event(n) ==
    \/ \E data \in Data : L2Set(n, data)
    \/ L2Remove(n)
    \/ AckTimeout(n)
    \/ OrphanTimeout(n)
Timer ==
    \/ RadioHeartbeatTimeout \/ RouterHeartbeatTimeout
    \/ RadioSendsHeartbeat \/ RouterSendsHeartbeat
    \/ RadioStreamTimeout \/ RouterStreamTimeout

Next ==
    \/ Discover \/ OfferLost \/ Accept
    \/ \E n \in Neigh : L2Event(n)
    \/ RadioReceive \/ RouterReceive
    \/ Timer
    \/ LinkChanges
    \/ RadioDies \/ RouterRestart

Spec == Init /\ [][Next]_vars

(* The scheduler serves a socket that is readable; every stream has its    *)
(* timeout (session_timeout).                                              *)
FairSpec ==
    /\ Spec
    /\ WF_vars(RadioReceive) /\ WF_vars(RouterReceive)
    /\ WF_vars(RadioStreamTimeout) /\ WF_vars(RouterStreamTimeout)
-----------------------------------------------------------------------------
Signals ==
    [type : {"INIT", "INIT_ACK", "HEARTBEAT", "TERM", "TERM_ACK"}]
      \cup [type : {"UP", "UPDATE"}, neigh : Neigh, data : Data]
      \cup [type : {"UP_ACK", "DOWN_ACK", "DOWN"}, neigh : Neigh]

(* The types of the databases, the sessions and the signals.               *)
TypeOK ==
    /\ l2 \in [Neigh -> {Absent} \cup Data] /\ known \in [Neigh -> {Absent} \cup Data]
    /\ local \in [Neigh -> {"NONE", "UP_SENT", "UP_ACKED", "DOWN_SENT"}]
    /\ changed \subseteq Neigh /\ orphan \subseteq Neigh
    /\ stray \in BOOLEAN /\ locked \in BOOLEAN /\ syn \in BOOLEAN /\ linked \in BOOLEAN
    /\ radio \in Session /\ router \in Session
    /\ toRadio \in Seq(Signals) /\ toRouter \in Seq(Signals)

(* The handshake: a router takes the signals of a session only from a      *)
(* radio that has processed its PEER_INITIALIZATION, and while it waits    *)
(* for the answer of such a radio, the answer is on its way.               *)
Connected == IsOpen(radio) /\ IsOpen(router) /\ ~syn
Initialized(session) == session.restrict \in {"ALL", "TERM_ACK"}
HandshakeFirst ==
    Connected =>
      /\ Initialized(router) => Initialized(radio)
      /\ Initialized(radio) /\ ~Initialized(router) =>
            \E i \in DOMAIN toRouter : toRouter[i] = Signal("INIT_ACK")

(* What the router knows comes from the session it has: nothing of an      *)
(* earlier session, or of a radio that is gone, stays in its layer-2       *)
(* database.                                                               *)
KnownInSession == ~Initialized(router) => known = Nobody

(* Radio and router agree on their session: the phases of the handshake,   *)
(* and whose neighbors the layer-2 database of the router holds.           *)
SessionAgreement == HandshakeFirst /\ KnownInSession

(* No metrics are lost: in an established session without signals in       *)
(* flight the router knows the metrics of every neighbor of the radio.     *)
InSync ==
    /\ radio.restrict = "ALL" /\ router.restrict = "ALL"
    /\ toRadio = <<>> /\ toRouter = <<>>
NothingLost ==
    InSync => \A n \in Neigh : l2[n] /= Absent => known[n] = l2[n]

(* A session whose peer was not heard in time does not hang: it ends, or,  *)
(* when the radio was still waiting, the handshake completes after all.    *)
Overdue(session) == IsOpen(session) /\ ~session.remote
SessionsResolve == /\ Overdue(radio) ~> ~Overdue(radio)
                   /\ Overdue(router) ~> ~Overdue(router)

(* dlep_iana.h:132 of DLEP_DESTINATION_DOWN: "Radio announces a lost       *)
(* neighbor".  In an established session without signals in flight the     *)
(* router knows only neighbors the radio has.                              *)
LostAnnounced ==
    InSync => \A n \in Neigh : known[n] /= Absent => l2[n] /= Absent
=============================================================================
