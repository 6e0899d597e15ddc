----------------------------- MODULE DlepProofs -----------------------------
(***************************************************************************)
(* For any neighbors and metrics of a radio, and however connections, the  *)
(* network, timers and processes fail: radio and router agree on their     *)
(* session, and no metrics are lost.                                       *)
(*                                                                         *)
(* The agreement (Inv) is not inductive: a router is initialized by a      *)
(* PEER_INITIALIZATION_ACK alone, so the invariant says where such a       *)
(* signal can be, and that a connection has no signals of an earlier one.  *)
(* Nor is NothingLost, which speaks of empty queues: DeliveryInv says for  *)
(* every neighbor what the router will know when it has read its queue,    *)
(* and which ack the radio still waits for to send the metrics.            *)
(***************************************************************************)
EXTENDS Dlep, FiniteSetTheorems, TLAPS

(* Is there a PEER_INITIALIZATION_ACK among the signals of q?              *)
HasInitAck(q) == \E i \in DOMAIN q : q[i].type = "INIT_ACK"

(* What a session that is closed, or a connection that is not accepted,    *)
(* has left behind.                                                        *)
Fresh ==
    /\ radio.restrict /= "INIT_ACK" /\ router.restrict /= "INIT"
    /\ ~IsOpen(radio) => radio = Closed
    /\ ~IsOpen(router) => router = Closed /\ ~syn /\ toRouter = <<>>
    /\ syn => radio = Closed /\ router.restrict = "INIT_ACK" /\ toRouter = <<>>

(* The order of the handshake, seen from the radio.                        *)
Handshake ==
    IsOpen(radio) /\ IsOpen(router) =>
      /\ ~Initialized(radio) => ~Initialized(router) /\ ~HasInitAck(toRouter)
      /\ Initialized(radio) /\ ~Initialized(router) => HasInitAck(toRouter)

Inv == TypeOK /\ Fresh /\ Handshake /\ KnownInSession
-----------------------------------------------------------------------------
(* Signals added to a queue, and the first of it removed.                  *)
LEMMA InitAckAppended ==
    ASSUME NEW S, NEW q \in Seq(S), NEW s \in Seq(S)
    PROVE  HasInitAck(q \o s) <=> HasInitAck(q) \/ HasInitAck(s)
<1>1. ASSUME HasInitAck(q \o s)
      PROVE  HasInitAck(q) \/ HasInitAck(s)
  <2>1. PICK i \in 1 .. (Len(q) + Len(s)) : (q \o s)[i].type = "INIT_ACK"
    BY <1>1 DEF HasInitAck
  <2>2. CASE i <= Len(q)
    BY <2>1, <2>2 DEF HasInitAck
  <2>3. CASE i > Len(q)
    <3>1. i - Len(q) \in 1 .. Len(s) /\ (q \o s)[i] = s[i - Len(q)]
      BY <2>1, <2>3
    <3>2. QED
      BY <2>1, <3>1 DEF HasInitAck
  <2>4. QED
    BY <2>1, <2>2, <2>3
<1>2. ASSUME NEW i \in 1 .. Len(q), q[i].type = "INIT_ACK"
      PROVE  HasInitAck(q \o s)
  BY <1>2 DEF HasInitAck
<1>3. ASSUME NEW i \in 1 .. Len(s), s[i].type = "INIT_ACK"
      PROVE  HasInitAck(q \o s)
  <2>1. Len(q) + i \in 1 .. (Len(q) + Len(s)) /\ (q \o s)[Len(q) + i] = s[i]
    OBVIOUS
  <2>2. QED
    BY <1>3, <2>1 DEF HasInitAck
<1>4. QED
  BY <1>1, <1>2, <1>3 DEF HasInitAck

(* Taking the first signal of a queue away takes no other INIT_ACK away.   *)
LEMMA InitAckTail ==
    ASSUME NEW S, NEW q \in Seq(S), q /= <<>>
    PROVE  /\ HasInitAck(q) <=> Head(q).type = "INIT_ACK" \/ HasInitAck(Tail(q))
           /\ Head(q) \in S /\ Tail(q) \in Seq(S)
<1>1. ASSUME NEW i \in 1 .. Len(q), q[i].type = "INIT_ACK", i /= 1
      PROVE  HasInitAck(Tail(q))
  <2> DEFINE j == i - 1
  <2>1. j \in 1 .. Len(Tail(q)) /\ Tail(q)[j] = q[i]
    BY <1>1
  <2>2. Tail(q) \in Seq(S)
    OBVIOUS
  <2>3. j \in DOMAIN Tail(q)
    BY <2>1, <2>2
  <2> HIDE DEF j
  <2>4. QED
    BY <1>1, <2>1, <2>3 DEF HasInitAck
<1>2. ASSUME NEW i \in 1 .. Len(Tail(q)), Tail(q)[i].type = "INIT_ACK"
      PROVE  HasInitAck(q)
  <2>1. i + 1 \in 1 .. Len(q) /\ Tail(q)[i] = q[i + 1]
    OBVIOUS
  <2>2. QED
    BY <1>2, <2>1 DEF HasInitAck
<1>3. Head(q).type = "INIT_ACK" => HasInitAck(q)
  BY DEF HasInitAck
<1>4. HasInitAck(q) => Head(q).type = "INIT_ACK" \/ HasInitAck(Tail(q))
  BY <1>1 DEF HasInitAck
<1>5. HasInitAck(Tail(q)) => HasInitAck(q)
  BY <1>2 DEF HasInitAck
<1>6. Head(q) \in S /\ Tail(q) \in Seq(S)
  OBVIOUS
<1>7. QED
  BY <1>3, <1>4, <1>5, <1>6

(* Which of the shortest queues hold an INIT_ACK.                          *)
LEMMA InitAckShort ==
    /\ ~HasInitAck(<<>>)
    /\ \A s : HasInitAck(<<s>>) <=> s.type = "INIT_ACK"
BY DEF HasInitAck

(* The signals have their types.                                           *)
LEMMA SignalTypes ==
    /\ \A t \in {"INIT", "INIT_ACK", "HEARTBEAT", "TERM", "TERM_ACK"} :
         Signal(t) \in Signals /\ Signal(t).type = t
    /\ \A t \in {"UP", "UPDATE"}, n \in Neigh, v \in Data :
         Dest(t, n, v) \in Signals /\ Dest(t, n, v).type = t
    /\ \A t \in {"UP_ACK", "DOWN_ACK", "DOWN"}, n \in Neigh :
         Ack(t, n) \in Signals /\ Ack(t, n).type = t
BY DEF Signal, Dest, Ack, Signals

(* The DESTINATION_UPs of a new session.                                   *)
LEMMA UpsType ==
    ASSUME TypeOK
    PROVE  Ups \in Seq(Signals) /\ ~HasInitAck(Ups)
<1> DEFINE P == {n \in Neigh : l2[n] /= Absent}
           present == SetToSeq(P)
<1>1. IsFiniteSet(P)
  BY ConstantsAssumption, FS_Subset
<1>2. \E f \in [1 .. Cardinality(P) -> P] : IsInjective(f)
  BY <1>1, FS_CardinalityType DEF ExistsBijection, Bijection, Injection, IsInjective
<1>3. present \in [1 .. Cardinality(P) -> P] /\ Cardinality(P) \in Nat
  BY <1>1, <1>2, FS_CardinalityType DEF SetToSeq
<1>4. \A i \in 1 .. Cardinality(P) : /\ Dest("UP", present[i], l2[present[i]]) \in Signals
                                    /\ Dest("UP", present[i], l2[present[i]]).type = "UP"
  BY <1>3, SignalTypes DEF TypeOK
<1>5. Ups = [i \in 1 .. Cardinality(P) |-> Dest("UP", present[i], l2[present[i]])]
  BY <1>3 DEF Ups
<1> HIDE DEF present, P
<1>6. Ups \in Seq(Signals)
  BY <1>3, <1>4, <1>5
<1>7. QED
  BY <1>3, <1>4, <1>5, <1>6 DEF HasInitAck

(* What an end generates goes to the other end, or nowhere.                *)
LEMMA SendToRouterKeeps ==
    ASSUME TypeOK, Fresh, NEW q \in Seq(Signals), SendToRouter(q)
    PROVE  /\ toRouter' \in Seq(Signals)
           /\ IsOpen(router) => (HasInitAck(toRouter') <=> HasInitAck(toRouter) \/ HasInitAck(q))
           /\ ~IsOpen(router) => toRouter' = <<>>
<1>1. CASE IsOpen(router)
  BY <1>1, InitAckAppended DEF SendToRouter, TypeOK
<1>2. CASE ~IsOpen(router)
  BY <1>2 DEF SendToRouter
<1>3. QED
  BY <1>1, <1>2

(* What the router sends keeps the queue a sequence of signals.            *)
LEMMA SendToRadioType ==
    ASSUME TypeOK, NEW q \in Seq(Signals), SendToRadio(q)
    PROVE  toRadio' \in Seq(Signals)
BY DEF SendToRadio, TypeOK

(* What does not open, close or initialize an end, and neither adds nor    *)
(* removes a PEER_INITIALIZATION_ACK, keeps the session as it is.          *)
SameRadio ==
    \/ radio' = radio
    \/ /\ IsOpen(radio) /\ IsOpen(radio)' /\ radio'.restrict /= "INIT_ACK"
       /\ Initialized(radio)' <=> Initialized(radio)
SameRouter ==
    \/ router' = router
    \/ /\ IsOpen(router) /\ IsOpen(router)' /\ router'.restrict /= "INIT"
       /\ Initialized(router)' <=> Initialized(router)
       /\ syn => router'.restrict = "INIT_ACK"
SameInitAck ==
    \/ toRouter' = toRouter
    \/ /\ ~syn
       /\ IsOpen(router) => (HasInitAck(toRouter)' <=> HasInitAck(toRouter))
       /\ ~IsOpen(router) => toRouter' = <<>>

(* A step that changes neither session's state keeps what binds them.      *)
LEMMA SameSessions ==
    ASSUME Fresh, Handshake, KnownInSession, SameRadio, SameRouter, SameInitAck,
           syn' = syn, known' = known \/ Initialized(router)
    PROVE  Fresh' /\ Handshake' /\ KnownInSession'
<1>1. IsOpen(radio)' <=> IsOpen(radio)
  BY DEF SameRadio, IsOpen
<1>2. IsOpen(router)' <=> IsOpen(router)
  BY DEF SameRouter, IsOpen
<1>3. /\ Initialized(radio)' <=> Initialized(radio)
      /\ Initialized(router)' <=> Initialized(router)
  BY DEF SameRadio, SameRouter, Initialized
<1>4. Fresh'
  <2>1. radio'.restrict /= "INIT_ACK" /\ (~IsOpen(radio)' => radio' = Closed)
    BY <1>1 DEF SameRadio, Fresh
  <2>2. router'.restrict /= "INIT"
    BY DEF SameRouter, Fresh
  <2>3. ~IsOpen(router)' => router' = Closed /\ ~syn' /\ toRouter' = <<>>
    BY <1>2 DEF SameRouter, SameInitAck, Fresh
  <2>4. syn' => radio' = Closed /\ router'.restrict = "INIT_ACK" /\ toRouter' = <<>>
    BY <1>1 DEF SameRadio, SameRouter, SameInitAck, Fresh, Closed, IsOpen
  <2>5. QED
    BY <2>1, <2>2, <2>3, <2>4 DEF Fresh
<1>5. Handshake'
  <2>1. IsOpen(router) => (HasInitAck(toRouter)' <=> HasInitAck(toRouter))
    BY DEF SameInitAck, HasInitAck
  <2>2. QED
    BY <1>1, <1>2, <1>3, <2>1 DEF Handshake
<1>6. KnownInSession'
  BY <1>3 DEF KnownInSession, Nobody
<1>7. QED
  BY <1>4, <1>5, <1>6

(* Signals of an open radio other than a PEER_INITIALIZATION_ACK.          *)
LEMMA SendToRouterSame ==
    ASSUME TypeOK, Fresh, NEW q \in Seq(Signals), ~HasInitAck(q), IsOpen(radio), SendToRouter(q)
    PROVE  toRouter' \in Seq(Signals) /\ SameInitAck
<1>1. ~syn
  BY DEF Fresh, Closed, IsOpen
<1>2. QED
  BY <1>1, SendToRouterKeeps DEF SameInitAck

(* The ends of a session.                                                  *)
LEMMA ClosedType ==
    /\ Closed \in Session /\ ~IsOpen(Closed) /\ ~Initialized(Closed)
    /\ ~Closed.remote /\ ~Closed.heartbeat
    /\ Established \in Session /\ IsOpen(Established) /\ Initialized(Established)
    /\ Established.restrict = "ALL"
    /\ \A t \in {"INIT", "INIT_ACK"} : /\ Open(t) \in Session /\ IsOpen(Open(t))
                                      /\ ~Initialized(Open(t)) /\ Open(t).restrict = t
BY DEF Closed, Established, Open, Session, IsOpen, Initialized

(* The empty database of the router is one.                                *)
LEMMA NobodyType == Nobody \in [Neigh -> {Absent} \cup Data]
BY DEF Nobody

(* The radio closes its session.                                           *)
LEMMA CloseRadioKeeps ==
    ASSUME Inv, IsOpen(radio), CloseRadio
    PROVE  Inv'
<1>1. ~syn
  BY DEF Inv, Fresh, Closed, IsOpen
<1>2. TypeOK'
  BY ClosedType DEF Inv, TypeOK, CloseRadio, ForgetLocals, udp
<1>3. Fresh'
  BY <1>1, ClosedType DEF Inv, Fresh, CloseRadio, Closed, IsOpen
<1>4. Handshake' /\ KnownInSession'
  BY ClosedType DEF Inv, Handshake, KnownInSession, CloseRadio
<1>5. QED
  BY <1>2, <1>3, <1>4 DEF Inv

(* The router closes its session and drops what it learned in it.          *)
LEMMA CloseRouterKeeps ==
    ASSUME Inv, CloseRouter, UNCHANGED <<l2, radioDb, stray, radio, linked>>,
           locked' \in BOOLEAN
    PROVE  Inv'
<1>1. toRadio' \in Seq(Signals)
  BY DEF Inv, TypeOK, CloseRouter
<1>2. TypeOK'
  <2>1. toRouter' \in Seq(Signals) /\ router' \in Session /\ known' \in [Neigh -> {Absent} \cup Data]
    BY ClosedType, NobodyType DEF CloseRouter, NetRemove
  <2>2. syn' \in BOOLEAN
    BY DEF CloseRouter
  <2>3. UNCHANGED <<l2, local, changed, orphan, stray, radio, linked>>
    BY DEF radioDb
  <2>4. QED
    BY <1>1, <2>1, <2>2, <2>3 DEF Inv, TypeOK
<1>3. Fresh'
  BY ClosedType DEF Inv, Fresh, CloseRouter, Closed, IsOpen
<1>4. Handshake' /\ KnownInSession'
  BY ClosedType DEF Inv, Handshake, KnownInSession, CloseRouter, NetRemove
<1>5. QED
  BY <1>2, <1>3, <1>4 DEF Inv

(* The radio dies: its session and its databases are gone.                 *)
LEMMA RadioDiesKeeps ==
    ASSUME Inv, RadioDies
    PROVE  Inv'
<1>1. TypeOK'
  <2>1. toRadio' \in Seq(Signals) /\ radio' \in Session /\ l2' \in [Neigh -> {Absent} \cup Data]
    BY ClosedType, NobodyType DEF RadioDies
  <2>2. UNCHANGED <<locked, router, toRouter, known, linked>>
    BY DEF RadioDies
  <2>3. /\ local' \in [Neigh -> {"NONE", "UP_SENT", "UP_ACKED", "DOWN_SENT"}]
        /\ changed' \subseteq Neigh /\ orphan' \subseteq Neigh
        /\ stray' \in BOOLEAN /\ syn' \in BOOLEAN
    BY DEF RadioDies
  <2>4. QED
    BY <2>1, <2>2, <2>3 DEF Inv, TypeOK
<1>2. Fresh'
  BY ClosedType DEF Inv, Fresh, RadioDies, Closed, IsOpen
<1>3. Handshake' /\ KnownInSession'
  BY ClosedType DEF Inv, Handshake, KnownInSession, RadioDies
<1>4. QED
  BY <1>1, <1>2, <1>3 DEF Inv
-----------------------------------------------------------------------------
(* Nothing happens to the ends of the session.                             *)
LEMMA QuietKeeps ==
    ASSUME Inv, TypeOK', SameInitAck, UNCHANGED <<radio, router, syn, known>>
    PROVE  Inv'
<1>1. SameRadio /\ SameRouter
  BY DEF SameRadio, SameRouter
<1>2. QED
  BY <1>1, SameSessions DEF Inv

(* Discovery opens the router's session and connects.                      *)
LEMMA DiscoverKeeps ==
    ASSUME Inv, Discover
    PROVE  Inv'
<1>1. toRouter = <<>> /\ radio = Closed /\ known = Nobody /\ ~syn /\ router = Closed
  BY ClosedType DEF Inv, Discover, Fresh, KnownInSession
<1>2. CASE stray
  <2>1. UNCHANGED <<l2, radioDb, radio, router, syn, toRadio, toRouter, known, linked>>
        /\ stray' = FALSE /\ locked' = TRUE
    BY <1>2 DEF Discover
  <2>2. TypeOK'
    BY <2>1 DEF Inv, TypeOK, radioDb
  <2>3. QED
    BY <2>1, <2>2, QuietKeeps DEF SameInitAck
<1>3. CASE ~stray
  <2>1. /\ router' = Open("INIT_ACK") /\ syn' = TRUE /\ toRadio' = <<Signal("INIT")>>
        /\ stray' = FALSE
        /\ UNCHANGED <<l2, radioDb, locked, radio, toRouter, known, linked>>
    BY <1>3 DEF Discover
  <2>2. toRadio' \in Seq(Signals)
    BY <2>1, SignalTypes
  <2>3. TypeOK'
    BY <2>1, <2>2, ClosedType DEF Inv, TypeOK, radioDb
  <2>4. Fresh'
    BY <1>1, <2>1, ClosedType DEF Fresh, Closed
  <2>5. Handshake' /\ KnownInSession'
    BY <1>1, <2>1, ClosedType DEF Handshake, KnownInSession, Nobody
  <2>6. QED
    BY <2>3, <2>4, <2>5 DEF Inv
<1>4. QED
  BY <1>2, <1>3

(* The radio accepts the connection that waits.                            *)
LEMMA AcceptKeeps ==
    ASSUME Inv, Accept
    PROVE  Inv'
<1>1. toRouter = <<>> /\ router.restrict = "INIT_ACK" /\ known = Nobody
  BY DEF Inv, Accept, Fresh, KnownInSession, Initialized
<1>2. /\ radio' = Open("INIT") /\ syn' = FALSE
      /\ UNCHANGED <<l2, radioDb, udp, router, toRadio, toRouter, known, linked>>
  BY DEF Accept
<1>3. TypeOK'
  BY <1>2, ClosedType DEF Inv, TypeOK, radioDb, udp
<1>4. Fresh'
  BY <1>1, <1>2, ClosedType DEF Fresh, IsOpen
<1>5. Handshake' /\ KnownInSession'
  BY <1>1, <1>2, ClosedType, InitAckShort DEF Handshake, KnownInSession, Initialized, Nobody
<1>6. QED
  BY <1>3, <1>4, <1>5 DEF Inv
-----------------------------------------------------------------------------
(* The radio: signals about neighbors, whatever the state of the session.  *)
LEMMA ShortQueues ==
    /\ <<>> \in Seq(Signals) /\ ~HasInitAck(<<>>)
    /\ \A s \in Signals : /\ <<s>> \in Seq(Signals)
                         /\ s.type /= "INIT_ACK" => ~HasInitAck(<<s>>)
BY InitAckShort

(* A neighbor of the radio comes, changes or goes.                         *)
LEMMA L2SetKeeps ==
    ASSUME Inv, NEW n \in Neigh, NEW data \in Data, L2Set(n, data)
    PROVE  Inv'
<1>1. /\ TypeOK /\ Fresh
      /\ l2' = [l2 EXCEPT ![n] = data] /\ stray' = (stray \/ (l2[n] = Absent /\ IsOpen(radio)))
      /\ IF IsOpen(radio) THEN NeighChanged(n, data) ELSE UNCHANGED <<local, changed, toRouter>>
      /\ UNCHANGED <<orphan, locked, radio, router, syn, toRadio, known, linked>>
  BY DEF Inv, L2Set
<1>2. l2' \in [Neigh -> {Absent} \cup Data] /\ stray' \in BOOLEAN
  BY <1>1 DEF TypeOK
<1>3. /\ local' \in [Neigh -> {"NONE", "UP_SENT", "UP_ACKED", "DOWN_SENT"}]
      /\ changed' \subseteq Neigh
      /\ toRouter' \in Seq(Signals) /\ SameInitAck
  <2>1. CASE ~IsOpen(radio)
    BY <1>1, <2>1 DEF TypeOK, SameInitAck
  <2>2. CASE IsOpen(radio) /\ local[n] = "UP_SENT"
    <3>1. UNCHANGED <<local, toRouter>> /\ changed' = changed \cup {n}
      BY <1>1, <2>2 DEF NeighChanged
    <3>2. QED
      BY <1>1, <3>1 DEF TypeOK, SameInitAck
  <2>3. CASE IsOpen(radio) /\ local[n] = "UP_ACKED"
    <3>1. /\ SendToRouter(<<Dest("UPDATE", n, data)>>)
          /\ changed' = changed \ {n} /\ UNCHANGED local
      BY <1>1, <2>3 DEF NeighChanged
    <3>2. <<Dest("UPDATE", n, data)>> \in Seq(Signals) /\ ~HasInitAck(<<Dest("UPDATE", n, data)>>)
      BY SignalTypes, ShortQueues
    <3>3. QED
      BY <1>1, <2>3, <3>1, <3>2, SendToRouterSame DEF TypeOK
  <2>4. CASE IsOpen(radio) /\ local[n] \notin {"UP_SENT", "UP_ACKED"}
    <3>1. /\ SendToRouter(<<Dest("UP", n, data)>>)
          /\ changed' = changed \ {n} /\ local' = [local EXCEPT ![n] = "UP_SENT"]
      BY <1>1, <2>4 DEF NeighChanged
    <3>2. <<Dest("UP", n, data)>> \in Seq(Signals) /\ ~HasInitAck(<<Dest("UP", n, data)>>)
      BY SignalTypes, ShortQueues
    <3>3. toRouter' \in Seq(Signals) /\ SameInitAck
      BY <1>1, <2>4, <3>1, <3>2, SendToRouterSame
    <3>4. QED
      BY <1>1, <3>1, <3>3 DEF TypeOK
  <2>5. QED
    BY <2>1, <2>2, <2>3, <2>4
<1>4. TypeOK'
  BY <1>1, <1>2, <1>3 DEF TypeOK
<1>5. QED
  BY <1>1, <1>3, <1>4, QuietKeeps

(* The radio announces the change of a neighbor in its session.            *)
LEMMA L2EventKeeps ==
    ASSUME Inv, NEW n \in Neigh, L2Event(n)
    PROVE  Inv'
<1>1. ASSUME NEW data \in Data, L2Set(n, data)
      PROVE  Inv'
  BY <1>1, L2SetKeeps
<1>2. CASE L2Remove(n)
  <2>1. /\ l2' = [l2 EXCEPT ![n] = Absent] /\ UNCHANGED <<local, toRouter>>
        /\ UNCHANGED <<changed, orphan, udp, radio, router, syn, toRadio, known, linked>>
    BY <1>2 DEF L2Remove, NeighAddrUnset
  <2>2. TypeOK'
    BY <2>1 DEF Inv, TypeOK, udp
  <2>3. QED
    BY <2>1, <2>2, QuietKeeps DEF SameInitAck
<1>3. CASE AckTimeout(n)
  <2>1. /\ local' = [local EXCEPT ![n] = "NONE"] /\ changed' = changed \ {n}
        /\ UNCHANGED <<l2, orphan, udp, radio, router, syn, toRadio, toRouter, known, linked>>
    BY <1>3 DEF AckTimeout
  <2>2. TypeOK'
    BY <2>1 DEF Inv, TypeOK, udp
  <2>3. QED
    BY <2>1, <2>2, QuietKeeps DEF SameInitAck
<1>4. CASE OrphanTimeout(n)
  <2>1. CASE RadioDies
    BY <2>1, RadioDiesKeeps
  <2>2. CASE /\ orphan' = orphan \ {n}
             /\ UNCHANGED <<l2, local, changed, udp, radio, router, syn, toRadio,
                            toRouter, known, linked>>
    <3>1. TypeOK'
      BY <2>2 DEF Inv, TypeOK, udp
    <3>2. QED
      BY <2>2, <3>1, QuietKeeps DEF SameInitAck
  <2>3. QED
    BY <1>4, <2>1, <2>2 DEF OrphanTimeout
<1>5. QED
  BY <1>1, <1>2, <1>3, <1>4 DEF L2Event

(* What the radio takes from its queue.                                    *)
LEMMA RadioTakesValue ==
    ASSUME Inv, NEW types, RadioTakes(types)
    PROVE  /\ IsOpen(radio) /\ Head(toRadio) \in Signals /\ Tail(toRadio) \in Seq(Signals)
           /\ Head(toRadio).type \in types /\ radio.restrict \in {"ALL", Head(toRadio).type}
BY InitAckTail DEF Inv, TypeOK, RadioTakes, Accepts

(* PEER_INITIALIZATION initializes the radio, which queues the ACK.        *)
LEMMA RadioInitKeeps ==
    ASSUME Inv, RadioInit
    PROVE  Inv'
<1> DEFINE q == <<Signal("INIT_ACK")>> \o Ups
<1>1. /\ TypeOK /\ Fresh /\ KnownInSession
      /\ radio' = Established /\ SendToRouter(q)
      /\ local' = [n \in Neigh |-> IF l2[n] = Absent THEN local[n] ELSE "UP_SENT"]
      /\ toRadio' = Tail(toRadio)
      /\ UNCHANGED <<changed, l2, orphan, udp, router, syn, known, linked>>
  BY DEF Inv, RadioInit, RadioKeeps
<1>2. IsOpen(radio) /\ Tail(toRadio) \in Seq(Signals)
  BY RadioTakesValue DEF RadioInit
<1>3. q \in Seq(Signals) /\ HasInitAck(q)
  <2>1. Ups \in Seq(Signals) /\ <<Signal("INIT_ACK")>> \in Seq(Signals)
        /\ HasInitAck(<<Signal("INIT_ACK")>>)
    BY <1>1, UpsType, SignalTypes, InitAckShort
  <2>2. HasInitAck(q)
    BY <2>1, InitAckAppended
  <2>3. QED
    BY <2>1, <2>2
<1> HIDE DEF q
<1>4. ~syn
  BY <1>1, <1>2, ClosedType DEF Fresh
<1>5. /\ toRouter' \in Seq(Signals)
      /\ IsOpen(router) => HasInitAck(toRouter')
      /\ ~IsOpen(router) => toRouter' = <<>>
  BY <1>1, <1>3, SendToRouterKeeps
<1>6. TypeOK'
  <2>1. local' \in [Neigh -> {"NONE", "UP_SENT", "UP_ACKED", "DOWN_SENT"}]
    BY <1>1 DEF TypeOK
  <2>2. QED
    BY <1>1, <1>2, <1>5, <2>1, ClosedType DEF TypeOK, udp
<1>7. Fresh'
  BY <1>1, <1>4, <1>5, ClosedType DEF Fresh, IsOpen
<1>8. Handshake' /\ KnownInSession'
  BY <1>1, <1>5, ClosedType DEF Handshake, KnownInSession, HasInitAck, IsOpen, Initialized, Nobody
<1>9. QED
  BY <1>6, <1>7, <1>8 DEF Inv

(* The router's acknowledgment of a destination reaches the radio.         *)
LEMMA RadioAckKeeps ==
    ASSUME Inv, RadioAck
    PROVE  Inv'
<1> DEFINE n == Head(toRadio).neigh
<1>1. /\ IsOpen(radio) /\ Head(toRadio) \in Signals /\ Tail(toRadio) \in Seq(Signals)
      /\ Head(toRadio).type \in {"UP_ACK", "DOWN_ACK"}
  BY RadioTakesValue DEF RadioAck
<1>2. n \in Neigh
  BY <1>1 DEF Signals
<1> HIDE DEF n
<1>3. TypeOK /\ Fresh
  BY DEF Inv
<1>4. CASE local[n] = "NONE"
  BY <1>4, RadioDiesKeeps DEF RadioAck, n
<1>5. CASE local[n] /= "NONE"
  <2>1. /\ RadioUpAck(n) \/ RadioDownAck(n)
        /\ toRadio' = Tail(toRadio)
        /\ UNCHANGED <<radio, l2, orphan, udp, router, syn, known, linked>>
    BY <1>5 DEF RadioAck, RadioKeeps, n
  <2>2. /\ local' \in [Neigh -> {"NONE", "UP_SENT", "UP_ACKED", "DOWN_SENT"}]
        /\ changed' \subseteq Neigh
        /\ toRouter' \in Seq(Signals) /\ SameInitAck
    <3>1. CASE UNCHANGED <<local, changed, toRouter>>
      BY <1>3, <3>1 DEF TypeOK, SameInitAck
    <3>2. CASE RadioDownAck(n)
      BY <1>3, <3>2 DEF TypeOK, SameInitAck, RadioDownAck
    <3>3. CASE RadioUpAck(n) /\ local[n] = "UP_SENT"
      <4> DEFINE q == IF n \in changed THEN DestOf("UPDATE", n) ELSE <<>>
      <4>1. /\ local' = [local EXCEPT ![n] = "UP_ACKED"] /\ changed' = changed \ {n}
            /\ SendToRouter(q)
        BY <3>3 DEF RadioUpAck
      <4>2. DestOf("UPDATE", n) \in Seq(Signals) /\ ~HasInitAck(DestOf("UPDATE", n))
        <5>1. CASE l2[n] = Absent
          BY <5>1, ShortQueues DEF DestOf
        <5>2. CASE l2[n] /= Absent
          <6>1. l2[n] \in Data
            BY <1>2, <1>3, <5>2 DEF TypeOK
          <6>2. Dest("UPDATE", n, l2[n]) \in Signals /\ Dest("UPDATE", n, l2[n]).type = "UPDATE"
            BY <1>2, <6>1, SignalTypes
          <6>3. QED
            BY <5>2, <6>2, ShortQueues DEF DestOf
        <5>3. QED
          BY <5>1, <5>2
      <4>3. q \in Seq(Signals) /\ ~HasInitAck(q)
        BY <4>2, ShortQueues
      <4> HIDE DEF q
      <4>4. toRouter' \in Seq(Signals) /\ SameInitAck
        BY <1>1, <1>3, <4>1, <4>3, SendToRouterSame
      <4>5. QED
        BY <1>3, <4>1, <4>4 DEF TypeOK
    <3>4. QED
      BY <2>1, <3>1, <3>2, <3>3 DEF RadioUpAck
  <2>3. TypeOK'
    BY <1>1, <1>3, <2>1, <2>2 DEF TypeOK, udp
  <2>4. QED
    BY <2>1, <2>2, <2>3, QuietKeeps
<1>6. QED
  BY <1>4, <1>5

(* Every signal the radio reads keeps the invariant.                       *)
LEMMA RadioReceiveKeeps ==
    ASSUME Inv, RadioReceive
    PROVE  Inv'
<1>1. CASE RadioInit
  BY <1>1, RadioInitKeeps
<1>2. CASE RadioAck
  BY <1>2, RadioAckKeeps
<1>3. CASE RadioHeartbeat
  <2>1. /\ radio' = [radio EXCEPT !.remote = TRUE] /\ toRadio' = Tail(toRadio)
        /\ UNCHANGED <<local, changed, toRouter, l2, orphan, udp, router, syn, known, linked>>
    BY <1>3 DEF RadioHeartbeat, RadioKeeps
  <2>2. IsOpen(radio) /\ Tail(toRadio) \in Seq(Signals)
    BY <1>3, RadioTakesValue DEF RadioHeartbeat
  <2>3. radio' \in Session /\ radio'.restrict = radio.restrict
    BY <2>1 DEF Inv, TypeOK, Session
  <2>4. TypeOK'
    BY <2>1, <2>2, <2>3 DEF Inv, TypeOK, udp
  <2>5. SameRadio /\ SameRouter /\ SameInitAck
    BY <2>1, <2>2, <2>3 DEF SameRadio, SameRouter, SameInitAck, IsOpen, Initialized, Inv, Fresh
  <2>6. QED
    BY <2>1, <2>4, <2>5, SameSessions DEF Inv
<1>4. CASE RadioTermination
  <2>1. /\ SendToRouter(<<Signal("TERM_ACK")>>) /\ toRadio' = Tail(toRadio)
        /\ UNCHANGED <<radio, local, changed, l2, orphan, udp, router, syn, known, linked>>
    BY <1>4 DEF RadioTermination, RadioKeeps
  <2>2. IsOpen(radio) /\ Tail(toRadio) \in Seq(Signals)
    BY <1>4, RadioTakesValue DEF RadioTermination
  <2>3. <<Signal("TERM_ACK")>> \in Seq(Signals) /\ ~HasInitAck(<<Signal("TERM_ACK")>>)
    BY SignalTypes, ShortQueues
  <2>4. toRouter' \in Seq(Signals) /\ SameInitAck
    BY <2>1, <2>2, <2>3, SendToRouterSame DEF Inv
  <2>5. TypeOK'
    BY <2>1, <2>2, <2>4 DEF Inv, TypeOK, udp
  <2>6. QED
    BY <2>1, <2>4, <2>5, QuietKeeps
<1>5. CASE RadioDrops
  BY <1>5, CloseRadioKeeps DEF RadioDrops
<1>6. QED
  BY <1>1, <1>2, <1>3, <1>4, <1>5 DEF RadioReceive
-----------------------------------------------------------------------------
(* What the router takes from its queue: it keeps the session, unless it   *)
(* is a PEER_INITIALIZATION_ACK.                                           *)
LEMMA RouterTakesValue ==
    ASSUME Inv, NEW types, RouterTakes(types)
    PROVE  /\ IsOpen(router) /\ ~syn
           /\ Head(toRouter) \in Signals /\ Head(toRouter).type \in types
           /\ router.restrict \in {"ALL", Head(toRouter).type}
           /\ toRouter' \in Seq(Signals)
           /\ UNCHANGED <<l2, local, changed, orphan, stray, locked, radio, syn, linked>>
           /\ Head(toRouter).type = "INIT_ACK" => HasInitAck(toRouter)
           /\ Head(toRouter).type /= "INIT_ACK" => SameInitAck
<1>1. /\ IsOpen(router) /\ toRouter /= <<>> /\ Head(toRouter).type \in types
      /\ router.restrict \in {"ALL", Head(toRouter).type}
      /\ toRouter' = Tail(toRouter) /\ toRouter \in Seq(Signals)
      /\ UNCHANGED <<l2, local, changed, orphan, stray, locked, radio, syn, linked>>
  BY DEF Inv, TypeOK, RouterTakes, Accepts, radioDb, udp
<1>2. ~syn
  BY <1>1 DEF Inv, Fresh
<1>3. /\ HasInitAck(toRouter) <=> Head(toRouter).type = "INIT_ACK" \/ HasInitAck(toRouter')
      /\ Head(toRouter) \in Signals /\ toRouter' \in Seq(Signals)
  BY <1>1, InitAckTail
<1>4. Head(toRouter).type /= "INIT_ACK" => SameInitAck
  BY <1>1, <1>2, <1>3 DEF SameInitAck, HasInitAck
<1>5. QED
  BY <1>1, <1>2, <1>3, <1>4

(* Every signal the router reads keeps the invariant.                      *)
LEMMA RouterReceiveKeeps ==
    ASSUME Inv, RouterReceive
    PROVE  Inv'
<1> TypeOK /\ Fresh /\ Handshake /\ KnownInSession
  BY DEF Inv
<1>1. CASE RouterInitAck
  <2>1. /\ IsOpen(router) /\ ~syn /\ HasInitAck(toRouter) /\ toRouter' \in Seq(Signals)
        /\ UNCHANGED <<l2, local, changed, orphan, stray, locked, radio, syn, linked>>
        /\ router' = Established /\ UNCHANGED <<toRadio, known>>
    BY <1>1, RouterTakesValue DEF RouterInitAck
  <2>2. TypeOK'
    BY <2>1, ClosedType DEF TypeOK
  <2>3. Fresh'
    BY <2>1, ClosedType DEF Fresh, IsOpen
  <2>4. IsOpen(radio) => Initialized(radio)
    BY <2>1 DEF Handshake
  <2>5. Handshake' /\ KnownInSession'
    BY <2>1, <2>4, ClosedType DEF Handshake, KnownInSession, IsOpen, Initialized
  <2>6. QED
    BY <2>2, <2>3, <2>5 DEF Inv
<1>2. CASE RouterDestination
  <2> DEFINE s == Head(toRouter)
             q == CASE s.type = "UP" -> <<Ack("UP_ACK", s.neigh)>>
                    [] s.type = "DOWN" /\ known[s.neigh] /= Absent -> <<Ack("DOWN_ACK", s.neigh)>>
                    [] OTHER -> <<>>
  <2>1. /\ s \in Signals /\ s.type \in {"UP", "UPDATE", "DOWN"}
        /\ router.restrict \in {"ALL", s.type}
        /\ toRouter' \in Seq(Signals) /\ SameInitAck
        /\ UNCHANGED <<l2, local, changed, orphan, stray, locked, radio, syn, linked>>
    BY <1>2, RouterTakesValue DEF RouterDestination
  <2>2. /\ known' = [known EXCEPT ![s.neigh] = IF s.type = "DOWN" THEN Absent ELSE s.data]
        /\ SendToRadio(q) /\ UNCHANGED router
    BY <1>2 DEF RouterDestination
  <2>3. s.neigh \in Neigh /\ (s.type # "DOWN" => s.data \in Data)
    BY <2>1 DEF Signals
  <2>4. Initialized(router)
    BY <2>1 DEF Initialized, TypeOK, Session
  <2>5. q \in Seq(Signals)
    BY <2>3, SignalTypes, ShortQueues
  <2> HIDE DEF q, s
  <2>6. toRadio' \in Seq(Signals)
    BY <2>2, <2>5, SendToRadioType
  <2>7. known' \in [Neigh -> {Absent} \cup Data]
    BY <2>2, <2>3 DEF TypeOK
  <2>8. TypeOK'
    BY <2>1, <2>2, <2>6, <2>7 DEF TypeOK
  <2>9. SameRadio /\ SameRouter
    BY <2>1, <2>2 DEF SameRadio, SameRouter
  <2>10. QED
    BY <2>1, <2>4, <2>8, <2>9, SameSessions DEF Inv
<1>3. CASE RouterHeartbeat
  <2>1. /\ IsOpen(router) /\ ~syn /\ toRouter' \in Seq(Signals) /\ SameInitAck
        /\ UNCHANGED <<l2, local, changed, orphan, stray, locked, radio, syn, linked>>
        /\ router' = [router EXCEPT !.remote = TRUE] /\ UNCHANGED <<toRadio, known>>
    BY <1>3, RouterTakesValue DEF RouterHeartbeat
  <2>2. router' \in Session /\ router'.restrict = router.restrict
    BY <2>1 DEF TypeOK, Session
  <2>3. TypeOK'
    BY <2>1, <2>2 DEF TypeOK
  <2>4. SameRadio /\ SameRouter
    BY <2>1, <2>2 DEF SameRadio, SameRouter, IsOpen, Initialized, Fresh
  <2>5. QED
    BY <2>1, <2>3, <2>4, SameSessions DEF Inv
<1>4. CASE RouterTermination
  <2>1. /\ toRouter' \in Seq(Signals) /\ SameInitAck
        /\ UNCHANGED <<l2, local, changed, orphan, stray, locked, radio, syn, linked>>
        /\ SendToRadio(<<Signal("TERM_ACK")>>) /\ UNCHANGED <<router, known>>
    BY <1>4, RouterTakesValue DEF RouterTermination
  <2>2. toRadio' \in Seq(Signals)
    <3>1. <<Signal("TERM_ACK")>> \in Seq(Signals)
      BY SignalTypes, ShortQueues
    <3>2. QED
      BY <2>1, <3>1, SendToRadioType
  <2>3. TypeOK'
    BY <2>1, <2>2 DEF TypeOK
  <2>4. QED
    BY <2>1, <2>3, QuietKeeps
<1>5. CASE RouterDrops
  BY <1>5, CloseRouterKeeps DEF RouterDrops, udp, TypeOK
<1>6. QED
  BY <1>1, <1>2, <1>3, <1>4, <1>5 DEF RouterReceive

(* The timers of both ends.                                                *)
LEMMA ExpiredType ==
    ASSUME NEW session \in Session, IsOpen(session)
    PROVE  /\ Expired(session) \in Session /\ IsOpen(Expired(session))
           /\ Initialized(Expired(session)) <=> Initialized(session)
           /\ session.restrict /= "ALL" => Expired(session).restrict = session.restrict
           /\ Expired(session).restrict \in {session.restrict, "TERM_ACK"}
           /\ Farewell(session) \in Seq(Signals) /\ ~HasInitAck(Farewell(session))
<1>1. <<Signal("TERM")>> \in Seq(Signals) /\ ~HasInitAck(<<Signal("TERM")>>)
  BY SignalTypes, ShortQueues
<1>2. Farewell(session) \in Seq(Signals) /\ ~HasInitAck(Farewell(session))
  BY <1>1, ShortQueues DEF Farewell
<1>3. QED
  BY <1>2 DEF Expired, Session, IsOpen, Initialized

(* Heartbeats and timeouts of both sides keep the invariant.               *)
LEMMA TimerKeeps ==
    ASSUME Inv, Timer
    PROVE  Inv'
<1> TypeOK /\ Fresh /\ Handshake /\ KnownInSession
  BY DEF Inv
<1>1. CASE RadioHeartbeatTimeout
  <2>1. /\ radio' = Expired(radio) /\ SendToRouter(Farewell(radio))
        /\ UNCHANGED <<l2, radioDb, udp, router, syn, toRadio, known, linked>>
    BY <1>1 DEF RadioHeartbeatTimeout
  <2>2. IsOpen(radio) /\ radio \in Session
    BY <1>1, ClosedType DEF RadioHeartbeatTimeout, Fresh, TypeOK
  <2>3. toRouter' \in Seq(Signals) /\ SameInitAck
    BY <2>1, <2>2, ExpiredType, SendToRouterSame
  <2>4. SameRadio /\ SameRouter /\ radio' \in Session
    BY <2>1, <2>2, ExpiredType DEF SameRadio, SameRouter, IsOpen, Initialized, Fresh
  <2>5. TypeOK'
    BY <2>1, <2>3, <2>4 DEF TypeOK, radioDb, udp
  <2>6. QED
    BY <2>1, <2>3, <2>4, <2>5, SameSessions DEF Inv
<1>2. CASE RouterHeartbeatTimeout
  <2>1. /\ router' = Expired(router) /\ SendToRadio(Farewell(router))
        /\ UNCHANGED <<l2, radioDb, udp, radio, syn, toRouter, known, linked>>
    BY <1>2 DEF RouterHeartbeatTimeout
  <2>2. IsOpen(router) /\ router \in Session
    BY <1>2, ClosedType DEF RouterHeartbeatTimeout, Fresh, TypeOK
  <2>3. toRadio' \in Seq(Signals)
    BY <2>1, <2>2, ExpiredType, SendToRadioType
  <2>4. SameRadio /\ SameRouter /\ SameInitAck /\ router' \in Session
    BY <2>1, <2>2, ExpiredType DEF SameRadio, SameRouter, SameInitAck, IsOpen, Initialized, Fresh
  <2>5. TypeOK'
    BY <2>1, <2>3, <2>4 DEF TypeOK, radioDb, udp
  <2>6. QED
    BY <2>1, <2>4, <2>5, SameSessions DEF Inv
<1>3. CASE RadioSendsHeartbeat
  <2>1. /\ SendToRouter(<<Signal("HEARTBEAT")>>)
        /\ UNCHANGED <<l2, radioDb, udp, radio, router, syn, toRadio, known, linked>>
    BY <1>3 DEF RadioSendsHeartbeat
  <2>2. IsOpen(radio)
    BY <1>3, ClosedType DEF RadioSendsHeartbeat, Fresh
  <2>3. <<Signal("HEARTBEAT")>> \in Seq(Signals) /\ ~HasInitAck(<<Signal("HEARTBEAT")>>)
    BY SignalTypes, ShortQueues
  <2>4. toRouter' \in Seq(Signals) /\ SameInitAck
    BY <2>1, <2>2, <2>3, SendToRouterSame
  <2>5. TypeOK'
    BY <2>1, <2>4 DEF TypeOK, radioDb, udp
  <2>6. QED
    BY <2>1, <2>4, <2>5, QuietKeeps
<1>4. CASE RouterSendsHeartbeat
  <2>1. /\ SendToRadio(<<Signal("HEARTBEAT")>>)
        /\ UNCHANGED <<l2, radioDb, udp, radio, router, syn, toRouter, known, linked>>
    BY <1>4 DEF RouterSendsHeartbeat
  <2>2. toRadio' \in Seq(Signals)
    <3>1. <<Signal("HEARTBEAT")>> \in Seq(Signals)
      BY SignalTypes, ShortQueues
    <3>2. QED
      BY <2>1, <3>1, SendToRadioType
  <2>3. TypeOK'
    BY <2>1, <2>2 DEF TypeOK, radioDb, udp
  <2>4. QED
    BY <2>1, <2>3, QuietKeeps DEF SameInitAck
<1>5. CASE RadioStreamTimeout
  BY <1>5, CloseRadioKeeps DEF RadioStreamTimeout, Breaks
<1>6. CASE RouterStreamTimeout
  BY <1>6, CloseRouterKeeps DEF RouterStreamTimeout, udp, TypeOK
<1>7. QED
  BY <1>1, <1>2, <1>3, <1>4, <1>5, <1>6 DEF Timer
-----------------------------------------------------------------------------
(* The invariant holds before the first session, and every action keeps    *)
(* it.                                                                     *)
LEMMA InitInv ==
    ASSUME Init
    PROVE  Inv
<1>1. TypeOK
  BY ClosedType, NobodyType, ShortQueues DEF Init, TypeOK
<1>2. Fresh /\ Handshake /\ KnownInSession
  BY ClosedType DEF Init, Fresh, Handshake, KnownInSession, Closed
<1>3. QED
  BY <1>1, <1>2 DEF Inv

(* One case per group of actions.                                          *)
LEMMA NextInv ==
    ASSUME Inv, [Next]_vars
    PROVE  Inv'
<1>1. CASE Discover
  BY <1>1, DiscoverKeeps
<1>2. CASE OfferLost
  <2>1. /\ stray' = FALSE
        /\ UNCHANGED <<l2, radioDb, locked, radio, router, syn, toRadio, toRouter, known, linked>>
    BY <1>2 DEF OfferLost
  <2>2. TypeOK'
    BY <2>1 DEF Inv, TypeOK, radioDb
  <2>3. QED
    BY <2>1, <2>2, QuietKeeps DEF SameInitAck
<1>3. CASE Accept
  BY <1>3, AcceptKeeps
<1>4. ASSUME NEW n \in Neigh, L2Event(n)
      PROVE  Inv'
  BY <1>4, L2EventKeeps
<1>5. CASE RadioReceive
  BY <1>5, RadioReceiveKeeps
<1>6. CASE RouterReceive
  BY <1>6, RouterReceiveKeeps
<1>7. CASE Timer
  BY <1>7, TimerKeeps
<1>8. CASE LinkChanges
  <2>1. /\ linked' = ~linked
        /\ UNCHANGED <<l2, radioDb, udp, radio, router, syn, toRadio, toRouter, known>>
    BY <1>8 DEF LinkChanges
  <2>2. TypeOK'
    BY <2>1 DEF Inv, TypeOK, radioDb, udp
  <2>3. QED
    BY <2>1, <2>2, QuietKeeps DEF SameInitAck
<1>9. CASE RadioDies
  BY <1>9, RadioDiesKeeps
<1>10. CASE RouterRestart
  <2>1. CloseRouter /\ locked' = FALSE /\ UNCHANGED <<l2, radioDb, stray, radio, linked>>
    BY <1>10 DEF RouterRestart
  <2>2. QED
    BY <2>1, CloseRouterKeeps
<1>11. CASE UNCHANGED vars
  <2>1. TypeOK'
    BY <1>11 DEF vars, radioDb, udp, Inv, TypeOK
  <2>2. QED
    BY <1>11, <2>1, QuietKeeps DEF vars, SameInitAck
<1>12. QED
  BY <1>1, <1>2, <1>3, <1>4, <1>5, <1>6, <1>7, <1>8, <1>9, <1>10, <1>11 DEF Next

(* The invariant holds for ever.                                           *)
LEMMA Invariant == Spec => []Inv
<1>1. Init => Inv
  BY InitInv
<1>2. Inv /\ [Next]_vars => Inv'
  BY NextInv
<1>3. QED
  BY <1>1, <1>2, PTL DEF Spec

(* Databases, sessions and signals keep their types, for any neighbors.    *)
THEOREM TypeCorrect == Spec => []TypeOK
<1>1. Inv => TypeOK
  BY DEF Inv
<1>2. QED
  BY <1>1, Invariant, PTL

(* However often connections, network and processes fail: the router is    *)
(* not initialized before the radio, gets its PEER_INITIALIZATION_ACK, and *)
(* has no layer-2 data but of the session it is in.                        *)
THEOREM SessionsAgree == Spec => []SessionAgreement
<1>1. Inv => SessionAgreement
  <2>1. ASSUME Inv, HasInitAck(toRouter)
        PROVE  \E i \in DOMAIN toRouter : toRouter[i] = Signal("INIT_ACK")
    <3>1. PICK i \in DOMAIN toRouter : toRouter[i].type = "INIT_ACK"
      BY <2>1 DEF HasInitAck
    <3>2. toRouter[i] \in Signals
      BY <2>1 DEF Inv, TypeOK
    <3>3. toRouter[i] = Signal("INIT_ACK")
      BY <3>1, <3>2 DEF Signals, Signal
    <3>4. QED
      BY <3>3
  <2>2. Inv => HandshakeFirst
    BY <2>1 DEF Inv, HandshakeFirst, Handshake, Connected
  <2>3. QED
    BY <2>2 DEF Inv, SessionAgreement
<1>2. QED
  BY <1>1, Invariant, PTL
-----------------------------------------------------------------------------
(* No metrics are lost.  Follow one neighbor: what the router will know of *)
(* it when it has read its queue is decided by the last signal about it.   *)
About(s, n) == s.type \in {"UP", "UPDATE", "DOWN"} /\ s.neigh = n
Silent(q, n) == \A j \in DOMAIN q : ~About(q[j], n)
Tells(q, n, v) ==
    \E i \in DOMAIN q :
      /\ q[i].type \in {"UP", "UPDATE"} /\ q[i].neigh = n /\ q[i].data = v
      /\ \A j \in DOMAIN q : j > i => ~About(q[j], n)
WillKnow(k, q, n, v) == (Silent(q, n) /\ k[n] = v) \/ Tells(q, n, v)

(* Is a signal of this type about the neighbor among the signals of q?     *)
Has(q, type, n) == \E i \in DOMAIN q : q[i].type = type /\ q[i].neigh = n
Outstanding(n) == Has(toRouter, "UP", n) \/ Has(toRadio, "UP_ACK", n)

(* A local neighbor that waits for an ack gets one.  The metrics of a      *)
(* neighbor are on their way or known, or the ack is still to come that    *)
(* has them sent - to a radio that, after an ack timeout, does not survive *)
(* it.                                                                     *)
Fine(n) ==
    /\ local[n] = "UP_SENT" => Outstanding(n)
    /\ Initialized(radio) /\ l2[n] /= Absent =>
         \/ WillKnow(known, toRouter, n, l2[n])
         \/ Outstanding(n) /\ (local[n] = "NONE" \/ (local[n] = "UP_SENT" /\ n \in changed))
Delivery == IsOpen(radio) /\ IsOpen(router) => \A n \in Neigh : Fine(n)
Idle == ~IsOpen(radio) => \A n \in Neigh : local[n] = "NONE"
DeliveryInv == Inv /\ Delivery /\ Idle

(* A step that leaves a neighbor as it is: its metrics, what the router    *)
(* will know, and the acks that are to come.                               *)
Undisturbed(n) ==
    /\ l2'[n] = l2[n] /\ local'[n] = local[n] /\ (n \in changed' <=> n \in changed)
    /\ \A v : WillKnow(known, toRouter, n, v) => WillKnow(known', toRouter', n, v)
    /\ Outstanding(n) => Outstanding(n)'
    /\ Initialized(radio)' => Initialized(radio)

(* A signal at the end of a queue is the last word about its neighbor.     *)
LEMMA Appended ==
    ASSUME NEW q \in Seq(Signals), NEW s \in Seq(Signals), NEW n
    PROVE  /\ \A k, v : WillKnow(k, q, n, v) /\ Silent(s, n) => WillKnow(k, q \o s, n, v)
           /\ \A k, v : Tells(s, n, v) => WillKnow(k, q \o s, n, v)
           /\ \A t : Has(q \o s, t, n) <=> Has(q, t, n) \/ Has(s, t, n)
<1> DEFINE r == q \o s
<1>1. /\ r \in Seq(Signals) /\ Len(r) = Len(q) + Len(s)
      /\ Len(q) \in Nat /\ Len(s) \in Nat
      /\ DOMAIN r = 1 .. Len(r) /\ DOMAIN q = 1 .. Len(q) /\ DOMAIN s = 1 .. Len(s)
  OBVIOUS
<1>2. \A i \in 1 .. Len(q) : r[i] = q[i]
  OBVIOUS
<1>3. \A i \in 1 .. Len(r) : i > Len(q) => i - Len(q) \in 1 .. Len(s) /\ r[i] = s[i - Len(q)]
  OBVIOUS
<1>4. \A i \in 1 .. Len(s) : Len(q) + i \in 1 .. Len(r) /\ r[Len(q) + i] = s[i]
  OBVIOUS
<1> HIDE DEF r
<1>5. ASSUME NEW k, NEW v, WillKnow(k, q, n, v), Silent(s, n)
      PROVE  WillKnow(k, r, n, v)
  <2>1. \A j \in 1 .. Len(r) : j > Len(q) => ~About(r[j], n)
    BY <1>1, <1>3, <1>5 DEF Silent
  <2>2. CASE Silent(q, n) /\ k[n] = v
    <3>1. Silent(r, n)
      BY <1>1, <1>2, <2>1, <2>2 DEF Silent
    <3>2. QED
      BY <2>2, <3>1 DEF WillKnow
  <2>3. CASE Tells(q, n, v)
    <3>1. PICK i \in 1 .. Len(q) :
            /\ q[i].type \in {"UP", "UPDATE"} /\ q[i].neigh = n /\ q[i].data = v
            /\ \A j \in 1 .. Len(q) : j > i => ~About(q[j], n)
      BY <1>1, <2>3 DEF Tells
    <3>2. \A j \in 1 .. Len(r) : j > i => ~About(r[j], n)
      BY <1>1, <1>2, <2>1, <3>1
    <3>3. i \in 1 .. Len(r) /\ r[i] = q[i]
      BY <1>1, <1>2
    <3>4. Tells(r, n, v)
      BY <1>1, <3>1, <3>2, <3>3 DEF Tells
    <3>5. QED
      BY <3>4 DEF WillKnow
  <2>4. QED
    BY <1>5, <2>2, <2>3 DEF WillKnow
<1>6. ASSUME NEW k, NEW v, Tells(s, n, v)
      PROVE  WillKnow(k, r, n, v)
  <2>1. PICK i \in 1 .. Len(s) :
          /\ s[i].type \in {"UP", "UPDATE"} /\ s[i].neigh = n /\ s[i].data = v
          /\ \A j \in 1 .. Len(s) : j > i => ~About(s[j], n)
    BY <1>1, <1>6 DEF Tells
  <2> DEFINE e == Len(q) + i
  <2>2. e \in 1 .. Len(r) /\ r[e] = s[i]
    BY <1>4
  <2>3. ASSUME NEW j \in 1 .. Len(r), j > e
        PROVE  ~About(r[j], n)
    <3>1. j > Len(q) /\ j - Len(q) > i
      BY <1>1, <2>3
    <3>2. j - Len(q) \in 1 .. Len(s) /\ r[j] = s[j - Len(q)]
      BY <1>3, <3>1
    <3>3. QED
      BY <2>1, <3>1, <3>2
  <2> HIDE DEF e
  <2>4. Tells(r, n, v)
    BY <1>1, <2>1, <2>2, <2>3 DEF Tells
  <2>5. QED
    BY <2>4 DEF WillKnow
<1>7. ASSUME NEW t
      PROVE  Has(r, t, n) <=> Has(q, t, n) \/ Has(s, t, n)
  <2>1. ASSUME Has(r, t, n)
        PROVE  Has(q, t, n) \/ Has(s, t, n)
    <3>1. PICK i \in 1 .. Len(r) : r[i].type = t /\ r[i].neigh = n
      BY <1>1, <2>1 DEF Has
    <3>2. CASE i <= Len(q)
      BY <1>1, <1>2, <3>1, <3>2 DEF Has
    <3>3. CASE i > Len(q)
      BY <1>1, <1>3, <3>1, <3>3 DEF Has
    <3>4. QED
      BY <1>1, <3>2, <3>3
  <2>2. Has(q, t, n) => Has(r, t, n)
    BY <1>1, <1>2 DEF Has
  <2>3. Has(s, t, n) => Has(r, t, n)
    BY <1>1, <1>4 DEF Has
  <2>4. QED
    BY <2>1, <2>2, <2>3
<1>8. QED
  BY <1>5, <1>6, <1>7 DEF r

(* Reading the first signal, the router knows what the signal says.        *)
LEMMA FirstRead ==
    ASSUME NEW q \in Seq(Signals), q /= <<>>, NEW n, NEW k, NEW l, NEW v,
           WillKnow(k, q, n, v),
           ~About(Head(q), n) => l[n] = k[n],
           About(Head(q), n) /\ Head(q).type /= "DOWN" => l[n] = Head(q).data
    PROVE  WillKnow(l, Tail(q), n, v)
<1>1. /\ Head(q) = q[1] /\ Len(q) \in Nat /\ Len(q) >= 1 /\ DOMAIN q = 1 .. Len(q)
      /\ DOMAIN Tail(q) = 1 .. (Len(q) - 1)
      /\ \A i \in 1 .. (Len(q) - 1) : Tail(q)[i] = q[i + 1]
  OBVIOUS
<1> DEFINE r == Tail(q)
<1>2. \A i \in 2 .. Len(q) : i - 1 \in 1 .. (Len(q) - 1) /\ r[i - 1] = q[i]
  BY <1>1
<1>3. DOMAIN r = 1 .. (Len(q) - 1) /\ \A i \in 1 .. (Len(q) - 1) : r[i] = q[i + 1]
  BY <1>1
<1> HIDE DEF r
<1>4. CASE Silent(q, n) /\ k[n] = v
  <2>1. Silent(r, n) /\ ~About(Head(q), n)
    BY <1>1, <1>3, <1>4 DEF Silent
  <2>2. QED
    BY <1>4, <2>1 DEF WillKnow, r
<1>5. CASE Tells(q, n, v)
  <2>1. PICK i \in 1 .. Len(q) :
          /\ q[i].type \in {"UP", "UPDATE"} /\ q[i].neigh = n /\ q[i].data = v
          /\ \A j \in 1 .. Len(q) : j > i => ~About(q[j], n)
    BY <1>1, <1>5 DEF Tells
  <2>2. CASE i = 1
    <3>1. \A j \in 1 .. (Len(q) - 1) : j + 1 \in 1 .. Len(q) /\ j + 1 > i
      BY <1>1, <2>2
    <3>2. Silent(r, n)
      BY <1>3, <2>1, <3>1 DEF Silent
    <3>3. l[n] = v
      BY <1>1, <2>1, <2>2 DEF About
    <3>4. QED
      BY <3>2, <3>3 DEF WillKnow, r
  <2>3. CASE i /= 1
    <3> DEFINE e == i - 1
    <3>1. e \in 1 .. (Len(q) - 1) /\ r[e] = q[i]
      BY <1>1, <1>2, <2>3
    <3>2. ASSUME NEW j \in 1 .. (Len(q) - 1), j > e
          PROVE  ~About(r[j], n)
      <4>1. j + 1 \in 1 .. Len(q) /\ j + 1 > i /\ r[j] = q[j + 1]
        BY <1>1, <1>3, <3>2
      <4>2. QED
        BY <2>1, <4>1
    <3> HIDE DEF e
    <3>3. Tells(r, n, v)
      BY <1>3, <2>1, <3>1, <3>2 DEF Tells
    <3>4. QED
      BY <3>3 DEF WillKnow, r
  <2>4. QED
    BY <2>2, <2>3
<1>6. QED
  BY <1>4, <1>5 DEF WillKnow

(* Which signals reading the first one leaves.                             *)
LEMMA FirstTaken ==
    ASSUME NEW q \in Seq(Signals), q /= <<>>, NEW n, NEW t, Has(q, t, n)
    PROVE  (Head(q).type = t /\ Head(q).neigh = n) \/ Has(Tail(q), t, n)
<1>1. PICK i \in 1 .. Len(q) : q[i].type = t /\ q[i].neigh = n
  BY DEF Has
<1>2. CASE i = 1
  BY <1>1, <1>2
<1>3. CASE i /= 1
  <2> DEFINE j == i - 1
  <2>1. j \in 1 .. (Len(q) - 1) /\ Tail(q)[j] = q[i] /\ DOMAIN Tail(q) = 1 .. (Len(q) - 1)
    BY <1>3
  <2> HIDE DEF j
  <2>2. QED
    BY <1>1, <2>1 DEF Has
<1>4. QED
  BY <1>2, <1>3

(* Queues of one signal.                                                   *)
LEMMA OneSignal ==
    /\ \A n : Silent(<<>>, n) /\ \A t : ~Has(<<>>, t, n)
    /\ \A s, n : ~About(s, n) => Silent(<<s>>, n)
    /\ \A s, n : s.type \in {"UP", "UPDATE"} /\ s.neigh = n => Tells(<<s>>, n, s.data)
    /\ \A s, n : s.neigh = n => Has(<<s>>, s.type, n)
BY DEF Silent, Has, Tells

(* The signals that are about no neighbor.                                 *)
LEMMA NotAbout ==
    /\ \A t \in {"INIT", "INIT_ACK", "HEARTBEAT", "TERM", "TERM_ACK"} :
         \A n : ~About(Signal(t), n)
    /\ \A t, m, v, n : m /= n => ~About(Dest(t, m, v), n)
    /\ \A t, n, v : /\ Dest(t, n, v).type = t /\ Dest(t, n, v).neigh = n
                    /\ Dest(t, n, v).data = v
    /\ \A t, n : Ack(t, n).type = t /\ Ack(t, n).neigh = n
BY DEF About, Signal, Dest, Ack
-----------------------------------------------------------------------------
(* What a step leaves as it is stays fine.                                 *)
LEMMA UndisturbedFine ==
    ASSUME NEW n \in Neigh, Fine(n), Undisturbed(n)
    PROVE  Fine(n)'
<1>1. local'[n] = "UP_SENT" => Outstanding(n)'
  BY DEF Fine, Undisturbed
<1>2. ASSUME Initialized(radio)', l2'[n] /= Absent
      PROVE  \/ WillKnow(known', toRouter', n, l2'[n])
             \/ /\ Outstanding(n)'
                /\ local'[n] = "NONE" \/ (local'[n] = "UP_SENT" /\ n \in changed')
  BY <1>2 DEF Fine, Undisturbed
<1>3. QED
  BY <1>1, <1>2 DEF Fine

(* A session that is closed has nothing to deliver.                        *)
LEMMA ClosedDelivers ==
    ASSUME ~IsOpen(radio)' \/ ~IsOpen(router)', Idle'
    PROVE  Delivery' /\ Idle'
BY DEF Delivery

(* What the ends of an open session add to the queues.                     *)
LEMMA SentToRouter ==
    ASSUME TypeOK, IsOpen(router), NEW s \in Seq(Signals), SendToRouter(s), NEW n
    PROVE  /\ \A v : /\ WillKnow(known, toRouter, n, v) /\ Silent(s, n)
                        => WillKnow(known, toRouter', n, v)
                     /\ Tells(s, n, v) => WillKnow(known, toRouter', n, v)
           /\ Has(toRouter, "UP", n) \/ Has(s, "UP", n) => Has(toRouter', "UP", n)
<1>1. toRouter' = toRouter \o s /\ toRouter \in Seq(Signals)
  BY DEF SendToRouter, TypeOK
<1>2. QED
  BY <1>1, Appended

(* The same for what the router sends.                                     *)
LEMMA SentToRadio ==
    ASSUME TypeOK, IsOpen(radio), NEW s \in Seq(Signals), SendToRadio(s), NEW n
    PROVE  Has(toRadio, "UP_ACK", n) \/ Has(s, "UP_ACK", n) => Has(toRadio', "UP_ACK", n)
<1>1. toRadio' = toRadio \o s /\ toRadio \in Seq(Signals)
  BY DEF SendToRadio, TypeOK
<1>2. QED
  BY <1>1, Appended

(* A step of an open session that neither changes a neighbor nor says      *)
(* anything about one.                                                     *)
LEMMA QuietDelivers ==
    ASSUME DeliveryInv, UNCHANGED <<l2, local, changed, known>>,
           IsOpen(radio)' => IsOpen(radio), IsOpen(router)' => IsOpen(router),
           Initialized(radio)' => Initialized(radio),
           \/ UNCHANGED toRouter
           \/ \E s \in Seq(Signals) : SendToRouter(s) /\ \A n : Silent(s, n),
           \A n : Has(toRadio, "UP_ACK", n) => Has(toRadio', "UP_ACK", n),
           ~IsOpen(radio)' => ~IsOpen(radio)
    PROVE  Delivery' /\ Idle'
<1>1. Idle'
  BY DEF DeliveryInv, Idle
<1>2. CASE ~IsOpen(radio)' \/ ~IsOpen(router)'
  BY <1>1, <1>2, ClosedDelivers
<1>3. CASE IsOpen(radio)' /\ IsOpen(router)'
  <2>1. IsOpen(radio) /\ IsOpen(router) /\ TypeOK
    BY <1>3 DEF DeliveryInv, Inv
  <2>2. ASSUME NEW n \in Neigh
        PROVE  Undisturbed(n)
    <3>1. /\ \A v : WillKnow(known, toRouter, n, v) => WillKnow(known, toRouter', n, v)
          /\ Has(toRouter, "UP", n) => Has(toRouter', "UP", n)
      <4>1. CASE UNCHANGED toRouter
        BY <4>1
      <4>2. CASE \E s \in Seq(Signals) : SendToRouter(s) /\ \A m : Silent(s, m)
        <5>1. PICK s \in Seq(Signals) : SendToRouter(s) /\ \A m : Silent(s, m)
          BY <4>2
        <5>2. QED
          BY <2>1, <5>1, SentToRouter
      <4>3. QED
        BY <4>1, <4>2
    <3>2. Outstanding(n) => Outstanding(n)'
      BY <3>1 DEF Outstanding
    <3>3. QED
      BY <3>1, <3>2 DEF Undisturbed
  <2>3. \A n \in Neigh : Fine(n)'
    BY <2>1, <2>2, UndisturbedFine DEF DeliveryInv, Delivery
  <2>4. QED
    BY <1>1, <2>3 DEF Delivery
<1>4. QED
  BY <1>2, <1>3
-----------------------------------------------------------------------------
(* Opening a session: there is no local neighbor yet.                      *)
LEMMA OpeningDelivers ==
    ASSUME DeliveryInv, Discover \/ OfferLost \/ Accept
    PROVE  Delivery' /\ Idle'
<1>1. CASE Discover \/ OfferLost
  <2>1. ~IsOpen(radio) /\ UNCHANGED <<radio, local>>
    BY <1>1 DEF Discover, OfferLost, radioDb
  <2>2. ~IsOpen(radio)' /\ Idle'
    BY <2>1 DEF DeliveryInv, Idle, IsOpen
  <2>3. QED
    BY <2>2, ClosedDelivers
<1>2. CASE Accept
  <2>1. /\ syn /\ radio' = Open("INIT") /\ UNCHANGED <<local, router, toRouter>>
    BY <1>2 DEF Accept, radioDb
  <2>2. \A n \in Neigh : local'[n] = "NONE"
    BY <2>1, ClosedType DEF DeliveryInv, Inv, Fresh, Idle
  <2>3. ~Initialized(radio)'
    BY <2>1, ClosedType DEF Initialized
  <2>4. QED
    BY <2>2, <2>3 DEF Delivery, Idle, Fine
<1>3. QED
  BY <1>1, <1>2

(* The radio closes its session, or dies.                                  *)
LEMMA RadioClosedDelivers ==
    ASSUME CloseRadio \/ RadioDies
    PROVE  Delivery' /\ Idle'
<1>1. radio' = Closed /\ local' = [n \in Neigh |-> "NONE"]
  BY DEF CloseRadio, RadioDies, ForgetLocals
<1>2. ~IsOpen(radio)' /\ Idle'
  BY <1>1, ClosedType DEF Idle, IsOpen
<1>3. QED
  BY <1>2, ClosedDelivers

(* The router closes its session.                                          *)
LEMMA RouterClosedDelivers ==
    ASSUME DeliveryInv, CloseRouter, UNCHANGED <<local, radio>>
    PROVE  Delivery' /\ Idle'
<1>1. ~IsOpen(router)'
  BY ClosedType DEF CloseRouter, IsOpen
<1>2. Idle'
  BY DEF DeliveryInv, Idle, IsOpen
<1>3. QED
  BY <1>1, <1>2, ClosedDelivers

(* New metrics: the radio has them sent at once, or when the ack that is   *)
(* outstanding has come.                                                   *)
LEMMA L2SetDelivers ==
    ASSUME DeliveryInv, NEW n \in Neigh, NEW data \in Data, L2Set(n, data)
    PROVE  Delivery' /\ Idle'
<1>1. /\ TypeOK
      /\ l2' = [l2 EXCEPT ![n] = data]
      /\ IF IsOpen(radio) THEN NeighChanged(n, data) ELSE UNCHANGED <<local, changed, toRouter>>
      /\ UNCHANGED <<radio, router, toRadio, known>>
  BY DEF DeliveryInv, Inv, L2Set
<1>2. CASE ~IsOpen(radio)
  <2>1. ~IsOpen(radio)' /\ Idle'
    BY <1>1, <1>2 DEF DeliveryInv, Idle, IsOpen
  <2>2. QED
    BY <2>1, ClosedDelivers
<1>3. CASE IsOpen(radio) /\ ~IsOpen(router)
  <2>1. IsOpen(radio)' /\ ~IsOpen(router)'
    BY <1>1, <1>3 DEF IsOpen
  <2>2. QED
    BY <2>1 DEF Delivery, Idle
<1>4. CASE IsOpen(radio) /\ IsOpen(router)
  <2> USE <1>1
  <2>1. /\ l2'[n] = data /\ \A m \in Neigh \ {n} : l2'[m] = l2[m]
        /\ NeighChanged(n, data) /\ IsOpen(radio)'
    BY <1>4 DEF TypeOK, IsOpen
  <2>2. \A m \in Neigh : Fine(m)
    BY <1>4 DEF DeliveryInv, Delivery
  <2>3. CASE local[n] = "UP_SENT"
    <3>1. UNCHANGED <<local, toRouter>> /\ changed' = changed \cup {n}
      BY <2>1, <2>3 DEF NeighChanged
    <3>2. \A m \in Neigh : Outstanding(m)' <=> Outstanding(m)
      BY <3>1 DEF Outstanding, Has
    <3>3. Fine(n)'
      BY <2>2, <2>3, <3>1, <3>2 DEF Fine
    <3>4. ASSUME NEW m \in Neigh \ {n}
          PROVE  Fine(m)'
      <4>1. Undisturbed(m)
        BY <2>1, <3>1, <3>2 DEF Undisturbed, Initialized
      <4>2. QED
        BY <2>2, <4>1, UndisturbedFine
    <3>5. QED
      BY <2>1, <3>3, <3>4 DEF Delivery, Idle
  <2>4. CASE local[n] /= "UP_SENT"
    <3> DEFINE type == IF local[n] = "UP_ACKED" THEN "UPDATE" ELSE "UP"
               s == Dest(type, n, data)
    <3>1. /\ SendToRouter(<<s>>) /\ changed' = changed \ {n}
          /\ local' = IF type = "UPDATE" THEN local ELSE [local EXCEPT ![n] = "UP_SENT"]
      <4>1. CASE local[n] = "UP_ACKED"
        BY <2>1, <4>1 DEF NeighChanged
      <4>2. CASE local[n] /= "UP_ACKED"
        BY <2>1, <2>4, <4>2 DEF NeighChanged
      <4>3. QED
        BY <4>1, <4>2
    <3>2. type \in {"UP", "UPDATE"} /\ (type = "UPDATE" => local[n] = "UP_ACKED")
      OBVIOUS
    <3> HIDE DEF type
    <3>3. /\ s \in Signals /\ s.type = type /\ s.neigh = n /\ s.data = data
          /\ \A m \in Neigh \ {n} : ~About(s, m)
      BY <3>2, SignalTypes, NotAbout
    <3> HIDE DEF s
    <3>4. /\ <<s>> \in Seq(Signals) /\ Tells(<<s>>, n, data) /\ Has(<<s>>, type, n)
          /\ \A m \in Neigh \ {n} : Silent(<<s>>, m)
      BY <3>2, <3>3, OneSignal
    <3>5. \A m \in Neigh : Has(toRadio', "UP_ACK", m) <=> Has(toRadio, "UP_ACK", m)
      OBVIOUS
    <3>6. Fine(n)'
      <4>1. WillKnow(known', toRouter', n, data)
        BY <1>4, <3>1, <3>4, SentToRouter
      <4>2. local'[n] = "UP_SENT" => type = "UP"
        BY <3>1, <3>2 DEF TypeOK
      <4>3. type = "UP" => Has(toRouter', "UP", n)
        BY <1>4, <3>1, <3>4, SentToRouter
      <4>4. QED
        BY <2>1, <4>1, <4>2, <4>3 DEF Fine, Outstanding
    <3>7. ASSUME NEW m \in Neigh \ {n}
          PROVE  Fine(m)'
      <4>1. /\ \A v : WillKnow(known, toRouter, m, v) => WillKnow(known, toRouter', m, v)
            /\ Has(toRouter, "UP", m) => Has(toRouter', "UP", m)
        BY <1>4, <3>1, <3>4, SentToRouter
      <4>2. local'[m] = local[m] /\ (m \in changed' <=> m \in changed)
        BY <3>1 DEF TypeOK
      <4>3. Outstanding(m) => Outstanding(m)'
        BY <3>5, <4>1 DEF Outstanding
      <4>4. Undisturbed(m)
        BY <2>1, <4>1, <4>2, <4>3 DEF Undisturbed, Initialized
      <4>5. QED
        BY <2>2, <4>4, UndisturbedFine
    <3>8. QED
      BY <2>1, <3>6, <3>7 DEF Delivery, Idle
  <2>5. QED
    BY <2>3, <2>4
<1>5. QED
  BY <1>2, <1>3, <1>4

(* The other events of a neighbor: it goes, or its ack is late.            *)
LEMMA L2EventDelivers ==
    ASSUME DeliveryInv, NEW n \in Neigh, L2Event(n)
    PROVE  Delivery' /\ Idle'
<1>1. ASSUME NEW data \in Data, L2Set(n, data)
      PROVE  Delivery' /\ Idle'
  BY <1>1, L2SetDelivers
<1>2. ASSUME L2Remove(n) \/ AckTimeout(n)
      PROVE  Delivery' /\ Idle'
  <2>1. /\ UNCHANGED <<radio, router, toRadio, toRouter, known>>
        /\ \/ l2' = [l2 EXCEPT ![n] = Absent] /\ UNCHANGED <<local, changed>>
           \/ /\ local' = [local EXCEPT ![n] = "NONE"] /\ changed' = changed \ {n} /\ UNCHANGED l2
              /\ local[n] \in {"UP_SENT", "DOWN_SENT"}
    BY <1>2 DEF L2Remove, AckTimeout, NeighAddrUnset
  <2>2. TypeOK
    BY DEF DeliveryInv, Inv
  <2>3. \A m \in Neigh : Outstanding(m)' <=> Outstanding(m)
    BY <2>1 DEF Outstanding, Has
  <2>4. Idle'
    BY <2>1, <2>2 DEF DeliveryInv, Idle, TypeOK, IsOpen
  <2>5. ASSUME NEW m \in Neigh, Fine(m), m /= n
        PROVE  Fine(m)'
    <3>1. Undisturbed(m)
      BY <2>1, <2>2, <2>3, <2>5 DEF Undisturbed, TypeOK, Initialized
    <3>2. QED
      BY <2>5, <3>1, UndisturbedFine
  <2>6. ASSUME Fine(n)
        PROVE  Fine(n)'
    <3>1. CASE l2' = [l2 EXCEPT ![n] = Absent] /\ UNCHANGED <<local, changed>>
      BY <2>2, <2>3, <2>6, <3>1 DEF Fine, TypeOK
    <3>2. CASE /\ local' = [local EXCEPT ![n] = "NONE"] /\ changed' = changed \ {n}
               /\ UNCHANGED l2 /\ local[n] \in {"UP_SENT", "DOWN_SENT"}
      <4>1. local'[n] = "NONE"
        BY <2>2, <3>2 DEF TypeOK
      <4>2. QED
        BY <2>1, <2>3, <2>6, <3>2, <4>1 DEF Fine, Initialized
    <3>3. QED
      BY <2>1, <3>1, <3>2
  <2>7. QED
    BY <2>1, <2>4, <2>5, <2>6 DEF DeliveryInv, Delivery, IsOpen
<1>3. CASE OrphanTimeout(n)
  <2>1. CASE RadioDies
    BY <2>1, RadioClosedDelivers
  <2>2. CASE /\ orphan' = orphan \ {n}
             /\ UNCHANGED <<l2, local, changed, udp, radio, router, syn, toRadio,
                            toRouter, known, linked>>
    BY <2>2, QuietDelivers DEF IsOpen, Initialized
  <2>3. QED
    BY <1>3, <2>1, <2>2 DEF OrphanTimeout
<1>4. QED
  BY <1>1, <1>2, <1>3 DEF L2Event
-----------------------------------------------------------------------------
(* A DESTINATION_UP for every neighbor in the database.                    *)
LEMMA UpsTell ==
    ASSUME TypeOK, NEW n \in Neigh, l2[n] /= Absent
    PROVE  Tells(Ups, n, l2[n]) /\ Has(Ups, "UP", n)
<1> DEFINE P == {m \in Neigh : l2[m] /= Absent}
           present == SetToSeq(P)
           C == Cardinality(P)
<1>1. IsFiniteSet(P)
  BY ConstantsAssumption, FS_Subset
<1>2. \E f \in [1 .. C -> P] : IsInjective(f)
  BY <1>1, FS_CardinalityType DEF ExistsBijection, Bijection, Injection, IsInjective
<1>3. present \in [1 .. C -> P] /\ IsInjective(present) /\ C \in Nat
  BY <1>1, <1>2, FS_CardinalityType DEF SetToSeq
<1>4. Ups = [i \in 1 .. C |-> Dest("UP", present[i], l2[present[i]])]
  BY <1>3 DEF Ups
<1>5. n \in P
  OBVIOUS
<1> HIDE DEF present, P, C
<1>6. present \in Injection(1 .. C, P)
  BY <1>3 DEF Injection, IsInjective
<1>7. Cardinality(1 .. C) = C
  BY <1>3, FS_Interval
<1>8. present \in Surjection(1 .. C, P)
  <2>1. Cardinality(1 .. C) = Cardinality(P)
    BY <1>7 DEF C
  <2>2. QED
    BY <1>1, <1>6, <2>1, FS_Injection
<1>9. PICK i \in 1 .. C : present[i] = n
  BY <1>5, <1>8 DEF Surjection
<1>10. \A j \in 1 .. C : j > i => present[j] /= n
  BY <1>3, <1>9 DEF IsInjective
<1>11. DOMAIN Ups = 1 .. C /\ \A j \in 1 .. C : Ups[j] = Dest("UP", present[j], l2[present[j]])
  BY <1>4
<1>12. Ups[i].type = "UP" /\ Ups[i].neigh = n /\ Ups[i].data = l2[n]
  BY <1>9, <1>11, NotAbout
<1>13. \A j \in 1 .. C : j > i => ~About(Ups[j], n)
  BY <1>10, <1>11, NotAbout
<1>14. QED
  BY <1>9, <1>11, <1>12, <1>13 DEF Tells, Has

(* PEER_INITIALIZATION: everybody in the database is announced.            *)
LEMMA RadioInitDelivers ==
    ASSUME DeliveryInv, RadioInit
    PROVE  Delivery' /\ Idle'
<1> DEFINE q == <<Signal("INIT_ACK")>>
           s == q \o Ups
<1>1. /\ radio' = Established /\ SendToRouter(s)
      /\ local' = [n \in Neigh |-> IF l2[n] = Absent THEN local[n] ELSE "UP_SENT"]
      /\ toRadio' = Tail(toRadio)
      /\ UNCHANGED <<l2, router, known>> /\ TypeOK
  BY DEF RadioInit, RadioKeeps, DeliveryInv, Inv
<1>2. /\ IsOpen(radio) /\ Head(toRadio).type = "INIT" /\ toRadio /= <<>>
      /\ IsOpen(radio)'
  BY <1>1, RadioTakesValue, ClosedType DEF RadioInit, DeliveryInv, IsOpen, RadioTakes
<1>3. CASE ~IsOpen(router)
  BY <1>1, <1>2, <1>3 DEF Delivery, Idle, IsOpen
<1>4. CASE IsOpen(router)
  <2>1. q \in Seq(Signals) /\ Ups \in Seq(Signals) /\ s \in Seq(Signals)
    <3>1. q \in Seq(Signals) /\ Ups \in Seq(Signals)
      BY <1>1, UpsType, SignalTypes
    <3>2. QED
      BY <3>1
  <2>2. ASSUME NEW n \in Neigh, l2[n] /= Absent
        PROVE  Fine(n)'
    <3>1. Tells(Ups, n, l2[n]) /\ Has(Ups, "UP", n)
      BY <1>1, <2>2, UpsTell
    <3>2. WillKnow(known, s, n, l2[n]) /\ Has(s, "UP", n)
      BY <2>1, <3>1, Appended
    <3>3. WillKnow(known, toRouter \o s, n, l2[n]) /\ Has(toRouter \o s, "UP", n)
      <4>1. Tells(s, n, l2[n])
        <5>1. ~Silent(Ups, n)
          BY <3>1 DEF Tells, Silent, About
        <5>2. ~Silent(s, n)
          <6>1. PICK i \in DOMAIN Ups : About(Ups[i], n)
            BY <5>1 DEF Silent
          <6> DEFINE e == Len(q) + i
          <6>2. e \in DOMAIN s /\ s[e] = Ups[i]
            BY <2>1
          <6> HIDE DEF e, s
          <6>3. QED
            BY <6>1, <6>2 DEF Silent
        <5>3. QED
          BY <3>2, <5>2 DEF WillKnow
      <4>2. toRouter \in Seq(Signals)
        BY <1>1 DEF TypeOK
      <4> HIDE DEF s
      <4>3. QED
        BY <2>1, <3>2, <4>1, <4>2, Appended
    <3>4. toRouter' = toRouter \o s
      BY <1>1, <1>4 DEF SendToRouter
    <3> HIDE DEF s
    <3>5. QED
      BY <1>1, <3>3, <3>4 DEF Fine, Outstanding
  <2>3. ASSUME NEW n \in Neigh, l2[n] = Absent
        PROVE  Fine(n)'
    <3>1. local'[n] = local[n]
      BY <1>1, <2>3
    <3>2. Fine(n)
      BY <1>2, <1>4 DEF DeliveryInv, Delivery
    <3> HIDE DEF s
    <3>3. Has(toRouter, "UP", n) => Has(toRouter', "UP", n)
      BY <1>1, <1>4, <2>1, SentToRouter
    <3>4. Has(toRadio, "UP_ACK", n) => Has(toRadio', "UP_ACK", n)
      BY <1>1, <1>2, FirstTaken DEF TypeOK
    <3>5. QED
      BY <1>1, <2>3, <3>1, <3>2, <3>3, <3>4 DEF Fine, Outstanding
  <2>4. QED
    BY <1>2, <2>2, <2>3 DEF Delivery, Idle
<1>5. QED
  BY <1>3, <1>4

(* An ack: it settles what its neighbor waited for, and has the metrics    *)
(* sent that changed meanwhile.                                            *)
LEMMA RadioAckDelivers ==
    ASSUME DeliveryInv, RadioAck
    PROVE  Delivery' /\ Idle'
<1> DEFINE h == Head(toRadio)
<1>1. /\ IsOpen(radio) /\ h \in Signals /\ toRadio /= <<>> /\ toRadio \in Seq(Signals)
      /\ h.type \in {"UP_ACK", "DOWN_ACK"}
      /\ TypeOK
  BY RadioTakesValue DEF RadioAck, RadioTakes, DeliveryInv, Inv, TypeOK
<1>2. PICK n \in Neigh : h.neigh = n
  BY <1>1 DEF Signals
<1>3. CASE local[n] = "NONE"
  BY <1>2, <1>3, RadioClosedDelivers DEF RadioAck
<1>4. CASE local[n] /= "NONE"
  <2>1. /\ IF h.type = "UP_ACK" THEN RadioUpAck(n) ELSE RadioDownAck(n)
        /\ toRadio' = Tail(toRadio)
        /\ UNCHANGED <<radio, l2, router, known>>
    BY <1>2, <1>4 DEF RadioAck, RadioKeeps
  <2>2. \A m, t : Has(toRadio, t, m) => Has(toRadio', t, m) \/ (h.type = t /\ h.neigh = m)
    BY <1>1, <2>1, FirstTaken
  <2>3. IsOpen(radio)' /\ (IsOpen(router)' <=> IsOpen(router))
    BY <1>1, <2>1 DEF IsOpen
  <2>4. h.neigh = n
    BY <1>2
  <2> HIDE DEF h
  <2>5. CASE ~IsOpen(router)
    BY <2>3, <2>5 DEF Delivery, Idle
  <2>6. CASE IsOpen(router) /\ UNCHANGED <<local, changed, toRouter>>
                            /\ ~(local[n] = "UP_SENT" /\ h.type = "UP_ACK")
    <3>1. ASSUME NEW m \in Neigh, Fine(m), local[m] /= "NONE" \/ m /= n
          PROVE  Fine(m)'
      <4>1. CASE m /= n \/ h.type /= "UP_ACK"
        <5>1. Outstanding(m) => Outstanding(m)'
          BY <2>2, <2>4, <2>6, <4>1 DEF Outstanding
        <5>2. Undisturbed(m)
          BY <2>1, <2>6, <5>1 DEF Undisturbed, Initialized
        <5>3. QED
          BY <3>1, <5>2, UndisturbedFine
      <4>2. CASE m = n /\ h.type = "UP_ACK"
        <5>1. local[m] /= "UP_SENT" /\ local[m] /= "NONE"
          BY <2>6, <3>1, <4>2
        <5>2. QED
          BY <2>1, <2>6, <3>1, <5>1 DEF Fine, Initialized
      <4>3. QED
        BY <4>1, <4>2
    <3>2. QED
      BY <1>1, <1>4, <2>3, <2>6, <3>1 DEF DeliveryInv, Delivery, Idle
  <2>7. CASE IsOpen(router) /\ h.type = "DOWN_ACK" /\ RadioDownAck(n)
    <3>1. CASE local[n] /= "DOWN_SENT"
      BY <2>6, <2>7, <3>1 DEF RadioDownAck
    <3>2. CASE local[n] = "DOWN_SENT"
      <4>1. local' = [local EXCEPT ![n] = "NONE"] /\ UNCHANGED <<changed, toRouter>>
        BY <2>7, <3>2 DEF RadioDownAck
      <4>2. \A m \in Neigh : Outstanding(m) => Outstanding(m)'
        BY <2>2, <2>7, <4>1 DEF Outstanding
      <4>3. ASSUME NEW m \in Neigh, Fine(m)
            PROVE  Fine(m)'
        <5>1. CASE m /= n
          <6>1. local'[m] = local[m]
            BY <1>1, <4>1, <5>1 DEF TypeOK
          <6>2. Undisturbed(m)
            BY <2>1, <4>1, <4>2, <6>1 DEF Undisturbed, Initialized
          <6>3. QED
            BY <4>3, <6>2, UndisturbedFine
        <5>2. CASE m = n
          <6>1. local'[m] = "NONE"
            BY <1>1, <4>1, <5>2 DEF TypeOK
          <6>2. QED
            BY <2>1, <3>2, <4>1, <4>2, <4>3, <5>2, <6>1 DEF Fine, Initialized
        <5>3. QED
          BY <5>1, <5>2
      <4>4. QED
        BY <1>1, <2>3, <2>7, <4>3 DEF DeliveryInv, Delivery, Idle
    <3>3. QED
      BY <3>1, <3>2
  <2>8. CASE IsOpen(router) /\ h.type = "UP_ACK" /\ local[n] = "UP_SENT"
    <3> DEFINE s == IF n \in changed THEN DestOf("UPDATE", n) ELSE <<>>
    <3>1. /\ local' = [local EXCEPT ![n] = "UP_ACKED"] /\ changed' = changed \ {n}
          /\ SendToRouter(s)
      BY <2>1, <2>8 DEF RadioUpAck
    <3>2. /\ s \in Seq(Signals)
          /\ \A m \in Neigh : m /= n => Silent(s, m)
          /\ n \notin changed => s = <<>>
          /\ n \in changed /\ l2[n] /= Absent => Tells(s, n, l2[n])
      <4>1. CASE n \notin changed \/ l2[n] = Absent
        <5>1. s = <<>>
          BY <4>1 DEF DestOf
        <5>2. QED
          BY <4>1, <5>1, ShortQueues, OneSignal
      <4>2. CASE n \in changed /\ l2[n] /= Absent
        <5> DEFINE d == Dest("UPDATE", n, l2[n])
        <5>1. s = <<d>> /\ l2[n] \in Data
          BY <1>1, <1>2, <4>2 DEF DestOf, TypeOK
        <5>2. d \in Signals /\ d.type = "UPDATE" /\ d.neigh = n /\ d.data = l2[n]
              /\ \A m \in Neigh : m /= n => ~About(d, m)
          BY <1>2, <5>1, SignalTypes, NotAbout
        <5> HIDE DEF d
        <5>3. /\ <<d>> \in Seq(Signals) /\ Tells(<<d>>, n, l2[n])
              /\ \A m \in Neigh : m /= n => Silent(<<d>>, m)
          BY <5>2, OneSignal
        <5>4. QED
          BY <4>2, <5>1, <5>3
      <4>3. QED
        BY <4>1, <4>2
    <3> HIDE DEF s
    <3>3. ASSUME NEW m \in Neigh, Fine(m), m /= n
          PROVE  Fine(m)'
      <4>1. /\ \A v : WillKnow(known, toRouter, m, v) => WillKnow(known, toRouter', m, v)
            /\ Has(toRouter, "UP", m) => Has(toRouter', "UP", m)
        BY <1>1, <2>8, <3>1, <3>2, <3>3, SentToRouter
      <4>2. local'[m] = local[m] /\ (m \in changed' <=> m \in changed)
        BY <1>1, <3>1, <3>3 DEF TypeOK
      <4>3. Outstanding(m) => Outstanding(m)'
        BY <2>2, <2>4, <3>3, <4>1 DEF Outstanding
      <4>4. Undisturbed(m)
        BY <2>1, <4>1, <4>2, <4>3 DEF Undisturbed, Initialized
      <4>5. QED
        BY <3>3, <4>4, UndisturbedFine
    <3>4. ASSUME Fine(n)
          PROVE  Fine(n)'
      <4>1. local'[n] = "UP_ACKED"
        BY <1>1, <1>2, <3>1 DEF TypeOK
      <4>2. ASSUME Initialized(radio)', l2'[n] /= Absent
            PROVE  WillKnow(known', toRouter', n, l2'[n])
        <5>1. Initialized(radio) /\ l2[n] /= Absent
          BY <2>1, <4>2 DEF Initialized
        <5>2. CASE n \in changed
          BY <1>1, <2>1, <2>8, <3>1, <3>2, <5>1, <5>2, SentToRouter
        <5>3. CASE n \notin changed
          <6>1. WillKnow(known, toRouter, n, l2[n])
            BY <2>8, <3>4, <5>1, <5>3 DEF Fine
          <6>2. Silent(s, n)
            BY <3>2, <5>3, OneSignal
          <6>3. QED
            BY <1>1, <2>1, <2>8, <3>1, <3>2, <6>1, <6>2, SentToRouter
        <5>4. QED
          BY <5>2, <5>3
      <4>3. QED
        BY <4>1, <4>2 DEF Fine
    <3>5. QED
      BY <1>1, <1>2, <2>3, <2>8, <3>3, <3>4 DEF DeliveryInv, Delivery, Idle
  <2>9. QED
    BY <1>1, <2>1, <2>5, <2>6, <2>7, <2>8 DEF RadioUpAck
<1>5. QED
  BY <1>3, <1>4

(* Every signal the radio reads.                                           *)
LEMMA RadioReceiveDelivers ==
    ASSUME DeliveryInv, RadioReceive
    PROVE  Delivery' /\ Idle'
<1>1. CASE RadioInit
  BY <1>1, RadioInitDelivers
<1>2. CASE RadioAck
  BY <1>2, RadioAckDelivers
<1>3. CASE RadioHeartbeat \/ RadioTermination
  <2>1. /\ IsOpen(radio) /\ toRadio /= <<>> /\ toRadio \in Seq(Signals)
        /\ Head(toRadio).type \in {"HEARTBEAT", "TERM"} /\ toRadio' = Tail(toRadio)
    BY <1>3 DEF RadioHeartbeat, RadioTermination, RadioTakes, DeliveryInv, Inv, TypeOK
  <2>2. \A n : Has(toRadio, "UP_ACK", n) => Has(toRadio', "UP_ACK", n)
    BY <2>1, FirstTaken
  <2>3. /\ radio \in Session /\ radio' \in {radio, [radio EXCEPT !.remote = TRUE]}
        /\ UNCHANGED <<l2, local, changed, known, router>>
    BY <1>3 DEF RadioHeartbeat, RadioTermination, RadioKeeps, DeliveryInv, Inv, TypeOK
  <2>4. radio'.restrict = radio.restrict
    BY <2>3 DEF Session
  <2>5. \/ UNCHANGED toRouter
        \/ \E s \in Seq(Signals) : SendToRouter(s) /\ \A n : Silent(s, n)
    <3>1. CASE RadioHeartbeat
      BY <3>1 DEF RadioHeartbeat
    <3>2. CASE RadioTermination
      <4>1. SendToRouter(<<Signal("TERM_ACK")>>)
        BY <3>2 DEF RadioTermination
      <4>2. <<Signal("TERM_ACK")>> \in Seq(Signals) /\ \A n : Silent(<<Signal("TERM_ACK")>>, n)
        BY SignalTypes, NotAbout, OneSignal
      <4>3. QED
        BY <4>1, <4>2
    <3>3. QED
      BY <1>3, <3>1, <3>2
  <2>6. QED
    BY <2>1, <2>2, <2>3, <2>4, <2>5, QuietDelivers DEF IsOpen, Initialized
<1>4. CASE RadioDrops
  BY <1>4, RadioClosedDelivers DEF RadioDrops
<1>5. QED
  BY <1>1, <1>2, <1>3, <1>4 DEF RadioReceive

(* A signal the router reads and keeps the session with: what it will know *)
(* stays, and a DESTINATION_UP is acked.                                   *)
LEMMA RouterReadDelivers ==
    ASSUME DeliveryInv, IsOpen(router), IsOpen(radio), IsOpen(radio)',
           toRouter /= <<>>, toRouter' = Tail(toRouter),
           UNCHANGED <<l2, local, changed, radio>>,
           \A n : ~About(Head(toRouter), n) => known'[n] = known[n],
           \A n : /\ About(Head(toRouter), n) /\ Head(toRouter).type /= "DOWN"
                     => known'[n] = Head(toRouter).data,
           \A n : \/ Has(toRadio, "UP_ACK", n)
                  \/ Head(toRouter).type = "UP" /\ Head(toRouter).neigh = n
                  => Has(toRadio', "UP_ACK", n)
    PROVE  Delivery' /\ Idle'
<1>1. toRouter \in Seq(Signals)
  BY DEF DeliveryInv, Inv, TypeOK
<1>2. ASSUME NEW n \in Neigh
      PROVE  Undisturbed(n)
  <2>1. \A v : WillKnow(known, toRouter, n, v) => WillKnow(known', toRouter', n, v)
    BY <1>1, FirstRead
  <2>2. Outstanding(n) => Outstanding(n)'
    BY <1>1, FirstTaken DEF Outstanding
  <2>3. QED
    BY <2>1, <2>2 DEF Undisturbed, Initialized
<1>3. \A n \in Neigh : Fine(n)'
  BY <1>2, UndisturbedFine DEF DeliveryInv, Delivery
<1>4. QED
  BY <1>3 DEF Delivery, Idle

(* Every signal the router reads.                                          *)
LEMMA RouterReceiveDelivers ==
    ASSUME DeliveryInv, RouterReceive
    PROVE  Delivery' /\ Idle'
<1> DEFINE h == Head(toRouter)
<1>1. TypeOK
  BY DEF DeliveryInv, Inv
<1>2. CASE RouterDrops
  <2>1. CloseRouter /\ UNCHANGED <<local, radio>>
    BY <1>2 DEF RouterDrops, radioDb
  <2>2. QED
    BY <2>1, RouterClosedDelivers
<1>3. CASE ~IsOpen(radio) /\ ~RouterDrops
  <2>1. UNCHANGED <<local, radio>>
    BY <1>3 DEF RouterReceive, RouterInitAck, RouterDestination, RouterHeartbeat,
                RouterTermination, RouterTakes, radioDb
  <2>2. ~IsOpen(radio)' /\ Idle'
    BY <1>3, <2>1 DEF DeliveryInv, Idle, IsOpen
  <2>3. QED
    BY <2>2, ClosedDelivers
<1>4. CASE IsOpen(radio) /\ (RouterInitAck \/ RouterHeartbeat \/ RouterTermination)
  <2>1. /\ IsOpen(router) /\ toRouter /= <<>> /\ toRouter' = Tail(toRouter)
        /\ h.type \in {"INIT_ACK", "HEARTBEAT", "TERM"}
        /\ UNCHANGED <<l2, local, changed, radio, known>>
    BY <1>4 DEF RouterInitAck, RouterHeartbeat, RouterTermination, RouterTakes, radioDb
  <2>2. \A n : Has(toRadio, "UP_ACK", n) => Has(toRadio', "UP_ACK", n)
    <3>1. CASE UNCHANGED toRadio
      BY <3>1
    <3>2. CASE SendToRadio(<<Signal("TERM_ACK")>>)
      <4>1. <<Signal("TERM_ACK")>> \in Seq(Signals)
        BY SignalTypes
      <4>2. QED
        BY <1>1, <1>4, <3>2, <4>1, SentToRadio
    <3>3. QED
      BY <1>4, <3>1, <3>2 DEF RouterInitAck, RouterHeartbeat, RouterTermination
  <2>3. \A n : ~About(h, n)
    BY <2>1 DEF About
  <2>4. IsOpen(radio)'
    BY <1>4, <2>1 DEF IsOpen
  <2>5. QED
    BY <1>4, <2>1, <2>2, <2>3, <2>4, RouterReadDelivers
<1>5. CASE IsOpen(radio) /\ RouterDestination
  <2> DEFINE q == CASE h.type = "UP" -> <<Ack("UP_ACK", h.neigh)>>
                    [] h.type = "DOWN" /\ known[h.neigh] /= Absent -> <<Ack("DOWN_ACK", h.neigh)>>
                    [] OTHER -> <<>>
  <2>1. /\ IsOpen(router) /\ toRouter /= <<>> /\ toRouter' = Tail(toRouter)
        /\ h.type \in {"UP", "UPDATE", "DOWN"} /\ h \in Signals
        /\ UNCHANGED <<l2, local, changed, radio>>
    BY <1>1, <1>5, InitAckTail DEF RouterDestination, RouterTakes, radioDb, TypeOK
  <2>2. /\ known' = [known EXCEPT ![h.neigh] = IF h.type = "DOWN" THEN Absent ELSE h.data]
        /\ SendToRadio(q)
    BY <1>5 DEF RouterDestination
  <2>3. h.neigh \in Neigh
    BY <2>1 DEF Signals
  <2>4. q \in Seq(Signals) /\ (h.type = "UP" => Has(q, "UP_ACK", h.neigh))
    <3>1. CASE h.type = "UP"
      <4>1. Ack("UP_ACK", h.neigh) \in Signals
        BY <2>3, SignalTypes
      <4>2. q = <<Ack("UP_ACK", h.neigh)>>
        BY <3>1
      <4>3. QED
        BY <4>1, <4>2, NotAbout, OneSignal
    <3>2. CASE h.type /= "UP"
      BY <2>3, <3>2, SignalTypes, ShortQueues
    <3>3. QED
      BY <3>1, <3>2
  <2> HIDE DEF q, h
  <2>5. \A n : Has(toRadio, "UP_ACK", n) \/ (h.type = "UP" /\ h.neigh = n)
                 => Has(toRadio', "UP_ACK", n)
    BY <1>1, <1>5, <2>2, <2>4, SentToRadio
  <2>6. known \in [Neigh -> {Absent} \cup Data]
    BY <1>1 DEF TypeOK
  <2>7. \A n : ~About(h, n) => known'[n] = known[n]
    BY <2>1, <2>2, <2>6 DEF About
  <2>8. \A n : About(h, n) /\ h.type /= "DOWN" => known'[n] = h.data
    BY <2>2, <2>3, <2>6 DEF About
  <2>9. IsOpen(radio)'
    BY <1>5, <2>1 DEF IsOpen
  <2>10. QED
    BY <1>5, <2>1, <2>5, <2>7, <2>8, <2>9, RouterReadDelivers DEF h
<1>6. QED
  BY <1>2, <1>3, <1>4, <1>5 DEF RouterReceive

(* The timers of both ends.                                                *)
LEMMA TimerDelivers ==
    ASSUME DeliveryInv, Timer
    PROVE  Delivery' /\ Idle'
<1>1. TypeOK /\ Fresh
  BY DEF DeliveryInv, Inv
<1>2. CASE RadioStreamTimeout
  BY <1>2, RadioClosedDelivers DEF RadioStreamTimeout
<1>3. CASE RouterStreamTimeout
  <2>1. CloseRouter /\ UNCHANGED <<local, radio>>
    BY <1>3 DEF RouterStreamTimeout, radioDb
  <2>2. QED
    BY <2>1, RouterClosedDelivers
<1>4. CASE RadioHeartbeatTimeout \/ RadioSendsHeartbeat
  <2>1. /\ UNCHANGED <<l2, local, changed, known, router, toRadio>>
        /\ radio' \in {radio, Expired(radio)}
        /\ \E q \in {Farewell(radio), <<Signal("HEARTBEAT")>>} : SendToRouter(q)
    BY <1>4 DEF RadioHeartbeatTimeout, RadioSendsHeartbeat, radioDb
  <2>2. IsOpen(radio) /\ radio \in Session
    BY <1>1, <1>4, ClosedType DEF RadioHeartbeatTimeout, RadioSendsHeartbeat, Fresh, TypeOK
  <2>3. /\ <<Signal("HEARTBEAT")>> \in Seq(Signals) /\ Farewell(radio) \in Seq(Signals)
        /\ \A n : Silent(<<Signal("HEARTBEAT")>>, n) /\ Silent(Farewell(radio), n)
    BY <2>2, ExpiredType, SignalTypes, NotAbout, OneSignal DEF Farewell
  <2>4. IsOpen(radio)' /\ (Initialized(radio)' => Initialized(radio))
    BY <2>1, <2>2, ExpiredType DEF IsOpen, Initialized
  <2>5. \E q \in Seq(Signals) : SendToRouter(q) /\ \A n : Silent(q, n)
    BY <2>1, <2>3
  <2>6. QED
    BY <2>1, <2>2, <2>4, <2>5, QuietDelivers DEF IsOpen
<1>5. CASE RouterHeartbeatTimeout \/ RouterSendsHeartbeat
  <2>1. /\ UNCHANGED <<l2, local, changed, known, radio, toRouter>>
        /\ \E q \in {Farewell(router), <<Signal("HEARTBEAT")>>} : SendToRadio(q)
    BY <1>5 DEF RouterHeartbeatTimeout, RouterSendsHeartbeat, radioDb
  <2>2. IsOpen(router) /\ router \in Session
    BY <1>1, <1>5, ClosedType DEF RouterHeartbeatTimeout, RouterSendsHeartbeat, Fresh, TypeOK
  <2>3. <<Signal("HEARTBEAT")>> \in Seq(Signals) /\ Farewell(router) \in Seq(Signals)
    BY <2>2, ExpiredType, SignalTypes
  <2>4. PICK q \in Seq(Signals) : SendToRadio(q)
    BY <2>1, <2>3
  <2>5. CASE IsOpen(radio)
    <3>1. \A n : Has(toRadio, "UP_ACK", n) => Has(toRadio', "UP_ACK", n)
      BY <1>1, <2>4, <2>5, SentToRadio
    <3>2. QED
      BY <2>1, <2>2, <3>1, QuietDelivers DEF IsOpen, Initialized
  <2>6. CASE ~IsOpen(radio)
    <3>1. ~IsOpen(radio)' /\ Idle'
      BY <2>1, <2>6 DEF DeliveryInv, Idle, IsOpen
    <3>2. QED
      BY <3>1, ClosedDelivers
  <2>7. QED
    BY <2>5, <2>6
<1>6. QED
  BY <1>2, <1>3, <1>4, <1>5 DEF Timer
-----------------------------------------------------------------------------
(* The delivery of metrics is an invariant.                                *)
LEMMA DeliveryInvariant == Spec => []DeliveryInv
<1>1. ASSUME Init
      PROVE  DeliveryInv
  BY <1>1, InitInv, ClosedType DEF Init, DeliveryInv, Delivery, Idle
<1>2. ASSUME DeliveryInv, [Next]_vars
      PROVE  DeliveryInv'
  <2>1. CASE Discover \/ OfferLost \/ Accept
    BY <1>2, <2>1, OpeningDelivers, NextInv DEF DeliveryInv
  <2>2. ASSUME NEW n \in Neigh, L2Event(n)
        PROVE  Delivery' /\ Idle'
    BY <1>2, <2>2, L2EventDelivers
  <2>3. CASE RadioReceive
    BY <1>2, <2>3, RadioReceiveDelivers, NextInv DEF DeliveryInv
  <2>4. CASE RouterReceive
    BY <1>2, <2>4, RouterReceiveDelivers, NextInv DEF DeliveryInv
  <2>5. CASE Timer
    BY <1>2, <2>5, TimerDelivers, NextInv DEF DeliveryInv
  <2>6. CASE RadioDies
    BY <1>2, <2>6, RadioClosedDelivers, NextInv DEF DeliveryInv
  <2>7. CASE RouterRestart
    <3>1. CloseRouter /\ UNCHANGED <<local, radio>>
      BY <2>7 DEF RouterRestart, radioDb
    <3>2. QED
      BY <1>2, <3>1, RouterClosedDelivers, NextInv DEF DeliveryInv
  <2>8. CASE LinkChanges \/ UNCHANGED vars
    <3>1. UNCHANGED <<l2, local, changed, known, radio, router, toRadio, toRouter>>
      BY <2>8 DEF LinkChanges, vars, radioDb
    <3>2. Delivery' /\ Idle'
      BY <1>2, <3>1, QuietDelivers DEF IsOpen, Initialized
    <3>3. QED
      BY <1>2, <3>2, NextInv DEF DeliveryInv
  <2>9. QED
    BY <1>2, <2>1, <2>2, <2>3, <2>4, <2>5, <2>6, <2>7, <2>8, NextInv DEF Next, DeliveryInv
<1>3. QED
  BY <1>1, <1>2, PTL DEF Spec

(* No metrics are lost, however they change, and whatever acks, timeouts,  *)
(* connections and processes do: in an established session without signals *)
(* under way, the router knows the metrics of every neighbor.              *)
THEOREM MetricsArrive == Spec => []NothingLost
<1>1. ASSUME DeliveryInv, InSync, NEW n \in Neigh, l2[n] /= Absent
      PROVE  known[n] = l2[n]
  <2>1. Fine(n) /\ Initialized(radio)
    BY <1>1 DEF DeliveryInv, Delivery, InSync, IsOpen, Initialized
  <2>2. ~Outstanding(n)
    BY <1>1, OneSignal DEF InSync, Outstanding
  <2>3. WillKnow(known, <<>>, n, l2[n])
    BY <1>1, <2>1, <2>2 DEF Fine, InSync
  <2>4. QED
    BY <2>3 DEF WillKnow, Tells
<1>2. DeliveryInv => NothingLost
  BY <1>1 DEF NothingLost
<1>3. QED
  BY <1>2, DeliveryInvariant, PTL
=============================================================================
