--------------------------- MODULE OlsrFloodProofs ---------------------------
(***************************************************************************)
(* For any number of routers, any mesh and any priorities of addresses,    *)
(* whatever is lost and in whatever order packets go out: flooding keeps   *)
(* the promise of TcBroadcast, and a flood ends without the hop limit.     *)
(*                                                                         *)
(* The inductive invariant says what holds of the copies of TCs that are   *)
(* under way, in queues and inboxes: somebody made them, the router that   *)
(* made them still knows its originator, and their hop limit counts the    *)
(* routers that noted them as forwarded, their maker not among them.       *)
(***************************************************************************)
EXTENDS OlsrFlood, FiniteSetTheorems, TLAPS

(* The copies of TCs in queues and inboxes.                                *)
Flying ==
    {c \in Copy : \E r \in Routers :
       \/ \E i \in DOMAIN queue[r] : queue[r][i] = c
       \/ \E i \in DOMAIN inbox[r] : inbox[r][i].msg = c}

MadeKeys == {Key(m.tc) : m \in made}
ForwardedBy(k) == {s \in Routers : k \in forwarded[s]}

(* Numbers of messages and ANSNs are used up by TCs that were made.        *)
CountersInv ==
    /\ IsFiniteSet(made)
    /\ Cardinality(made) <= MaxTcs
    /\ \A r \in Routers : /\ mseq[r] <= Cardinality(made)
                          /\ ansn[r] <= Cardinality(made)
                          /\ metrics[r] <= MaxMetrics

(* Originators are addresses of their router.                              *)
OriginatorInv ==
    \A r \in Routers : /\ ifaddr[r] \subseteq AddressesOf[r]
                       /\ orig[r] \in AddressesOf[r] \cup {NoAddress}
                       /\ old[r] \subseteq AddressesOf[r]

(* A TC has an originator and a number of its maker, which never relays    *)
(* it.                                                                     *)
MadeInv ==
    \A m \in made : /\ m.maker \in MayMake
                    /\ m.tc.orig \in AddressesOf[m.maker]
                    /\ m.tc.seqno <= mseq[m.maker]
                    /\ Key(m.tc) \notin forwarded[m.maker]

(* What is noted as processed or forwarded was made.                       *)
NotedInv ==
    \A r \in Routers : processed[r] \subseteq MadeKeys /\ forwarded[r] \subseteq MadeKeys

(* What is under way was made, its maker knows it for its own, and its hop *)
(* limit has gone down once for each router that noted it, or less.        *)
CopyInv(c) ==
    /\ \E m \in made : m.tc = c.tc
    /\ \A r \in Routers : c.tc.orig \in AddressesOf[r] => IsLocal(r, c.tc.orig)
    /\ c.hoplimit >= HopLimit - Cardinality(ForwardedBy(Key(c.tc)))
FlyingInv == \A c \in Flying : CopyInv(c)

Inv == TypeOK /\ CountersInv /\ OriginatorInv /\ MadeInv /\ NotedInv /\ FlyingInv
-----------------------------------------------------------------------------
(* Sequences: what is in them after an operation was there before.         *)
LEMMA AppendElements ==
    ASSUME NEW S, NEW s \in Seq(S), NEW e \in S, NEW i \in DOMAIN Append(s, e)
    PROVE  \/ Append(s, e)[i] = e
           \/ i \in DOMAIN s /\ Append(s, e)[i] = s[i]
OBVIOUS

(* The elements of a tail are those of its sequence.                       *)
LEMMA TailElements ==
    ASSUME NEW S, NEW s \in Seq(S), s /= <<>>
    PROVE  /\ Tail(s) \in Seq(S)
           /\ Head(s) \in S /\ 1 \in DOMAIN s /\ Head(s) = s[1]
           /\ \A i \in DOMAIN Tail(s) : i + 1 \in DOMAIN s /\ Tail(s)[i] = s[i + 1]
OBVIOUS

(* The elements of a concatenation are those of its parts.                 *)
LEMMA ConcatElements ==
    ASSUME NEW S, NEW s \in Seq(S), NEW t \in Seq(S)
    PROVE  /\ s \o t \in Seq(S)
           /\ \A i \in DOMAIN (s \o t) :
                 \/ i \in DOMAIN s /\ (s \o t)[i] = s[i]
                 \/ i - Len(s) \in DOMAIN t /\ (s \o t)[i] = t[i - Len(s)]
OBVIOUS

(* The packets of a flush are as many as the messages of the queue.        *)
LEMMA FlushElements ==
    ASSUME NEW q \in Seq(Copy), NEW r \in Routers
    PROVE  /\ [i \in DOMAIN q |-> [from |-> r, msg |-> q[i]]] \in Seq([from : Routers, msg : Copy])
           /\ DOMAIN [i \in DOMAIN q |-> [from |-> r, msg |-> q[i]]] = DOMAIN q
<1> DEFINE packets == [i \in DOMAIN q |-> [from |-> r, msg |-> q[i]]]
<1>1. DOMAIN q = 1 .. Len(q) /\ Len(q) \in Nat /\ \A i \in DOMAIN q : q[i] \in Copy
  OBVIOUS
<1>2. packets \in [1 .. Len(q) -> [from : Routers, msg : Copy]]
  BY <1>1
<1>3. packets \in Seq([from : Routers, msg : Copy])
  BY <1>1, <1>2
<1>4. QED
  BY <1>3

(* Addresses tell their router.                                            *)
LEMMA OneOwner ==
    ASSUME NEW r \in Routers, NEW s \in Routers, NEW a \in AddressesOf[r], a \in AddressesOf[s]
    PROVE  r = s
BY MeshAssumption
-----------------------------------------------------------------------------
(* Addresses of a router are addresses, and NoAddress is none.             *)
LEMMA OwnAddresses ==
    ASSUME NEW r \in Routers
    PROVE  AddressesOf[r] \subseteq Addresses /\ NoAddress \notin AddressesOf[r]
BY MeshAssumption DEF Addresses

(* An interface event keeps the originators addresses of the router, and   *)
(* no originator is forgotten.                                             *)
LEMMA InterfaceEventNames ==
    ASSUME TypeOK, OriginatorInv, NEW r \in Routers, NEW as \in SUBSET AddressesOf[r],
           InterfaceEvent(r, as)
    PROVE  /\ ifaddr' \in [Routers -> SUBSET Addresses]
           /\ orig' \in [Routers -> Addresses \cup {NoAddress}]
           /\ old' \in [Routers -> SUBSET Addresses]
           /\ OriginatorInv'
           /\ \A s \in Routers : \A a \in AddressesOf[s] : IsLocal(s, a) => IsLocal(s, a)'
<1>1. /\ ifaddr' = [ifaddr EXCEPT ![r] = as] /\ ifaddr'[r] = as
      /\ ifaddr' \in [Routers -> SUBSET Addresses]
      /\ \A s \in Routers : ifaddr'[s] \subseteq AddressesOf[s]
  BY OwnAddresses DEF InterfaceEvent, TypeOK, OriginatorInv
<1>2. CASE UNCHANGED <<orig, old>>
  BY <1>1, <1>2 DEF TypeOK, OriginatorInv, IsLocal
<1>3. ASSUME NEW a \in AddressesOf[r], SetOriginator(r, a)
      PROVE  /\ orig' \in [Routers -> Addresses \cup {NoAddress}]
             /\ old' \in [Routers -> SUBSET Addresses]
             /\ \A s \in Routers : /\ orig'[s] \in AddressesOf[s] \cup {NoAddress}
                                   /\ old'[s] \subseteq AddressesOf[s]
             /\ \A s \in Routers : \A b \in AddressesOf[s] : IsLocal(s, b) => IsLocal(s, b)'
  <2> DEFINE kept == (IF orig[r] = NoAddress THEN old[r] ELSE old[r] \cup {orig[r]}) \ {a}
  <2>1. orig' = [orig EXCEPT ![r] = a] /\ old' = [old EXCEPT ![r] = kept]
    BY <1>3 DEF SetOriginator
  <2>2. kept \subseteq AddressesOf[r]
    BY DEF OriginatorInv
  <2>3. /\ orig'[r] = a /\ old'[r] = kept
        /\ \A s \in Routers \ {r} : orig'[s] = orig[s] /\ old'[s] = old[s]
    BY <2>1 DEF TypeOK
  <2>4. \A b \in AddressesOf[r] : b = orig[r] \/ b \in old[r] => b = a \/ b \in kept
    BY OwnAddresses
  <2> HIDE DEF kept
  <2>5. orig' \in [Routers -> Addresses \cup {NoAddress}]
    BY <2>1, OwnAddresses DEF TypeOK
  <2>6. old' \in [Routers -> SUBSET Addresses]
    BY <2>1, <2>2, OwnAddresses DEF TypeOK
  <2>7. \A s \in Routers : \A b \in AddressesOf[s] : IsLocal(s, b) => IsLocal(s, b)'
    BY <2>3, <2>4 DEF IsLocal
  <2>8. QED
    BY <2>2, <2>3, <2>5, <2>6, <2>7 DEF OriginatorInv
<1>4. \/ UNCHANGED <<orig, old>>
      \/ \E a \in AddressesOf[r] : SetOriginator(r, a)
  BY <1>1 DEF InterfaceEvent, UpdateOriginator
<1>5. QED
  BY <1>1, <1>2, <1>3, <1>4 DEF OriginatorInv

(* What is in the queues and inboxes is a copy, with its TC and its hop    *)
(* limit.                                                                  *)
LEMMA CopyFields ==
    ASSUME NEW c \in Copy
    PROVE  /\ c.tc \in Tc /\ c.hoplimit \in 0 .. HopLimit
           /\ c.tc.orig \in Addresses /\ c.tc.seqno \in 1 .. MaxTcs
           /\ Key(c.tc) \in Addresses \X Nat
BY DEF Copy, Tc, Key

(* The packet a router reads.                                              *)
LEMMA HeadFlies ==
    ASSUME TypeOK, NEW r \in Routers, inbox[r] /= <<>>
    PROVE  /\ Head(inbox[r]) \in [from : Routers, msg : Copy]
           /\ Head(inbox[r]).msg \in Flying
<1>1. inbox[r] \in Seq([from : Routers, msg : Copy])
  BY DEF TypeOK
<1>2. /\ Head(inbox[r]) \in [from : Routers, msg : Copy]
      /\ 1 \in DOMAIN inbox[r] /\ Head(inbox[r]) = inbox[r][1]
  BY <1>1, TailElements
<1>3. QED
  BY <1>2 DEF Flying

(* Reading a packet puts nothing new on its way.                           *)
LEMMA TakeHeadFlying ==
    ASSUME TypeOK, NEW r \in Routers, inbox[r] /= <<>>, TakeHead(r)
    PROVE  /\ inbox' \in [Routers -> Seq([from : Routers, msg : Copy])]
           /\ \A s \in Routers : \A i \in DOMAIN inbox'[s] :
                \E j \in DOMAIN inbox[s] : inbox'[s][i] = inbox[s][j]
<1>1. \A s \in Routers : inbox[s] \in Seq([from : Routers, msg : Copy])
  BY DEF TypeOK
<1>2. /\ Tail(inbox[r]) \in Seq([from : Routers, msg : Copy])
      /\ \A i \in DOMAIN Tail(inbox[r]) :
           i + 1 \in DOMAIN inbox[r] /\ Tail(inbox[r])[i] = inbox[r][i + 1]
  BY <1>1, TailElements
<1>3. /\ inbox'[r] = Tail(inbox[r])
      /\ \A s \in Routers \ {r} : inbox'[s] = inbox[s]
      /\ inbox' = [inbox EXCEPT ![r] = Tail(inbox[r])]
  BY DEF TakeHead, TypeOK
<1>4. inbox' \in [Routers -> Seq([from : Routers, msg : Copy])]
  BY <1>2, <1>3 DEF TypeOK
<1>5. ASSUME NEW s \in Routers, NEW i \in DOMAIN inbox'[s]
      PROVE  \E j \in DOMAIN inbox[s] : inbox'[s][i] = inbox[s][j]
  <2>1. CASE s = r
    <3>1. inbox'[s] = Tail(inbox[r])
      BY <1>3, <2>1
    <3>2. i + 1 \in DOMAIN inbox[s] /\ inbox'[s][i] = inbox[s][i + 1]
      BY <1>2, <2>1, <3>1
    <3>3. QED
      BY <3>2
  <2>2. CASE s /= r
    BY <1>3, <2>2
  <2>3. QED
    BY <2>1, <2>2
<1>6. QED
  BY <1>4, <1>5

(* Enqueueing puts one copy on its way.                                    *)
LEMMA EnqueueFlying ==
    ASSUME TypeOK, NEW r \in Routers, NEW c \in Copy, Enqueue(r, c)
    PROVE  /\ queue' \in [Routers -> Seq(Copy)]
           /\ aggregation' \in [Routers -> BOOLEAN]
           /\ \A s \in Routers : \A i \in DOMAIN queue'[s] :
                \/ queue'[s][i] = c
                \/ \E j \in DOMAIN queue[s] : queue'[s][i] = queue[s][j]
<1>1. \A s \in Routers : queue[s] \in Seq(Copy)
  BY DEF TypeOK
<1>2. Append(queue[r], c) \in Seq(Copy)
  BY <1>1
<1>3. /\ queue' = [queue EXCEPT ![r] = Append(queue[r], c)]
      /\ queue'[r] = Append(queue[r], c)
      /\ \A s \in Routers \ {r} : queue'[s] = queue[s]
      /\ aggregation' \in [Routers -> BOOLEAN]
  BY DEF Enqueue, TypeOK
<1>4. \A i \in DOMAIN Append(queue[r], c) :
        \/ Append(queue[r], c)[i] = c
        \/ i \in DOMAIN queue[r] /\ Append(queue[r], c)[i] = queue[r][i]
  BY <1>1, AppendElements
<1>5. queue' \in [Routers -> Seq(Copy)]
  BY <1>2, <1>3 DEF TypeOK
<1>6. QED
  BY <1>3, <1>4, <1>5

(* A flush moves the copies of a queue to inboxes.                         *)
LEMMA FlushFlying ==
    ASSUME TypeOK, NEW r \in Routers, Flush(r)
    PROVE  /\ inbox' \in [Routers -> Seq([from : Routers, msg : Copy])]
           /\ queue' \in [Routers -> Seq(Copy)] /\ aggregation' \in [Routers -> BOOLEAN]
           /\ Flying' \subseteq Flying
<1> DEFINE Packet == [from : Routers, msg : Copy]
           packets == [i \in DOMAIN queue[r] |-> [from |-> r, msg |-> queue[r][i]]]
<1>1. /\ \A s \in Routers : queue[s] \in Seq(Copy) /\ inbox[s] \in Seq(Packet)
      /\ packets \in Seq(Packet) /\ DOMAIN packets = DOMAIN queue[r]
  BY FlushElements DEF TypeOK
<1>2. PICK receivers \in SUBSET mesh.hears[r] :
        inbox' = [s \in Routers |-> IF s \in receivers THEN inbox[s] \o packets ELSE inbox[s]]
  BY DEF Flush
<1>3. /\ queue' = [queue EXCEPT ![r] = <<>>]
      /\ queue' \in [Routers -> Seq(Copy)] /\ aggregation' \in [Routers -> BOOLEAN]
      /\ \A s \in Routers : \A i \in DOMAIN queue'[s] :
           i \in DOMAIN queue[s] /\ queue'[s][i] = queue[s][i]
  BY DEF Flush, TypeOK
<1>4. \A i \in DOMAIN packets : packets[i].msg = queue[r][i]
  BY <1>1
<1> HIDE DEF packets
<1>5. ASSUME NEW s \in Routers
      PROVE  /\ inbox'[s] \in Seq(Packet)
             /\ \A i \in DOMAIN inbox'[s] :
                  \/ \E j \in DOMAIN inbox[s] : inbox'[s][i] = inbox[s][j]
                  \/ \E j \in DOMAIN packets : inbox'[s][i] = packets[j]
  <2>1. CASE s \in receivers
    <3>1. inbox'[s] = inbox[s] \o packets
      BY <1>2, <2>1
    <3>2. \A i \in DOMAIN (inbox[s] \o packets) :
            \/ i \in DOMAIN inbox[s] /\ (inbox[s] \o packets)[i] = inbox[s][i]
            \/ /\ i - Len(inbox[s]) \in DOMAIN packets
               /\ (inbox[s] \o packets)[i] = packets[i - Len(inbox[s])]
      BY <1>1, ConcatElements
    <3>3. inbox[s] \o packets \in Seq(Packet)
      BY <1>1, ConcatElements
    <3> HIDE DEF Packet
    <3>4. QED
      BY <3>1, <3>2, <3>3
  <2>2. CASE s \notin receivers
    BY <1>1, <1>2, <2>2
  <2>3. QED
    BY <2>1, <2>2
<1>6. inbox' \in [Routers -> Seq(Packet)]
  BY <1>2, <1>5
<1>7. ASSUME NEW c \in Flying'
      PROVE  c \in Flying
  <2>1. PICK s \in Routers : \/ \E i \in DOMAIN queue'[s] : queue'[s][i] = c
                            \/ \E i \in DOMAIN inbox'[s] : inbox'[s][i].msg = c
    BY <1>7 DEF Flying
  <2>2. c \in Copy
    BY <1>7 DEF Flying
  <2>3. ASSUME NEW i \in DOMAIN queue'[s], queue'[s][i] = c
        PROVE  c \in Flying
    BY <1>3, <2>2, <2>3 DEF Flying
  <2>4. ASSUME NEW i \in DOMAIN inbox'[s], inbox'[s][i].msg = c
        PROVE  c \in Flying
    <3>1. CASE \E j \in DOMAIN inbox[s] : inbox'[s][i] = inbox[s][j]
      BY <2>2, <2>4, <3>1 DEF Flying
    <3>2. CASE \E j \in DOMAIN packets : inbox'[s][i] = packets[j]
      BY <1>1, <1>4, <2>2, <2>4, <3>2 DEF Flying
    <3>3. QED
      BY <1>5, <2>4, <3>1, <3>2
  <2>5. QED
    BY <2>1, <2>3, <2>4
<1>8. QED
  BY <1>3, <1>6, <1>7
-----------------------------------------------------------------------------
(* The routers that noted a TC are finitely many.                          *)
LEMMA ForwardedByFinite ==
    ASSUME NEW k
    PROVE  /\ IsFiniteSet(ForwardedBy(k)) /\ Cardinality(ForwardedBy(k)) \in Nat
           /\ IsFiniteSet(ForwardedBy(k)') /\ Cardinality(ForwardedBy(k)') \in Nat
<1>1. ForwardedBy(k) \subseteq Routers /\ ForwardedBy(k)' \subseteq Routers
  BY DEF ForwardedBy
<1>2. QED
  BY <1>1, MeshAssumption, FS_Subset, FS_CardinalityType

(* A copy stays right while nobody forgets what it made, noted or was      *)
(* called.                                                                 *)
LEMMA CopyStays ==
    ASSUME NEW c \in Copy, CopyInv(c),
           made \subseteq made',
           \A s \in Routers : forwarded[s] \subseteq forwarded'[s],
           \A s \in Routers : c.tc.orig \in AddressesOf[s] /\ IsLocal(s, c.tc.orig)
                               => IsLocal(s, c.tc.orig)'
    PROVE  CopyInv(c)'
<1> DEFINE k == Key(c.tc)
<1>1. ForwardedBy(k) \subseteq ForwardedBy(k)'
  BY DEF ForwardedBy
<1>2. Cardinality(ForwardedBy(k)) <= Cardinality(ForwardedBy(k)')
  BY <1>1, ForwardedByFinite, FS_Subset
<1>3. c.hoplimit >= HopLimit - Cardinality(ForwardedBy(k)')
  BY <1>2, ForwardedByFinite, CopyFields, MeshAssumption DEF CopyInv
<1>4. QED
  BY <1>3 DEF CopyInv

(* Nothing new under way: what is the case for the copies stays so.        *)
LEMMA FlyingStays ==
    ASSUME FlyingInv, Flying' \subseteq Flying,
           made \subseteq made',
           \A s \in Routers : forwarded[s] \subseteq forwarded'[s],
           \A c \in Flying : \A s \in Routers :
              c.tc.orig \in AddressesOf[s] /\ IsLocal(s, c.tc.orig) => IsLocal(s, c.tc.orig)'
    PROVE  FlyingInv'
<1>1. ASSUME NEW c \in Flying'
      PROVE  CopyInv(c)'
  <2>1. c \in Flying /\ c \in Copy /\ CopyInv(c)
    BY <1>1 DEF FlyingInv, Flying
  <2>2. QED
    BY <2>1, CopyStays
<1>2. QED
  BY <1>1 DEF FlyingInv
-----------------------------------------------------------------------------
(* An interface event may change the originator, and sends nothing.        *)
LEMMA InterfaceEventKeeps ==
    ASSUME Inv, NEW r \in Routers, NEW as \in SUBSET AddressesOf[r], InterfaceEvent(r, as)
    PROVE  Inv'
<1>1. /\ ifaddr' \in [Routers -> SUBSET Addresses]
      /\ orig' \in [Routers -> Addresses \cup {NoAddress}]
      /\ old' \in [Routers -> SUBSET Addresses]
      /\ OriginatorInv'
      /\ \A s \in Routers : \A a \in AddressesOf[s] : IsLocal(s, a) => IsLocal(s, a)'
  BY InterfaceEventNames DEF Inv
<1>2. UNCHANGED <<mesh, mseq, ansn, metrics, dirty, processed, forwarded, topo, queue,
                  aggregation, inbox, made>>
  BY DEF InterfaceEvent
<1>3. Flying' = Flying
  BY <1>2 DEF Flying
<1>4. TypeOK'
  BY <1>1, <1>2 DEF Inv, TypeOK
<1>5. FlyingInv'
  BY <1>1, <1>2, <1>3, FlyingStays DEF Inv
<1>6. CountersInv' /\ MadeInv' /\ NotedInv'
  BY <1>2 DEF Inv, CountersInv, MadeInv, NotedInv, MadeKeys
<1>7. QED
  BY <1>1, <1>4, <1>5, <1>6 DEF Inv

(* Forgetting an old originator nothing under way carries.                 *)
LEMMA OldOriginatorExpiresKeeps ==
    ASSUME Inv, NEW r \in Routers, NEW a \in AddressesOf[r], OldOriginatorExpires(r, a)
    PROVE  Inv'
<1>1. UNCHANGED <<mesh, ifaddr, orig, mseq, ansn, metrics, dirty, processed, forwarded,
                  topo, queue, aggregation, inbox, made>>
  BY DEF OldOriginatorExpires, state
<1>2. /\ old' \in [Routers -> SUBSET Addresses]
      /\ old'[r] = old[r] \ {a}
      /\ \A s \in Routers \ {r} : old'[s] = old[s]
  BY DEF OldOriginatorExpires, Inv, TypeOK
<1>3. Flying' = Flying
  BY <1>1 DEF Flying
<1>4. \A c \in Flying : c.tc.orig /= a
  BY DEF OldOriginatorExpires, UnderWay, Flying
<1>5. FlyingInv'
  <2>1. \A c \in Flying : \A s \in Routers : IsLocal(s, c.tc.orig) => IsLocal(s, c.tc.orig)'
    BY <1>1, <1>2, <1>4 DEF IsLocal
  <2>2. QED
    BY <1>1, <1>3, <2>1, FlyingStays DEF Inv
<1>6. TypeOK'
  BY <1>1, <1>2 DEF Inv, TypeOK
<1>7. OriginatorInv'
  BY <1>1, <1>2 DEF Inv, OriginatorInv
<1>8. CountersInv' /\ MadeInv' /\ NotedInv'
  BY <1>1 DEF Inv, CountersInv, MadeInv, NotedInv, MadeKeys
<1>9. QED
  BY <1>5, <1>6, <1>7, <1>8 DEF Inv

(* New metrics only make the next TC dirty.                                *)
LEMMA NeighborMetricChangesKeeps ==
    ASSUME Inv, NEW r \in Routers, NeighborMetricChanges(r)
    PROVE  Inv'
<1>1. UNCHANGED <<mesh, ifaddr, orig, old, mseq, ansn, processed, forwarded,
                  topo, queue, aggregation, inbox, made>>
  BY DEF NeighborMetricChanges
<1>2. /\ metrics' \in [Routers -> Nat] /\ dirty' \in [Routers -> BOOLEAN]
      /\ \A s \in Routers : metrics'[s] <= MaxMetrics
  BY MeshAssumption DEF NeighborMetricChanges, Inv, TypeOK, CountersInv
<1>3. Flying' = Flying
  BY <1>1 DEF Flying
<1>4. FlyingInv'
  BY <1>1, <1>3, FlyingStays DEF Inv, IsLocal
<1>5. TypeOK'
  BY <1>1, <1>2 DEF Inv, TypeOK
<1>6. CountersInv' /\ OriginatorInv' /\ MadeInv' /\ NotedInv'
  BY <1>1, <1>2 DEF Inv, CountersInv, OriginatorInv, MadeInv, NotedInv, MadeKeys
<1>7. QED
  BY <1>4, <1>5, <1>6 DEF Inv

(* A packet carries the queued copies to the neighbors unchanged.          *)
LEMMA FlushKeeps ==
    ASSUME Inv, NEW r \in Routers, Flush(r)
    PROVE  Inv'
<1>1. UNCHANGED <<mesh, ifaddr, orig, old, metrics, mseq, ansn, dirty, processed,
                  forwarded, topo, made>>
  BY DEF Flush, naming
<1>2. /\ inbox' \in [Routers -> Seq([from : Routers, msg : Copy])]
      /\ queue' \in [Routers -> Seq(Copy)] /\ aggregation' \in [Routers -> BOOLEAN]
      /\ Flying' \subseteq Flying
  BY FlushFlying DEF Inv
<1>3. FlyingInv'
  BY <1>1, <1>2, FlyingStays DEF Inv, IsLocal
<1>4. TypeOK'
  BY <1>1, <1>2 DEF Inv, TypeOK
<1>5. CountersInv' /\ OriginatorInv' /\ MadeInv' /\ NotedInv'
  BY <1>1 DEF Inv, CountersInv, OriginatorInv, MadeInv, NotedInv, MadeKeys
<1>6. QED
  BY <1>3, <1>4, <1>5 DEF Inv

(* What flies after a step that puts at most the copies of News on their    *)
(* way.                                                                    *)
LEMMA FlyingGrows ==
    ASSUME NEW News,
           \A s \in Routers : \A i \in DOMAIN inbox'[s] :
              \/ inbox'[s][i].msg \in News
              \/ \E j \in DOMAIN inbox[s] : inbox'[s][i] = inbox[s][j],
           \A s \in Routers : \A i \in DOMAIN queue'[s] :
              \/ queue'[s][i] \in News
              \/ \E j \in DOMAIN queue[s] : queue'[s][i] = queue[s][j]
    PROVE  Flying' \subseteq Flying \cup News
<1>1. ASSUME NEW c \in Flying'
      PROVE  c \in Flying \cup News
  <2>1. PICK s \in Routers : \/ \E i \in DOMAIN queue'[s] : queue'[s][i] = c
                            \/ \E i \in DOMAIN inbox'[s] : inbox'[s][i].msg = c
    BY <1>1 DEF Flying
  <2>2. c \in Copy
    BY <1>1 DEF Flying
  <2>3. ASSUME NEW i \in DOMAIN queue'[s], queue'[s][i] = c
        PROVE  c \in Flying \cup News
    BY <2>2, <2>3 DEF Flying
  <2>4. ASSUME NEW i \in DOMAIN inbox'[s], inbox'[s][i].msg = c
        PROVE  c \in Flying \cup News
    BY <2>2, <2>4 DEF Flying
  <2>5. QED
    BY <2>1, <2>3, <2>4
<1>2. QED
  BY <1>1

(* A router that hears itself drops the message.                           *)
LEMMA HearOwnKeeps ==
    ASSUME Inv, NEW r \in Routers, HearOwn(r)
    PROVE  Inv'
<1>1. UNCHANGED <<mesh, ifaddr, orig, old, metrics, mseq, ansn, dirty, processed,
                  forwarded, topo, queue, aggregation, made>>
  BY DEF HearOwn, naming, state
<1>2. /\ inbox' \in [Routers -> Seq([from : Routers, msg : Copy])]
      /\ \A s \in Routers : \A i \in DOMAIN inbox'[s] :
           \E j \in DOMAIN inbox[s] : inbox'[s][i] = inbox[s][j]
  BY TakeHeadFlying DEF HearOwn, Inv
<1>3. Flying' \subseteq Flying
  <2>1. \A s \in Routers : \A i \in DOMAIN queue'[s] :
          \E j \in DOMAIN queue[s] : queue'[s][i] = queue[s][j]
    BY <1>1
  <2> DEFINE News == {}
  <2>2. \A s \in Routers : \A i \in DOMAIN inbox'[s] :
          \/ inbox'[s][i].msg \in News
          \/ \E j \in DOMAIN inbox[s] : inbox'[s][i] = inbox[s][j]
    BY <1>2
  <2>3. \A s \in Routers : \A i \in DOMAIN queue'[s] :
          \/ queue'[s][i] \in News
          \/ \E j \in DOMAIN queue[s] : queue'[s][i] = queue[s][j]
    BY <2>1
  <2> HIDE DEF News
  <2>4. Flying' \subseteq Flying \cup News
    BY <2>2, <2>3, FlyingGrows
  <2>5. QED
    BY <2>4 DEF News
<1>4. FlyingInv'
  BY <1>1, <1>3, FlyingStays DEF Inv, IsLocal
<1>5. TypeOK'
  BY <1>1, <1>2 DEF Inv, TypeOK
<1>6. CountersInv' /\ OriginatorInv' /\ MadeInv' /\ NotedInv'
  BY <1>1 DEF Inv, CountersInv, OriginatorInv, MadeInv, NotedInv, MadeKeys
<1>7. QED
  BY <1>4, <1>5, <1>6 DEF Inv

(* The next number of a router, with an address of its own, is unused.     *)
LEMMA NewNumber ==
    ASSUME Inv, NEW r \in Routers, NEW t, t.orig \in AddressesOf[r], t.seqno = mseq[r] + 1
    PROVE  Key(t) \notin MadeKeys
<1>1. ASSUME NEW n \in made, Key(n.tc) = Key(t)
      PROVE  FALSE
  <2>1. n.tc.orig = t.orig /\ n.tc.seqno = mseq[r] + 1
    BY <1>1 DEF Key
  <2>2. n.maker \in Routers /\ n.tc.orig \in AddressesOf[n.maker] /\ n.tc.seqno <= mseq[n.maker]
    BY DEF Inv, MadeInv, TypeOK
  <2>3. n.maker = r
    BY <2>1, <2>2, OneOwner
  <2>4. mseq[r] \in Nat
    BY DEF Inv, TypeOK
  <2>5. QED
    BY <2>1, <2>2, <2>3, <2>4
<1>2. QED
  BY <1>1 DEF MadeKeys

(* A TC that is made has a number nobody used and carries the originator   *)
(* its maker has now.                                                      *)
LEMMA GenerateTcKeeps ==
    ASSUME Inv, NEW r \in Routers, GenerateTc(r)
    PROVE  Inv'
<1>1. /\ r \in MayMake /\ Cardinality(made) < MaxTcs /\ orig[r] /= NoAddress
      /\ dirty' = [dirty EXCEPT ![r] = FALSE]
      /\ UNCHANGED <<mesh, ifaddr, orig, old, metrics, processed, forwarded, topo, inbox>>
  BY DEF GenerateTc, naming
<1>2. PICK heard \in BOOLEAN :
        LET m == [orig |-> orig[r], seqno |-> mseq[r] + 1,
                  ansn |-> UpdatedAnsn(r, heard), metrics |-> metrics[r]] IN
        /\ mseq' = [mseq EXCEPT ![r] = m.seqno]
        /\ ansn' = [ansn EXCEPT ![r] = m.ansn]
        /\ Enqueue(r, [tc |-> m, hoplimit |-> HopLimit])
        /\ made' = made \cup {[maker |-> r, tc |-> m]}
  BY DEF GenerateTc
<1> DEFINE m == [orig |-> orig[r], seqno |-> mseq[r] + 1,
                 ansn |-> UpdatedAnsn(r, heard), metrics |-> metrics[r]]
           c == [tc |-> m, hoplimit |-> HopLimit]
           id == [maker |-> r, tc |-> m]
<1>3. /\ mseq' = [mseq EXCEPT ![r] = mseq[r] + 1]
      /\ ansn' = [ansn EXCEPT ![r] = UpdatedAnsn(r, heard)]
      /\ Enqueue(r, c) /\ made' = made \cup {id}
  BY <1>2
<1>4. /\ Cardinality(made) \in Nat /\ MaxTcs \in Nat
      /\ mseq[r] \in Nat /\ mseq[r] <= Cardinality(made)
      /\ ansn[r] \in Nat /\ ansn[r] <= Cardinality(made)
      /\ metrics[r] \in 0 .. MaxMetrics
  BY FS_CardinalityType, MeshAssumption DEF Inv, CountersInv, TypeOK
<1>5. /\ UpdatedAnsn(r, heard) \in Nat
      /\ UpdatedAnsn(r, heard) <= Cardinality(made) + 1
  BY <1>4 DEF UpdatedAnsn
<1>6. orig[r] \in AddressesOf[r] /\ orig[r] \in Addresses
  BY <1>1, OwnAddresses DEF Inv, OriginatorInv
<1>7. m \in Tc
  BY <1>1, <1>4, <1>5, <1>6 DEF Tc
<1>8. c \in Copy /\ c.tc = m /\ c.hoplimit = HopLimit
  BY <1>7, MeshAssumption DEF Copy
<1>9. m.orig = orig[r] /\ m.seqno = mseq[r] + 1
  OBVIOUS
<1>10. Key(m) \notin MadeKeys
  BY <1>6, <1>9, NewNumber
<1> HIDE DEF m, c
<1>11. /\ id \notin made
       /\ IsFiniteSet(made') /\ Cardinality(made') = Cardinality(made) + 1
  <2>1. id.tc = m
    OBVIOUS
  <2>2. id \notin made
    BY <1>10, <2>1 DEF MadeKeys
  <2>3. QED
    BY <1>3, <2>2, FS_AddElement DEF Inv, CountersInv
<1>12. /\ queue' \in [Routers -> Seq(Copy)]
       /\ aggregation' \in [Routers -> BOOLEAN]
       /\ \A s \in Routers : \A i \in DOMAIN queue'[s] :
            \/ queue'[s][i] = c
            \/ \E j \in DOMAIN queue[s] : queue'[s][i] = queue[s][j]
  BY <1>3, <1>8, EnqueueFlying DEF Inv
<1>13. Flying' \subseteq Flying \cup {c}
  BY <1>1, <1>12, FlyingGrows
<1>14. /\ mseq' \in [Routers -> Nat] /\ ansn' \in [Routers -> Nat]
       /\ dirty' \in [Routers -> BOOLEAN]
       /\ \A s \in Routers : /\ mseq[s] <= mseq'[s] /\ mseq'[s] <= Cardinality(made) + 1
                             /\ ansn'[s] <= Cardinality(made) + 1
       /\ mseq'[r] = mseq[r] + 1
  <2>1. /\ mseq \in [Routers -> Nat] /\ ansn \in [Routers -> Nat]
        /\ dirty \in [Routers -> BOOLEAN]
        /\ \A s \in Routers : mseq[s] <= Cardinality(made) /\ ansn[s] <= Cardinality(made)
    BY DEF Inv, TypeOK, CountersInv
  <2>2. dirty' \in [Routers -> BOOLEAN]
    BY <1>1, <2>1
  <2>3. mseq' \in [Routers -> Nat] /\ ansn' \in [Routers -> Nat]
    BY <1>3, <1>4, <1>5, <2>1
  <2>4. /\ mseq'[r] = mseq[r] + 1 /\ ansn'[r] = UpdatedAnsn(r, heard)
        /\ \A s \in Routers \ {r} : mseq'[s] = mseq[s] /\ ansn'[s] = ansn[s]
    BY <1>3, <2>1
  <2>5. ASSUME NEW s \in Routers
        PROVE  /\ mseq[s] <= mseq'[s] /\ mseq'[s] <= Cardinality(made) + 1
               /\ ansn'[s] <= Cardinality(made) + 1
    <3>1. /\ mseq[s] \in Nat /\ mseq[s] <= Cardinality(made)
          /\ ansn[s] \in Nat /\ ansn[s] <= Cardinality(made)
      BY <2>1
    <3>2. CASE s = r
      BY <1>4, <1>5, <2>4, <3>1, <3>2
    <3>3. CASE s /= r
      BY <1>4, <2>4, <3>1, <3>3
    <3>4. QED
      BY <3>2, <3>3
  <2>6. QED
    BY <2>2, <2>3, <2>4, <2>5
<1>15. TypeOK'
  <2>1. made' \subseteq [maker : Routers, tc : Tc]
    BY <1>3, <1>7 DEF Inv, TypeOK
  <2>2. QED
    BY <1>1, <1>12, <1>14, <2>1 DEF Inv, TypeOK
<1>16. CountersInv'
  BY <1>1, <1>4, <1>11, <1>14 DEF Inv, CountersInv
<1>17. OriginatorInv'
  BY <1>1 DEF Inv, OriginatorInv
<1>18. MadeInv'
  <2>1. ASSUME NEW n \in made
        PROVE  /\ n.maker \in MayMake /\ n.tc.orig \in AddressesOf[n.maker]
               /\ n.tc.seqno <= mseq'[n.maker]
               /\ Key(n.tc) \notin forwarded'[n.maker]
    <3>1. n.maker \in Routers /\ n.tc.seqno \in Nat
      BY DEF Inv, TypeOK, Tc
    <3>2. /\ n.maker \in MayMake /\ n.tc.orig \in AddressesOf[n.maker]
          /\ n.tc.seqno <= mseq[n.maker] /\ Key(n.tc) \notin forwarded[n.maker]
      BY DEF Inv, MadeInv
    <3>3. forwarded' = forwarded
      BY <1>1
    <3>4. /\ mseq[n.maker] \in Nat /\ mseq'[n.maker] \in Nat
          /\ mseq[n.maker] <= mseq'[n.maker]
      BY <1>14, <3>1 DEF Inv, TypeOK
    <3>5. n.tc.seqno <= mseq'[n.maker]
      BY <3>1, <3>2, <3>4
    <3>6. QED
      BY <3>2, <3>3, <3>5
  <2>2. /\ id.maker \in MayMake /\ id.tc.orig \in AddressesOf[id.maker]
        /\ id.tc.seqno <= mseq'[id.maker]
        /\ Key(id.tc) \notin forwarded'[id.maker]
    <3>1. id.maker = r /\ id.tc = m
      OBVIOUS
    <3>2. Key(m) \notin forwarded'[r]
      BY <1>1, <1>10 DEF Inv, NotedInv
    <3>3. QED
      BY <1>1, <1>4, <1>6, <1>9, <1>14, <3>1, <3>2
  <2>3. QED
    BY <1>3, <2>1, <2>2 DEF MadeInv
<1>19. NotedInv'
  BY <1>1, <1>3 DEF Inv, NotedInv, MadeKeys
<1>20. FlyingInv'
  <2>1. ASSUME NEW d \in Flying
        PROVE  CopyInv(d)'
    <3>1. d \in Copy /\ CopyInv(d)
      BY DEF Inv, FlyingInv, Flying
    <3>2. QED
      BY <1>1, <1>3, <3>1, CopyStays DEF IsLocal
  <2>2. ASSUME NEW d \in Copy, d = c
        PROVE  CopyInv(d)'
    <3>1. d.tc = m /\ d.hoplimit = HopLimit /\ d.tc.orig = orig[r]
      BY <1>8, <1>9, <2>2
    <3>2. id \in made' /\ id.tc = d.tc
      BY <1>3, <3>1
    <3>3. \A s \in Routers : d.tc.orig \in AddressesOf[s] => IsLocal(s, d.tc.orig)'
      BY <1>1, <1>6, <3>1, OneOwner DEF IsLocal
    <3>4. d.hoplimit >= HopLimit - Cardinality(ForwardedBy(Key(d.tc))')
      BY <3>1, ForwardedByFinite, MeshAssumption
    <3>5. QED
      BY <3>2, <3>3, <3>4 DEF CopyInv
  <2>3. ASSUME NEW d \in Flying'
        PROVE  CopyInv(d)'
    <3>1. d \in Copy /\ (d \in Flying \/ d = c)
      BY <1>13, <2>3 DEF Flying
    <3>2. QED
      BY <2>1, <2>2, <3>1
  <2>4. QED
    BY <2>3 DEF FlyingInv
<1>21. QED
  BY <1>15, <1>16, <1>17, <1>18, <1>19, <1>20 DEF Inv
(* What a router reads was made by another one.                            *)
LEMMA HeadOfOther ==
    ASSUME Inv, NEW r \in Routers, inbox[r] /= <<>>,
           ~IsLocal(r, Head(inbox[r]).msg.tc.orig)
    PROVE  /\ Head(inbox[r]).msg \in Flying /\ Head(inbox[r]).msg \in Copy
           /\ Head(inbox[r]).msg.tc.orig \notin AddressesOf[r]
           /\ \E n \in made : /\ n.tc = Head(inbox[r]).msg.tc /\ n.maker \in Routers
                               /\ n.tc.orig \in AddressesOf[n.maker] /\ n.maker /= r
<1> DEFINE c == Head(inbox[r]).msg
<1>1. c \in Flying /\ c \in Copy
  BY HeadFlies DEF Inv, Flying
<1>2. CopyInv(c)
  BY <1>1 DEF Inv, FlyingInv
<1>3. c.tc.orig \notin AddressesOf[r]
  BY <1>2 DEF CopyInv
<1>4. PICK n \in made : n.tc = c.tc
  BY <1>2 DEF CopyInv
<1>5. n.maker \in Routers /\ n.tc.orig \in AddressesOf[n.maker]
  BY DEF Inv, MadeInv, TypeOK
<1>6. n.maker /= r
  BY <1>3, <1>4, <1>5
<1>7. QED
  BY <1>1, <1>3, <1>4, <1>5, <1>6

(* The relayed copy has one hop less, and one router more has noted it;    *)
(* the maker of a TC never gets to note it.                                *)
LEMMA ReceiveKeeps ==
    ASSUME Inv, NEW r \in Routers, Receive(r)
    PROVE  Inv'
<1> DEFINE p == Head(inbox[r])
           m == p.msg.tc
           k == Key(m)
           relayed == [p.msg EXCEPT !.hoplimit = @ - 1]
           relays == ShallForward(r, p.from, m) /\ p.msg.hoplimit > 1 /\ Floods(r)
           News == IF relays THEN {relayed} ELSE {}
<1>1. /\ inbox[r] /= <<>> /\ ~IsLocal(r, m.orig) /\ TakeHead(r)
      /\ forwarded' = [forwarded EXCEPT ![r] = forwarded[r] \cup {k}]
      /\ processed' = [processed EXCEPT ![r] = processed[r] \cup {k}]
      /\ \/ topo' = topo
         \/ topo' = [topo EXCEPT ![r][m.orig] = [ansn |-> m.ansn, metrics |-> m.metrics]]
      /\ UNCHANGED <<mesh, ifaddr, orig, old, metrics, mseq, ansn, dirty, made>>
      /\ IF ShallForward(r, p.from, m) THEN Forward(r, p.msg) ELSE UNCHANGED <<queue, aggregation>>
  BY DEF Receive, naming
<1>2. /\ p.msg \in Flying /\ p.msg \in Copy /\ m.orig \notin AddressesOf[r]
      /\ \E n \in made : n.tc = m
  BY <1>1, HeadOfOther
<1>3. /\ m \in Tc /\ k \in Addresses \X Nat /\ p.msg.hoplimit \in 0 .. HopLimit
      /\ m.orig \in Addresses /\ m.ansn \in Nat /\ m.metrics \in Nat
  BY <1>2, CopyFields, MeshAssumption DEF Tc
<1>4. /\ inbox' \in [Routers -> Seq([from : Routers, msg : Copy])]
      /\ \A s \in Routers : \A i \in DOMAIN inbox'[s] :
           \E j \in DOMAIN inbox[s] : inbox'[s][i] = inbox[s][j]
  BY <1>1, TakeHeadFlying DEF Inv
<1>5. relays => /\ relayed \in Copy /\ relayed.tc = m /\ relayed.hoplimit = p.msg.hoplimit - 1
                /\ Enqueue(r, relayed) /\ k \notin forwarded[r]
  <2> SUFFICES ASSUME relays PROVE /\ relayed \in Copy /\ relayed.tc = m
                                   /\ relayed.hoplimit = p.msg.hoplimit - 1
                                   /\ Enqueue(r, relayed) /\ k \notin forwarded[r]
    OBVIOUS
  <2>1. /\ relayed \in Copy /\ relayed.tc = m /\ relayed.hoplimit = p.msg.hoplimit - 1
    BY <1>2, <1>3, MeshAssumption DEF Copy
  <2>2. Enqueue(r, relayed)
    BY <1>1 DEF Forward
  <2>3. k \notin forwarded[r]
    BY DEF ShallForward
  <2>4. QED
    BY <2>1, <2>2, <2>3
<1>6. ~relays => UNCHANGED <<queue, aggregation>>
  BY <1>1 DEF Forward
<1> HIDE DEF relayed, relays, k, m, p
<1>7. /\ queue' \in [Routers -> Seq(Copy)]
      /\ aggregation' \in [Routers -> BOOLEAN]
      /\ \A s \in Routers : \A i \in DOMAIN queue'[s] :
           \/ queue'[s][i] \in News
           \/ \E j \in DOMAIN queue[s] : queue'[s][i] = queue[s][j]
  <2>1. CASE relays
    <3>1. TypeOK
      BY DEF Inv
    <3>2. /\ queue' \in [Routers -> Seq(Copy)] /\ aggregation' \in [Routers -> BOOLEAN]
          /\ \A s \in Routers : \A i \in DOMAIN queue'[s] :
               \/ queue'[s][i] = relayed
               \/ \E j \in DOMAIN queue[s] : queue'[s][i] = queue[s][j]
      BY <1>5, <2>1, <3>1, EnqueueFlying
    <3>3. QED
      BY <2>1, <3>2
  <2>2. CASE ~relays
    BY <1>6, <2>2 DEF Inv, TypeOK
  <2>3. QED
    BY <2>1, <2>2
<1> HIDE DEF News
<1>8. Flying' \subseteq Flying \cup News
  <2>1. \A s \in Routers : \A i \in DOMAIN inbox'[s] :
          \/ inbox'[s][i].msg \in News
          \/ \E j \in DOMAIN inbox[s] : inbox'[s][i] = inbox[s][j]
    BY <1>4
  <2>2. \A s \in Routers : \A i \in DOMAIN queue'[s] :
          \/ queue'[s][i] \in News
          \/ \E j \in DOMAIN queue[s] : queue'[s][i] = queue[s][j]
    BY <1>7
  <2>3. QED
    BY <2>1, <2>2, FlyingGrows
<1>9. /\ forwarded' \in [Routers -> SUBSET (Addresses \X Nat)]
      /\ processed' \in [Routers -> SUBSET (Addresses \X Nat)]
      /\ forwarded'[r] = forwarded[r] \cup {k} /\ processed'[r] = processed[r] \cup {k}
      /\ \A s \in Routers \ {r} : forwarded'[s] = forwarded[s] /\ processed'[s] = processed[s]
  <2> DEFINE Keys == Addresses \X Nat
  <2>1. k \in Keys
    BY <1>3
  <2>2. /\ forwarded \in [Routers -> SUBSET Keys] /\ processed \in [Routers -> SUBSET Keys]
    BY DEF Inv, TypeOK
  <2>3. /\ forwarded' = [forwarded EXCEPT ![r] = @ \cup {k}]
        /\ processed' = [processed EXCEPT ![r] = @ \cup {k}]
    BY <1>1
  <2> HIDE DEF Keys
  <2>4. /\ forwarded' \in [Routers -> SUBSET Keys] /\ processed' \in [Routers -> SUBSET Keys]
        /\ forwarded'[r] = forwarded[r] \cup {k} /\ processed'[r] = processed[r] \cup {k}
        /\ \A s \in Routers \ {r} : forwarded'[s] = forwarded[s] /\ processed'[s] = processed[s]
    BY <2>1, <2>2, <2>3
  <2>5. QED
    BY <2>4 DEF Keys
<1>10. topo' \in [Routers -> [Addresses -> [ansn : Int, metrics : Int]]]
  <2> DEFINE node == [ansn |-> m.ansn, metrics |-> m.metrics]
             Node == [ansn : Int, metrics : Int]
  <2>1. node \in Node
    BY <1>3
  <2>2. topo[r] \in [Addresses -> Node] /\ topo \in [Routers -> [Addresses -> Node]]
    BY DEF Inv, TypeOK
  <2> HIDE DEF node, Node
  <2>3. [topo EXCEPT ![r][m.orig] = node] \in [Routers -> [Addresses -> Node]]
    BY <1>3, <2>1, <2>2
  <2>4. topo' = topo \/ topo' = [topo EXCEPT ![r][m.orig] = node]
    BY <1>1 DEF node
  <2>5. topo' \in [Routers -> [Addresses -> Node]]
    BY <2>2, <2>3, <2>4
  <2>6. QED
    BY <2>5 DEF Node
<1>11. TypeOK'
  BY <1>1, <1>4, <1>7, <1>9, <1>10 DEF Inv, TypeOK
<1>12. CountersInv' /\ OriginatorInv'
  BY <1>1 DEF Inv, CountersInv, OriginatorInv
<1>13. MadeInv'
  <2>1. ASSUME NEW n \in made
        PROVE  Key(n.tc) \notin forwarded'[n.maker]
    <3>1. n.maker \in Routers /\ n.tc.orig \in AddressesOf[n.maker]
          /\ Key(n.tc) \notin forwarded[n.maker]
      BY DEF Inv, MadeInv, TypeOK
    <3>2. n.maker = r => Key(n.tc) /= k
      BY <1>2, <3>1 DEF Key, k
    <3>3. QED
      BY <1>9, <3>1, <3>2
  <2>2. QED
    BY <1>1, <2>1 DEF Inv, MadeInv
<1>14. NotedInv'
  <2>1. k \in MadeKeys
    BY <1>2 DEF MadeKeys, k
  <2>2. QED
    BY <1>1, <1>9, <2>1 DEF Inv, NotedInv, MadeKeys
<1>15. FlyingInv'
  <2>1. \A s \in Routers : forwarded[s] \subseteq forwarded'[s]
    BY <1>9
  <2>2. ASSUME NEW d \in Flying
        PROVE  CopyInv(d)'
    <3>1. d \in Copy /\ CopyInv(d)
      BY DEF Inv, FlyingInv, Flying
    <3>2. QED
      BY <1>1, <2>1, <3>1, CopyStays DEF IsLocal
  <2>3. ASSUME NEW d \in Copy, relays, d = relayed
        PROVE  CopyInv(d)'
    <3>1. PICK e \in Flying : e = p.msg
      BY <1>2
    <3>2. /\ e \in Copy /\ CopyInv(e) /\ CopyInv(e)'
          /\ d.tc = e.tc /\ d.hoplimit = e.hoplimit - 1
          /\ e.tc = m /\ e.hoplimit \in Nat
      BY <1>2, <1>3, <1>5, <2>2, <2>3, <3>1 DEF Inv, FlyingInv, m
    <3>3. /\ r \notin ForwardedBy(Key(e.tc))
          /\ ForwardedBy(Key(e.tc))' = ForwardedBy(Key(e.tc)) \cup {r}
      BY <1>5, <1>9, <2>3, <3>2 DEF ForwardedBy, k
    <3>4. Cardinality(ForwardedBy(Key(e.tc))') = Cardinality(ForwardedBy(Key(e.tc))) + 1
      BY <3>3, ForwardedByFinite, FS_AddElement
    <3>5. d.hoplimit >= HopLimit - Cardinality(ForwardedBy(Key(d.tc))')
      BY <3>2, <3>4, ForwardedByFinite, MeshAssumption DEF CopyInv
    <3>6. QED
      BY <3>2, <3>5 DEF CopyInv
  <2>4. ASSUME NEW d \in Flying'
        PROVE  CopyInv(d)'
    <3>1. d \in Copy /\ (d \in Flying \/ (relays /\ d = relayed))
      BY <1>8, <2>4 DEF Flying, News
    <3>2. QED
      BY <2>2, <2>3, <3>1
  <2>5. QED
    BY <2>4 DEF FlyingInv
<1>16. QED
  BY <1>11, <1>12, <1>13, <1>14, <1>15 DEF Inv
(* Nothing was made, nothing is under way.                                 *)
LEMMA InitInv == Init => Inv
<1> SUFFICES ASSUME Init PROVE Inv
  OBVIOUS
<1>1. /\ mesh \in Meshes
      /\ ifaddr \in [Routers -> SUBSET Addresses]
      /\ \A r \in Routers : ifaddr[r] \subseteq AddressesOf[r]
  BY OwnAddresses DEF Init
<1>2. /\ orig \in [Routers -> Addresses \cup {NoAddress}]
      /\ \A r \in Routers : orig[r] \in AddressesOf[r] \cup {NoAddress}
  BY DEF Init, IsBest
<1>3. /\ old = [r \in Routers |-> {}] /\ mseq = [r \in Routers |-> 0]
      /\ ansn = [r \in Routers |-> 0] /\ metrics = [r \in Routers |-> 0]
      /\ dirty = [r \in Routers |-> FALSE] /\ processed = [r \in Routers |-> {}]
      /\ forwarded = [r \in Routers |-> {}]
      /\ topo = [r \in Routers |-> [a \in Addresses |-> Unknown]]
      /\ queue = [r \in Routers |-> <<>>] /\ aggregation = [r \in Routers |-> FALSE]
      /\ inbox = [r \in Routers |-> <<>>] /\ made = {}
  BY DEF Init
<1>4. topo \in [Routers -> [Addresses -> [ansn : Int, metrics : Int]]]
  BY <1>3 DEF Unknown
<1>5. queue \in [Routers -> Seq(Copy)] /\ inbox \in [Routers -> Seq([from : Routers, msg : Copy])]
  BY <1>3
<1>6. TypeOK
  BY <1>1, <1>2, <1>3, <1>4, <1>5 DEF TypeOK
<1>7. CountersInv
  BY <1>3, FS_EmptySet, MeshAssumption DEF CountersInv
<1>8. OriginatorInv /\ MadeInv /\ NotedInv
  BY <1>1, <1>2, <1>3 DEF OriginatorInv, MadeInv, NotedInv
<1>9. FlyingInv
  BY <1>3 DEF FlyingInv, Flying
<1>10. QED
  BY <1>6, <1>7, <1>8, <1>9 DEF Inv

(* One case per action.                                                    *)
LEMMA NextInv == Inv /\ [Next]_vars => Inv'
<1> SUFFICES ASSUME Inv, [Next]_vars PROVE Inv'
  OBVIOUS
<1>1. CASE UNCHANGED vars
  <2>1. UNCHANGED <<mesh, ifaddr, orig, old, metrics, mseq, ansn, dirty, processed,
                    forwarded, topo, queue, aggregation, inbox, made>>
    BY <1>1 DEF vars
  <2>2. FlyingInv'
    BY <2>1 DEF Inv, FlyingInv, Flying, CopyInv, IsLocal, ForwardedBy
  <2>3. QED
    BY <2>1, <2>2 DEF Inv, TypeOK, CountersInv, OriginatorInv, MadeInv, NotedInv, MadeKeys
<1>2. CASE Next
  <2>1. PICK r \in Routers :
          \/ \E as \in SUBSET AddressesOf[r] : InterfaceEvent(r, as)
          \/ \E a \in AddressesOf[r] : OldOriginatorExpires(r, a)
          \/ NeighborMetricChanges(r) \/ GenerateTc(r) \/ Flush(r)
          \/ HearOwn(r) \/ Receive(r)
    BY <1>2 DEF Next
  <2>2. QED
    BY <2>1, InterfaceEventKeeps, OldOriginatorExpiresKeeps, NeighborMetricChangesKeeps,
       GenerateTcKeeps, FlushKeeps, HearOwnKeeps, ReceiveKeeps
<1>3. QED
  BY <1>1, <1>2

(* The invariant of the flooding, from which the theorems below follow.    *)
LEMMA Invariant == Spec => []Inv
BY InitInv, NextInv, PTL DEF Spec
-----------------------------------------------------------------------------
(* No step takes the state of a router, its queues and its sockets out of  *)
(* their types; no message number and no hop limit leaves its range.       *)
THEOREM TypeCorrect == Spec => []TypeOK
<1>1. Inv => TypeOK
  BY DEF Inv
<1>2. QED
  BY <1>1, Invariant, PTL

(* A flood ends by itself, in a mesh of any size and shape: a copy was     *)
(* relayed once by each router at most and never by the maker of the TC,   *)
(* so the hop limit never comes to the size of the mesh.                   *)
THEOREM FloodEnds == Spec => []HopsBounded
<1>1. Inv => HopsBounded
  <2> SUFFICES ASSUME Inv, NEW r \in Routers, NEW i \in DOMAIN queue[r]
               PROVE  queue[r][i].hoplimit > HopLimit - Cardinality(Routers)
    BY DEF HopsBounded
  <2>1. PICK c \in Copy : c = queue[r][i]
    BY DEF Inv, TypeOK
  <2>2. CopyInv(c)
    BY <2>1 DEF Inv, FlyingInv, Flying
  <2>3. PICK m \in made : m.tc = c.tc
    BY <2>2 DEF CopyInv
  <2>4. m.maker \in Routers /\ m.maker \notin ForwardedBy(Key(c.tc))
    BY <2>3 DEF Inv, MadeInv, TypeOK, ForwardedBy
  <2>5. ForwardedBy(Key(c.tc)) \subseteq Routers /\ ForwardedBy(Key(c.tc)) /= Routers
    BY <2>4 DEF ForwardedBy
  <2>6. /\ Cardinality(ForwardedBy(Key(c.tc))) < Cardinality(Routers)
        /\ Cardinality(Routers) \in Nat
    BY <2>5, FS_Subset, FS_CardinalityType, MeshAssumption
  <2>7. QED
    BY <2>1, <2>2, <2>6, ForwardedByFinite, CopyFields, MeshAssumption DEF CopyInv
<1>2. QED
  BY <1>1, Invariant, PTL
-----------------------------------------------------------------------------
(* The refinement: the TCs of the abstract broadcast.                      *)
AbsMade == {Id(m) : m \in made}
AbsGot == [r \in Routers |-> {Id(m) : m \in {n \in made : Key(n.tc) \in processed[r]}}]

(* Originator and number tell a TC and its maker.                          *)
LEMMA SameKeySameId ==
    ASSUME Inv, NEW m \in made, NEW n \in made, Key(m.tc) = Key(n.tc)
    PROVE  Id(m) = Id(n)
<1>1. m.tc.orig = n.tc.orig /\ m.tc.seqno = n.tc.seqno
  BY DEF Key
<1>2. m.maker = n.maker
  BY <1>1, OneOwner DEF Inv, MadeInv, TypeOK
<1>3. QED
  BY <1>1, <1>2 DEF Id

(* What was made may be made.                                              *)
LEMMA MadeIsAbstract ==
    ASSUME Inv, NEW m \in made
    PROVE  Id(m) \in AbstractTcs
<1>1. m.maker \in MayMake /\ m.tc.orig \in AddressesOf[m.maker] /\ m.tc \in Tc
  BY DEF Inv, MadeInv, TypeOK
<1>2. m.maker \in Routers
  BY <1>1, MeshAssumption
<1>3. QED
  BY <1>1, <1>2, OwnAddresses DEF AbstractTcs, Id, Tc

(* In the abstract broadcast, GenerateTc is Make.                          *)
LEMMA GenerateTcMakes ==
    ASSUME Inv, Inv', NEW r \in Routers, GenerateTc(r)
    PROVE  \E i \in AbstractTcs : Broadcast!Make(i)
<1>1. PICK m : /\ made' = made \cup {[maker |-> r, tc |-> m]}
               /\ m.orig = orig[r] /\ m.seqno = mseq[r] + 1
  BY DEF GenerateTc
<1> DEFINE id == [maker |-> r, tc |-> m]
<1>2. m.orig \in AddressesOf[r] /\ UNCHANGED processed
  BY <1>1 DEF GenerateTc, Inv, OriginatorInv
<1>3. Key(m) \notin MadeKeys
  BY <1>1, <1>2, NewNumber
<1>4. id \in made' /\ id.tc = m /\ Id(id) \in AbstractTcs
  <2>1. id \in made' /\ id.tc = m /\ id.maker = r
    BY <1>1
  <2>2. m \in Tc /\ r \in MayMake
    BY <1>1, <2>1 DEF Inv, TypeOK, GenerateTc
  <2>3. QED
    BY <1>2, <2>1, <2>2, OwnAddresses DEF AbstractTcs, Id, Tc
<1>5. \A n \in made : Key(n.tc) /= Key(m)
  BY <1>3 DEF MadeKeys
<1>6. Id(id) \notin AbsMade
  BY <1>4, <1>5 DEF AbsMade, Id, Key
<1>7. AbsMade' = AbsMade \cup {Id(id)}
  BY <1>1 DEF AbsMade
<1>8. AbsGot' = AbsGot
  <2>1. \A s \in Routers : Key(m) \notin processed[s]
    BY <1>3 DEF Inv, NotedInv
  <2>2. \A s \in Routers : {n \in made' : Key(n.tc) \in processed'[s]}
                            = {n \in made : Key(n.tc) \in processed[s]}
    BY <1>1, <1>2, <1>4, <2>1
  <2>3. QED
    BY <2>2 DEF AbsGot
<1>9. QED
  BY <1>4, <1>6, <1>7, <1>8 DEF Broadcast!Make, AbsMade, AbsGot

(* In the abstract broadcast, Receive is a delivery or a stutter.          *)
LEMMA ReceiveDelivers ==
    ASSUME Inv, NEW r \in Routers, Receive(r)
    PROVE  \/ \E i \in AbstractTcs : Broadcast!Deliver(r, i)
           \/ AbsMade' = AbsMade /\ AbsGot' = AbsGot
<1> DEFINE t == Head(inbox[r]).msg.tc
<1>1. /\ inbox[r] /= <<>> /\ ~IsLocal(r, t.orig) /\ made' = made
      /\ processed' = [processed EXCEPT ![r] = processed[r] \cup {Key(t)}]
  BY DEF Receive
<1>2. PICK n \in made : n.tc = t /\ n.maker /= r
  BY <1>1, HeadOfOther
<1> HIDE DEF t
<1>3. processed'[r] = processed[r] \cup {Key(t)} /\ \A s \in Routers \ {r} : processed'[s] = processed[s]
  BY <1>1 DEF Inv, TypeOK
<1>4. AbsMade' = AbsMade
  BY <1>1 DEF AbsMade
<1>5. CASE Key(t) \in processed[r]
  <2>1. \A s \in Routers : processed'[s] = processed[s]
    BY <1>3, <1>5
  <2>2. AbsGot' = AbsGot
    BY <1>1, <2>1 DEF AbsGot
  <2>3. QED
    BY <1>4, <2>2
<1>6. CASE Key(t) \notin processed[r]
  <2> DEFINE got(s) == {Id(m) : m \in {l \in made : Key(l.tc) \in processed[s]}}
             new(s) == {Id(m) : m \in {l \in made' : Key(l.tc) \in processed'[s]}}
  <2>1. AbsGot = [s \in Routers |-> got(s)] /\ AbsGot' = [s \in Routers |-> new(s)]
    BY DEF AbsGot
  <2>2. \A s \in Routers \ {r} : new(s) = got(s)
    BY <1>1, <1>3
  <2>3. new(r) = got(r) \cup {Id(n)}
    <3>1. \A l \in made : Key(l.tc) = Key(t) => Id(l) = Id(n)
      BY <1>2, SameKeySameId
    <3>2. QED
      BY <1>1, <1>2, <1>3, <3>1
  <2>4. Id(n) \notin got(r)
    BY <1>2, <1>6 DEF Id, Key
  <2> HIDE DEF got, new
  <2>5. AbsGot' = [AbsGot EXCEPT ![r] = AbsGot[r] \cup {Id(n)}]
    BY <2>1, <2>2, <2>3
  <2>6. Id(n) \in AbstractTcs /\ Id(n) \in AbsMade \ AbsGot[r] /\ Id(n).maker /= r
    BY <1>2, <2>1, <2>4, MadeIsAbstract DEF AbsMade, Id
  <2>7. QED
    BY <1>4, <2>5, <2>6 DEF Broadcast!Deliver, AbsMade, AbsGot
<1>7. QED
  BY <1>5, <1>6

(* Flooding implements the broadcast: every step of a router is a step of  *)
(* TcBroadcast or does not show.                                           *)
THEOREM FloodingIsBroadcast == Spec => Implements
<1>1. Init => Broadcast!Init
  BY DEF Init, Broadcast!Init
<1>2. Inv /\ Inv' /\ [Next]_vars => [Broadcast!Next]_(Broadcast!vars)
  <2> SUFFICES ASSUME Inv, Inv', [Next]_vars
               PROVE  Broadcast!Next \/ (AbsMade' = AbsMade /\ AbsGot' = AbsGot)
    BY DEF Broadcast!vars, AbsMade, AbsGot
  <2>1. CASE UNCHANGED <<made, processed>>
    BY <2>1 DEF AbsMade, AbsGot
  <2>2. ASSUME NEW r \in Routers, GenerateTc(r)
        PROVE  Broadcast!Next
    BY <2>2, GenerateTcMakes DEF Broadcast!Next
  <2>3. ASSUME NEW r \in Routers, Receive(r)
        PROVE  Broadcast!Next \/ (AbsMade' = AbsMade /\ AbsGot' = AbsGot)
    BY <2>3, ReceiveDelivers DEF Broadcast!Next
  <2>4. QED
    BY <2>1, <2>2, <2>3 DEF Next, vars, naming, state, InterfaceEvent, OldOriginatorExpires,
       NeighborMetricChanges, Flush, HearOwn
<1>3. QED
  BY <1>1, <1>2, Invariant, PTL DEF Spec, Implements, Broadcast!Spec
-----------------------------------------------------------------------------
(* ANSN and metrics of the TCs of a router go up together, because the     *)
(* flag of a change stays until a TC has moved the ANSN.                   *)
OrderInv ==
    \A m \in made :
       /\ m.tc.ansn <= ansn[m.maker] /\ m.tc.metrics <= metrics[m.maker]
       /\ (m.tc.ansn = ansn[m.maker] /\ ~dirty[m.maker]) => m.tc.metrics = metrics[m.maker]
       /\ \A n \in made : (m.maker = n.maker /\ m.tc.ansn <= n.tc.ansn)
                            => m.tc.metrics <= n.tc.metrics

(* What a database has of an originator came with a TC.                    *)
TopoInv ==
    \A r \in Routers, a \in Addresses :
       \/ topo[r][a] = Unknown
       \/ \E m \in made : /\ m.tc.orig = a
                           /\ topo[r][a] = [ansn |-> m.tc.ansn, metrics |-> m.tc.metrics]

(* The numbers of a TC and of its maker.                                   *)
LEMMA MadeNumbers ==
    ASSUME Inv, NEW m \in made
    PROVE  /\ m.maker \in Routers /\ m.tc.orig \in AddressesOf[m.maker]
           /\ m.tc.ansn \in Nat /\ m.tc.metrics \in Nat
           /\ ansn[m.maker] \in Nat /\ metrics[m.maker] \in Nat /\ dirty[m.maker] \in BOOLEAN
BY MeshAssumption DEF Inv, TypeOK, MadeInv, Tc

(* A TC that is made has metrics as new as its ANSN.                       *)
LEMMA GenerateTcOrders ==
    ASSUME Inv, OrderInv, NEW r \in Routers, GenerateTc(r)
    PROVE  OrderInv'
<1>0. PICK heard \in BOOLEAN :
        \E m : /\ made' = made \cup {[maker |-> r, tc |-> m]}
               /\ m.ansn = UpdatedAnsn(r, heard) /\ m.metrics = metrics[r]
               /\ ansn' = [ansn EXCEPT ![r] = m.ansn]
  <2>1. PICK heard \in BOOLEAN :
          LET m == [orig |-> orig[r], seqno |-> mseq[r] + 1,
                    ansn |-> UpdatedAnsn(r, heard), metrics |-> metrics[r]] IN
          /\ made' = made \cup {[maker |-> r, tc |-> m]}
          /\ ansn' = [ansn EXCEPT ![r] = m.ansn]
    BY DEF GenerateTc
  <2>2. QED
    BY <2>1
<1>1. PICK m : /\ made' = made \cup {[maker |-> r, tc |-> m]}
               /\ m.ansn = UpdatedAnsn(r, heard) /\ m.metrics = metrics[r]
               /\ ansn' = [ansn EXCEPT ![r] = m.ansn]
  BY <1>0
<1> DEFINE id == [maker |-> r, tc |-> m]
<1>2. metrics' = metrics /\ dirty' = [dirty EXCEPT ![r] = FALSE]
  BY DEF GenerateTc, naming
<1>3. /\ ansn[r] \in Nat /\ metrics[r] \in Nat
      /\ ansn'[r] = m.ansn /\ ~dirty'[r]
      /\ \A s \in Routers \ {r} : ansn'[s] = ansn[s] /\ dirty'[s] = dirty[s]
      /\ \/ m.ansn = ansn[r] + 1
         \/ m.ansn = ansn[r] /\ ~dirty[r]
  BY <1>1, <1>2 DEF Inv, TypeOK, UpdatedAnsn
<1>4. ASSUME NEW n \in made
      PROVE  /\ n.tc.ansn <= ansn'[n.maker] /\ n.tc.metrics <= metrics'[n.maker]
             /\ (n.tc.ansn = ansn'[n.maker] /\ ~dirty'[n.maker])
                  => n.tc.metrics = metrics'[n.maker]
             /\ n.maker = r => /\ n.tc.ansn <= m.ansn /\ n.tc.metrics <= m.metrics
                               /\ n.tc.ansn = m.ansn => n.tc.metrics = m.metrics
  BY <1>1, <1>2, <1>3, MadeNumbers DEF OrderInv
<1>5. ASSUME NEW n \in made'
      PROVE  /\ n.tc.ansn <= ansn'[n.maker] /\ n.tc.metrics <= metrics'[n.maker]
             /\ (n.tc.ansn = ansn'[n.maker] /\ ~dirty'[n.maker])
                  => n.tc.metrics = metrics'[n.maker]
  <2>1. CASE n \in made
    BY <1>4, <2>1
  <2>2. CASE n = id
    BY <1>1, <1>2, <1>3, <2>2
  <2>3. QED
    BY <1>1, <2>1, <2>2
<1>6. ASSUME NEW n \in made', NEW l \in made', n.maker = l.maker, n.tc.ansn <= l.tc.ansn
      PROVE  n.tc.metrics <= l.tc.metrics
  <2>1. CASE n \in made /\ l \in made
    BY <1>6, <2>1 DEF OrderInv
  <2>2. CASE n \in made /\ l = id
    BY <1>4, <1>6, <2>2
  <2>3. CASE n = id /\ l \in made
    <3>1. l.maker = r /\ m.ansn <= l.tc.ansn
      BY <1>6, <2>3
    <3>2. l.tc.ansn = m.ansn
      BY <1>3, <1>4, <2>3, <3>1, MadeNumbers
    <3>3. QED
      BY <1>1, <1>3, <1>4, <2>3, <3>1, <3>2
  <2>4. CASE n = id /\ l = id
    BY <1>1, <1>3, <2>4
  <2>5. QED
    BY <1>1, <2>1, <2>2, <2>3, <2>4
<1>7. QED
  BY <1>5, <1>6 DEF OrderInv

(* Every step keeps ANSN and metrics rising together.                      *)
LEMMA OrderNext ==
    ASSUME Inv, OrderInv, [Next]_vars
    PROVE  OrderInv'
<1>1. CASE UNCHANGED <<made, ansn, metrics, dirty>>
  BY <1>1 DEF OrderInv
<1>2. ASSUME NEW r \in Routers, GenerateTc(r)
      PROVE  OrderInv'
  BY <1>2, GenerateTcOrders
<1>3. ASSUME NEW r \in Routers, NeighborMetricChanges(r)
      PROVE  OrderInv'
  <2>1. /\ UNCHANGED <<made, ansn>>
        /\ metrics[r] \in Nat /\ metrics'[r] = metrics[r] + 1 /\ dirty'[r]
        /\ \A s \in Routers \ {r} : metrics'[s] = metrics[s] /\ dirty'[s] = dirty[s]
    BY <1>3 DEF NeighborMetricChanges, Inv, TypeOK
  <2>2. QED
    BY <2>1, MadeNumbers DEF OrderInv
<1>4. QED
  BY <1>1, <1>2, <1>3 DEF Next, vars, naming, state, InterfaceEvent, OldOriginatorExpires,
     Flush, HearOwn, Receive

(* A database that does not change.                                        *)
LEMMA TopoStays ==
    ASSUME Inv, TopoInv, topo' = topo, made \subseteq made'
    PROVE  /\ TopoInv'
           /\ \A s \in Routers : \A a \in Addresses : topo[s][a].metrics <= topo'[s][a].metrics
<1>1. TopoInv'
  <2>1. ASSUME NEW s \in Routers, NEW a \in Addresses
        PROVE  \/ topo'[s][a] = Unknown
               \/ \E m \in made' :
                    /\ m.tc.orig = a
                    /\ topo'[s][a] = [ansn |-> m.tc.ansn, metrics |-> m.tc.metrics]
    <3>1. topo'[s][a] = topo[s][a]
      OBVIOUS
    <3>2. QED
      BY <3>1 DEF TopoInv
  <2>2. QED
    BY <2>1 DEF TopoInv
<1>2. ASSUME NEW s \in Routers, NEW a \in Addresses
      PROVE  topo[s][a].metrics <= topo'[s][a].metrics
  <2>1. topo[s][a].metrics \in Int
    BY DEF Inv, TypeOK
  <2>2. QED
    BY <2>1
<1>3. QED
  BY <1>1, <1>2

(* The step of a database: what it takes is not older.                     *)
LEMMA ReceiveTopo ==
    ASSUME Inv, OrderInv, TopoInv, NEW r \in Routers, Receive(r)
    PROVE  /\ TopoInv'
           /\ \A s \in Routers : \A a \in Addresses : topo[s][a].metrics <= topo'[s][a].metrics
<1> DEFINE t == Head(inbox[r]).msg.tc
           node == [ansn |-> t.ansn, metrics |-> t.metrics]
<1>1. /\ inbox[r] /= <<>> /\ ~IsLocal(r, t.orig) /\ made' = made
      /\ \/ topo' = topo
         \/ topo' = [topo EXCEPT ![r][t.orig] = node] /\ ~Outdated(r, t)
  BY DEF Receive
<1>2. PICK n \in made : n.tc = t
  BY <1>1, HeadOfOther
<1> HIDE DEF t
<1>3. /\ \A s \in Routers, a \in Addresses : topo[s][a].metrics \in Int /\ topo[s][a].ansn \in Int
      /\ t.orig \in Addresses /\ t.ansn \in Nat /\ t.metrics \in Nat
  <2>1. topo \in [Routers -> [Addresses -> [ansn : Int, metrics : Int]]]
    BY DEF Inv, TypeOK
  <2>2. t.orig \in Addresses /\ t.ansn \in Nat /\ t.metrics \in Nat
    BY <1>2, MadeNumbers, OwnAddresses
  <2>3. QED
    BY <2>1, <2>2
<1>4. CASE topo' = topo
  <2>1. made \subseteq made'
    BY <1>1
  <2>2. QED
    BY <1>4, <2>1, TopoStays
<1>5. CASE topo' = [topo EXCEPT ![r][t.orig] = node] /\ ~Outdated(r, t)
  <2>1. /\ topo'[r][t.orig] = node
        /\ \A s \in Routers, a \in Addresses :
             s /= r \/ a /= t.orig => topo'[s][a] = topo[s][a]
    BY <1>3, <1>5 DEF Inv, TypeOK
  <2>2. TopoInv'
    <3>1. ASSUME NEW s \in Routers, NEW a \in Addresses
          PROVE  \/ topo'[s][a] = Unknown
                 \/ \E m \in made' :
                      /\ m.tc.orig = a
                      /\ topo'[s][a] = [ansn |-> m.tc.ansn, metrics |-> m.tc.metrics]
      <4>1. CASE s = r /\ a = t.orig
        <5>1. topo'[s][a] = [ansn |-> n.tc.ansn, metrics |-> n.tc.metrics]
          BY <1>2, <2>1, <4>1
        <5>2. n \in made' /\ n.tc.orig = a
          BY <1>1, <1>2, <4>1
        <5>3. QED
          BY <5>1, <5>2
      <4>2. CASE ~(s = r /\ a = t.orig)
        <5>1. topo'[s][a] = topo[s][a]
          BY <2>1, <4>2
        <5>2. CASE topo[s][a] = Unknown
          BY <5>1, <5>2
        <5>3. ASSUME NEW m \in made, m.tc.orig = a,
                     topo[s][a] = [ansn |-> m.tc.ansn, metrics |-> m.tc.metrics]
              PROVE  /\ m \in made'
                     /\ topo'[s][a] = [ansn |-> m.tc.ansn, metrics |-> m.tc.metrics]
          BY <1>1, <5>1, <5>3
        <5>4. QED
          BY <5>2, <5>3 DEF TopoInv
      <4>3. QED
        BY <4>1, <4>2
    <3>2. QED
      BY <3>1 DEF TopoInv
  <2>3. topo[r][t.orig].metrics <= t.metrics
    <3>1. CASE topo[r][t.orig] = Unknown
      BY <1>3, <3>1 DEF Unknown
    <3>2. ASSUME NEW m \in made, m.tc.orig = t.orig,
                 topo[r][t.orig] = [ansn |-> m.tc.ansn, metrics |-> m.tc.metrics]
          PROVE  topo[r][t.orig].metrics <= t.metrics
      <4>1. m.maker = n.maker
        BY <1>2, <3>2, MadeNumbers, OneOwner
      <4>2. m.tc.ansn <= n.tc.ansn
        BY <1>2, <1>3, <1>5, <3>2, MadeNumbers DEF Outdated
      <4>3. QED
        BY <1>2, <3>2, <4>1, <4>2 DEF OrderInv
    <3>3. QED
      BY <1>3, <3>1, <3>2 DEF TopoInv
  <2>4. QED
    BY <1>3, <2>1, <2>2, <2>3
<1>6. QED
  BY <1>1, <1>4, <1>5

(* Every step keeps what is known within what was made, and none older.    *)
LEMMA TopoNext ==
    ASSUME Inv, OrderInv, TopoInv, [Next]_vars
    PROVE  /\ TopoInv'
           /\ \A s \in Routers : \A a \in Addresses : topo[s][a].metrics <= topo'[s][a].metrics
<1>1. CASE topo' = topo /\ made \subseteq made'
  BY <1>1, TopoStays
<1>2. ASSUME NEW r \in Routers, Receive(r)
      PROVE  /\ TopoInv'
             /\ \A s \in Routers : \A a \in Addresses : topo[s][a].metrics <= topo'[s][a].metrics
  BY <1>2, ReceiveTopo
<1>3. QED
  BY <1>1, <1>2 DEF Next, vars, naming, state, InterfaceEvent, OldOriginatorExpires,
     NeighborMetricChanges, GenerateTc, Flush, HearOwn

(* Although TCs overtake each other, the metrics a database has of a       *)
(* router never get older.                                                 *)
THEOREM DatabaseNeverRegresses == Spec => TopologyNeverRegresses
<1>1. Init => OrderInv /\ TopoInv
  BY DEF Init, OrderInv, TopoInv
<1>2. Inv /\ OrderInv /\ TopoInv /\ [Next]_vars => OrderInv' /\ TopoInv'
  BY OrderNext, TopoNext
<1>3. Inv /\ OrderInv /\ TopoInv /\ [Next]_vars
        => [\A r \in Routers : \A a \in Addresses :
              topo[r][a].metrics <= topo'[r][a].metrics]_vars
  BY TopoNext
<1>4. QED
  BY <1>1, <1>2, <1>3, Invariant, PTL DEF Spec, TopologyNeverRegresses
=============================================================================
