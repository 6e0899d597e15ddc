------------------------------ MODULE OlsrFlood ------------------------------
(***************************************************************************)
(* TCs in a mesh of OLSRv2 routers: how a router makes them (olsrv2.c,     *)
(* olsrv2_writer.c), under which originator (olsrv2_originator.c), how     *)
(* they wait in the target of an interface for the aggregation timer       *)
(* (oonf_rfc5444.c), and what a router does with one that it receives:     *)
(* hand it to its topology database, relay it, or drop it (olsrv2_reader.c, *)
(* olsrv2.c, rfc5444_reader.c, rfc5444_msg_generator.c).                   *)
(*                                                                         *)
(* Each router has one mesh interface.  NHDP (module Nhdp) gives it its    *)
(* symmetric neighbors and says which of them chose it as flooding MPR.    *)
(* The processed_set and forwarded_set of a protocol are sets of           *)
(* (originator, sequence number): module DuplicateSet shows that they      *)
(* accept each number once while it is inside the window.  Sequence        *)
(* numbers and ANSNs do not wrap here (DuplicateSet and OlsrTc do that).   *)
(*                                                                         *)
(* A TC is [orig, seqno, ansn, metrics]: metrics stands for the neighbor   *)
(* metrics it advertises, numbered in the order they come into being.      *)
(***************************************************************************)
EXTENDS Integers, FiniteSets, Sequences

CONSTANTS
    Routers,       \* the routers of the mesh
    Meshes,        \* [hears, sym, mpr, lossy, moving, changing]
    AddressesOf,   \* the addresses an interface of a router may have
    Priority,      \* _get_addr_priority of each address
    MayMake,       \* routers that have something to advertise
    HopLimit,      \* 255, the hop limit of a new TC
    MaxTcs,        \* bound: TCs that are made
    MaxMetrics     \* bound: metric changes of a router

Addresses == UNION {AddressesOf[r] : r \in Routers}
NoAddress == "unspec"

(* No two routers share an address.  In a mesh, hears[r] are the routers   *)
(* that hear r, sym[r] its symmetric neighbors as NHDP sees them, mpr[r]   *)
(* those it chose as flooding MPR; lossy are the routers that may miss a   *)
(* packet, moving those whose interface changes its addresses, changing    *)
(* those with neighbor metrics that change.                                *)
ASSUME MeshAssumption ==
    /\ NoAddress \notin Addresses
    /\ IsFiniteSet(Routers)
    /\ \A g \in Meshes : \A r \in Routers :
         /\ g.hears[r] \subseteq Routers \ {r}
         /\ g.mpr[r] \subseteq g.sym[r] /\ g.sym[r] \subseteq g.hears[r]
         /\ g.lossy \subseteq Routers /\ g.moving \subseteq Routers
         /\ g.changing \subseteq Routers
    /\ \A r, s \in Routers : r /= s => AddressesOf[r] \cap AddressesOf[s] = {}
    /\ Priority \in [Addresses -> Nat]
    /\ MayMake \subseteq Routers
    /\ HopLimit \in Nat /\ MaxTcs \in Nat /\ MaxMetrics \in Nat

VARIABLES
    mesh,          \* the mesh of this behaviour, one of Meshes
    ifaddr,        \* router -> the addresses of its interface
    orig,          \* router -> _originator_v4
    old,           \* router -> _originator_set_tree, the originators it had
    mseq,          \* router -> protocol->_msg_seqno
    ansn,          \* router -> _ansn
    metrics,       \* router -> its present neighbor metrics
    dirty,         \* router -> domain->neighbor_metric_changed
    processed,     \* router -> protocol->processed_set
    forwarded,     \* router -> protocol->forwarded_set
    topo,          \* router -> originator -> what its node of olsrv2_tc.c has
    queue,         \* router -> messages waiting in its multicast target
    aggregation,   \* router -> is the aggregation timer of the target active?
    inbox,         \* router -> packets in its socket, one message each
    made           \* history: the TCs that were made, with their maker

vars == <<mesh, ifaddr, orig, old, mseq, ansn, metrics, dirty, processed,
          forwarded, topo, queue, aggregation, inbox, made>>
state == <<mseq, ansn, dirty, processed, forwarded, topo, queue, aggregation>>
naming == <<mesh, ifaddr, orig, old, metrics>>

Key(m) == <<m.orig, m.seqno>>
Unknown == [ansn |-> -1, metrics |-> -1]
Tc == [orig : Addresses, seqno : 1 .. MaxTcs, ansn : 0 .. MaxTcs,
       metrics : 0 .. MaxMetrics]
Copy == [tc : Tc, hoplimit : 0 .. HopLimit]
-----------------------------------------------------------------------------
(* olsrv2_originator_is_local *)
IsLocal(r, a) == a = orig[r] \/ a \in old[r]

(* Mutant: an originator is forgotten as soon as there is a new one.       *)
SetOriginatorForgets(r, a) ==
    /\ orig' = [orig EXCEPT ![r] = a]
    /\ UNCHANGED old

(* Mutant: the unset originator is remembered like any other.              *)
SetOriginatorUnset(r, a) ==
    /\ orig' = [orig EXCEPT ![r] = a]
    /\ old' = [old EXCEPT ![r] = (@ \cup {orig[r]}) \ {a}]

(* olsrv2_originator_set: the old originator is remembered, the new one    *)
(* must not be in the set of the old ones.                                 *)
SetOriginator(r, a) ==
    /\ orig' = [orig EXCEPT ![r] = a]
    /\ old' = [old EXCEPT ![r] =
                 (IF orig[r] = NoAddress THEN @ ELSE @ \cup {orig[r]}) \ {a}]

(* One of the addresses with the highest priority, _get_addr_priority.     *)
IsBest(a, as) == a \in as /\ \A b \in as : Priority[b] <= Priority[a]

(* _update_originator: the present originator counts one priority more, as *)
(* long as the interface still has it; otherwise it has none.  It stays    *)
(* when no address is better.                                              *)
UpdateOriginator(r) ==
    LET usable == {a \in ifaddr'[r] : Priority[a] > 0}
        oldPriority == IF orig[r] \in usable THEN Priority[orig[r]] + 1 ELSE 0
        better == {a \in usable : Priority[a] > oldPriority}
    IN  IF better = {} THEN UNCHANGED <<orig, old>>
        ELSE \E a \in better : IsBest(a, better) /\ SetOriginator(r, a)

(* _cb_if_event: the addresses of the interface change.                    *)
InterfaceEvent(r, as) ==
    /\ r \in mesh.moving
    /\ as /= ifaddr[r]
    /\ ifaddr' = [ifaddr EXCEPT ![r] = as]
    /\ UpdateOriginator(r)
    /\ UNCHANGED <<mesh, mseq, ansn, metrics, dirty, processed, forwarded,
                   topo, queue, aggregation, inbox, made>>

(* Assumption on O_HOLD_TIME: a TC has left the mesh before the validity   *)
(* of an old originator ends.                                              *)
UnderWay(a) ==
    \E r \in Routers :
      \/ \E i \in DOMAIN queue[r] : queue[r][i].tc.orig = a
      \/ \E i \in DOMAIN inbox[r] : inbox[r][i].msg.tc.orig = a

(* _cb_originator_entry_vtime *)
OldOriginatorExpires(r, a) ==
    /\ a \in old[r] /\ ~UnderWay(a)
    /\ old' = [old EXCEPT ![r] = @ \ {a}]
    /\ UNCHANGED <<state, mesh, ifaddr, orig, metrics, inbox, made>>
-----------------------------------------------------------------------------
(* _recalculate_neighbor_metric finds a new value (nhdp_domain.c).         *)
NeighborMetricChanges(r) ==
    /\ r \in mesh.changing
    /\ metrics[r] < MaxMetrics
    /\ metrics' = [metrics EXCEPT ![r] = @ + 1]
    /\ dirty' = [dirty EXCEPT ![r] = TRUE]
    /\ UNCHANGED <<mesh, ifaddr, orig, old, mseq, ansn, processed, forwarded,
                   topo, queue, aggregation, inbox, made>>

(* nhdp_flooding_selector, nhdp_forwarding_selector: an interface without  *)
(* symmetric neighbor is not used.                                         *)
Floods(r) == mesh.sym[r] /= {}

(* The message waits in the target, the aggregation timer runs.            *)
Enqueue(r, copy) ==
    /\ queue' = [queue EXCEPT ![r] = Append(@, copy)]
    /\ aggregation' = [aggregation EXCEPT ![r] = TRUE]

(* Mutant: the flag is cleared before the ANSN is moved.                   *)
UpdatedAnsnStuck(r, heard) == ansn[r]

(* olsrv2_update_ansn.  A HELLO that lists this router (heard) marks the   *)
(* metrics changed as well, changed or not: the reader sets the outgoing   *)
(* metric to infinite before it is recalculated.                           *)
UpdatedAnsn(r, heard) == IF dirty[r] \/ heard THEN ansn[r] + 1 ELSE ansn[r]

(* _cb_generate_tc of a router that is an MPR: olsrv2_writer_send_tc, with *)
(* the callbacks that number the message.                                  *)
GenerateTc(r) ==
    /\ r \in MayMake /\ Cardinality(made) < MaxTcs
    /\ orig[r] /= NoAddress
    /\ Floods(r)
    /\ \E heard \in BOOLEAN :
         LET m == [orig |-> orig[r], seqno |-> mseq[r] + 1,
                   ansn |-> UpdatedAnsn(r, heard), metrics |-> metrics[r]] IN
         /\ mseq' = [mseq EXCEPT ![r] = m.seqno]
         /\ ansn' = [ansn EXCEPT ![r] = m.ansn]
         /\ Enqueue(r, [tc |-> m, hoplimit |-> HopLimit])
         /\ made' = made \cup {[maker |-> r, tc |-> m]}
    /\ dirty' = [dirty EXCEPT ![r] = FALSE]
    /\ UNCHANGED <<naming, processed, forwarded, topo, inbox>>

(* _cb_aggregation_event: the packet of the target goes out.  Who hears    *)
(* the router gets it, or misses it.                                       *)
Flush(r) ==
    /\ aggregation[r]
    /\ \E receivers \in SUBSET mesh.hears[r] :
         /\ mesh.hears[r] \ receivers \subseteq mesh.lossy
         /\ inbox' = [s \in Routers |->
                        IF s \in receivers
                        THEN inbox[s] \o [i \in DOMAIN queue[r] |->
                                            [from |-> r, msg |-> queue[r][i]]]
                        ELSE inbox[s]]
    /\ queue' = [queue EXCEPT ![r] = <<>>]
    /\ aggregation' = [aggregation EXCEPT ![r] = FALSE]
    /\ UNCHANGED <<naming, mseq, ansn, dirty, processed, forwarded, topo, made>>
-----------------------------------------------------------------------------
(* Mutant: a router relays what comes from any symmetric neighbor, again   *)
(* and again.                                                              *)
ShallForwardAlways(r, from, m) ==
    from \in mesh.sym[r] /\ from \in mesh.mpr[r]
(* Mutant: the relay is left to the routers the sender did not choose.     *)
ShallForwardOthers(r, from, m) ==
    Key(m) \notin forwarded[r] /\ from \in mesh.sym[r] /\ r \notin mesh.mpr[from]

(* olsrv2_mpr_shall_forwarding: only the first copy counts, and it must    *)
(* come from a symmetric neighbor that chose this router as flooding MPR.  *)
ShallForward(r, from, m) ==
    Key(m) \notin forwarded[r] /\ from \in mesh.sym[r] /\ r \in mesh.mpr[from]

(* rfc5444_reader.c, _handle_message, and rfc5444_writer_forward_msg.      *)
Forward(r, copy) ==
    IF copy.hoplimit > 1 /\ Floods(r)
    THEN Enqueue(r, [copy EXCEPT !.hoplimit = @ - 1])
    ELSE UNCHANGED <<queue, aggregation>>

(* The check of olsrv2_reader.c against the ANSN of the node.              *)
Outdated(r, m) == m.ansn < topo[r][m.orig].ansn

(* olsrv2_mpr_shall_process *)
ShallProcess(r, m) == Key(m) \notin processed[r]

TakeHead(r) == inbox' = [inbox EXCEPT ![r] = Tail(@)]

(* _cb_messagetlvs of olsrv2_reader.c, a TC of this router comes back.     *)
HearOwn(r) ==
    /\ inbox[r] /= <<>>
    /\ IsLocal(r, Head(inbox[r]).msg.tc.orig)
    /\ TakeHead(r)
    /\ UNCHANGED <<state, naming, made>>

(* The whole reader for a TC of another router: the forwarding set notes   *)
(* it before anything is known of the sender, the processing set and the   *)
(* ANSN decide whether the database takes it, and the relay comes last.    *)
Receive(r) ==
    LET p == Head(inbox[r])
        m == p.msg.tc IN
    /\ inbox[r] /= <<>>
    /\ ~IsLocal(r, m.orig)
    /\ TakeHead(r)
    /\ forwarded' = [forwarded EXCEPT ![r] = @ \cup {Key(m)}]
    /\ processed' = [processed EXCEPT ![r] = @ \cup {Key(m)}]
    /\ topo' = IF ShallProcess(r, m) /\ ~Outdated(r, m)
               THEN [topo EXCEPT ![r][m.orig] = [ansn |-> m.ansn, metrics |-> m.metrics]]
               ELSE topo
    /\ IF ShallForward(r, p.from, m) THEN Forward(r, p.msg)
       ELSE UNCHANGED <<queue, aggregation>>
    /\ UNCHANGED <<naming, mseq, ansn, dirty, made>>
-----------------------------------------------------------------------------
Init ==
    /\ mesh \in Meshes
    /\ ifaddr = [r \in Routers |-> IF r \in mesh.moving THEN {} ELSE AddressesOf[r]]
    /\ orig \in {o \in [Routers -> Addresses \cup {NoAddress}] :
                  \A r \in Routers : IF r \in mesh.moving THEN o[r] = NoAddress
                                     ELSE IsBest(o[r], AddressesOf[r])}
    /\ old = [r \in Routers |-> {}]
    /\ mseq = [r \in Routers |-> 0]
    /\ ansn = [r \in Routers |-> 0]
    /\ metrics = [r \in Routers |-> 0]
    /\ dirty = [r \in Routers |-> FALSE]
    /\ processed = [r \in Routers |-> {}]
    /\ forwarded = [r \in Routers |-> {}]
    /\ topo = [r \in Routers |-> [a \in Addresses |-> Unknown]]
    /\ queue = [r \in Routers |-> <<>>]
    /\ aggregation = [r \in Routers |-> FALSE]
    /\ inbox = [r \in Routers |-> <<>>]
    /\ made = {}

Reader(r) == HearOwn(r) \/ Receive(r)

Next ==
    \E r \in Routers :
      \/ \E as \in SUBSET AddressesOf[r] : InterfaceEvent(r, as)
      \/ \E a \in AddressesOf[r] : OldOriginatorExpires(r, a)
      \/ NeighborMetricChanges(r)
      \/ GenerateTc(r)
      \/ Flush(r)
      \/ HearOwn(r)
      \/ Receive(r)

Spec == Init /\ [][Next]_vars

(* The aggregation timer fires and the scheduler reads every socket that   *)
(* has data (module OonfTimer).  Nothing else has to happen.               *)
FairSpec ==
    /\ Spec
    /\ \A r \in Routers : WF_vars(Flush(r)) /\ WF_vars(Reader(r))
-----------------------------------------------------------------------------
TypeOK ==
    /\ mesh \in Meshes
    /\ ifaddr \in [Routers -> SUBSET Addresses]
    /\ orig \in [Routers -> Addresses \cup {NoAddress}] /\ old \in [Routers -> SUBSET Addresses]
    /\ mseq \in [Routers -> Nat] /\ ansn \in [Routers -> Nat]
    /\ metrics \in [Routers -> Nat] /\ dirty \in [Routers -> BOOLEAN]
    /\ processed \in [Routers -> SUBSET (Addresses \X Nat)]
    /\ forwarded \in [Routers -> SUBSET (Addresses \X Nat)]
    /\ topo \in [Routers -> [Addresses -> [ansn : Int, metrics : Int]]]
    /\ queue \in [Routers -> Seq(Copy)] /\ aggregation \in [Routers -> BOOLEAN]
    /\ inbox \in [Routers -> Seq([from : Routers, msg : Copy])]
    /\ made \subseteq [maker : Routers, tc : Tc]

(* Duplicates, echoes, relays and changes of the originator do not show:   *)
(* the database of a router is offered every TC at most once, each was     *)
(* made by the router it is said to come from, and no router is offered    *)
(* what it made itself, under whatever originator it did so.               *)
Id(m) == [maker |-> m.maker, orig |-> m.tc.orig, seqno |-> m.tc.seqno]
AbstractTcs ==
    {i \in [maker : MayMake, orig : Addresses, seqno : 1 .. MaxTcs] :
       i.orig \in AddressesOf[i.maker]}

Broadcast == INSTANCE TcBroadcast WITH
    Tcs <- AbstractTcs,
    made <- {Id(m) : m \in made},
    got <- [r \in Routers |-> {Id(m) : m \in {n \in made : Key(n.tc) \in processed[r]}}]

Implements == Broadcast!Spec

(* A router relays a TC once, whatever the mesh looks like: it is the      *)
(* forwarded_set and not the hop limit that ends a flood.                  *)
HopsBounded ==
    \A r \in Routers : \A i \in DOMAIN queue[r] :
      queue[r][i].hoplimit > HopLimit - Cardinality(Routers)

(* TCs of a router overtake each other on their ways through the mesh, but *)
(* what a database holds of it never gets older: the ANSN moves with every *)
(* change of the metrics it is sent with.                                  *)
TopologyNeverRegresses ==
    [][\A r \in Routers : \A a \in Addresses :
         topo[r][a].metrics <= topo'[r][a].metrics]_vars

(* What NHDP and MPR selection promise: links work both ways, and every    *)
(* router two hops away is a neighbor of a flooding MPR.                   *)
Covered ==
    /\ mesh.hears = mesh.sym
    /\ \A r \in Routers : \A s \in mesh.sym[r] : r \in mesh.sym[s]
    /\ \A r \in Routers : \A s \in mesh.sym[r] : \A t \in mesh.sym[s] \ mesh.sym[r] :
         t /= r => \E p \in mesh.mpr[r] : t \in mesh.sym[p]

(* The routers at most n hops from r.                                      *)
Within(r, n) ==
    LET near[k \in 0 .. n] ==
          IF k = 0 THEN {r} ELSE near[k - 1] \cup UNION {mesh.sym[s] : s \in near[k - 1]}
    IN  near[n]

(* Although a router relays only the first copy of a TC, and only if that  *)
(* came from a neighbor that chose it, every TC gets to the database of    *)
(* every router that has a way to its maker when no packet is lost.        *)
FloodReaches ==
    \A i \in AbstractTcs :
      (i \in {Id(m) : m \in made} /\ Covered /\ mesh.lossy = {})
        ~> \A s \in Within(i.maker, Cardinality(Routers)) \ {i.maker} :
             <<i.orig, i.seqno>> \in processed[s]
=============================================================================
