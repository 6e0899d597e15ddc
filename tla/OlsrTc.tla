------------------------------- MODULE OlsrTc -------------------------------
(***************************************************************************)
(* The topology database of OLSRv2 (olsrv2_tc.c) and the TC reader that    *)
(* feeds it (olsrv2_reader.c).  A TC is processed to its end in one step;  *)
(* TCs arrive in any order, late, repeatedly or not at all, and validity   *)
(* timers run out between them.                                            *)
(*                                                                         *)
(* A TC is a record of                                                     *)
(*   orig      its originator                                              *)
(*   ansn      the ANSN of its CONT_SEQ_NUM TLV                            *)
(*   complete  does the TLV say COMPLETE or INCOMPLETE (fragmented)?       *)
(*   vtime     its validity time                                           *)
(*   edges     originators of neighbors, each with the metrics out and in  *)
(*   nets      attached prefixes, each with its kind (mesh address or not) *)
(*             and its metric                                              *)
(* Every edge is stored with its inverse, which is virtual unless its own  *)
(* source has advertised it.  A node without running validity timer is     *)
(* virtual: others advertise edges to it.                                  *)
(***************************************************************************)
EXTENDS Integers, FiniteSets

CONSTANTS
    Nodes,         \* originator addresses of other routers
    Prefixes,      \* addresses and networks that can be attached
    Tcs,           \* the TCs that may arrive
    BadTcs,        \* TCs that arrive without a mandatory message TLV
    HalfAnsn       \* half of the ANSN space (2^15 in the code)

Infinite == 1000   \* RFC7181_METRIC_INFINITE, more than any metric
Metric == 1..Infinite
Ansns == 0..(2 * HalfAnsn - 1)
NoNode == "none"
EdgeData == [out : Metric, in : Metric]
NetData == [mesh : BOOLEAN, cost : Metric]

(* A TC does not advertise its own originator, and has a validity time.    *)
ASSUME ConstantsAssumption ==
    /\ NoNode \notin Nodes
    /\ HalfAnsn \in Nat \ {0}
    /\ \A m \in Tcs \cup BadTcs :
         /\ m.orig \in Nodes
         /\ m.ansn \in Ansns
         /\ m.complete \in BOOLEAN
         /\ m.vtime \in Nat \ {0}
         /\ DOMAIN m.edges \subseteq Nodes \ {m.orig}
         /\ m.edges \in [DOMAIN m.edges -> EdgeData]
         /\ DOMAIN m.nets \subseteq Prefixes
         /\ m.nets \in [DOMAIN m.nets -> NetData]

VARIABLES
    node,          \* _tc_tree: [present, ansn, validity]
    edge,          \* the edge from one node to another: [present, virtual, ansn, cost]
    att,           \* attached networks of a node: [present, ansn, cost]
    end,           \* _tc_endpoint_tree: the nodes of an endpoint, and its type
    current,       \* _current.node, which outlives its TC when the TC is dropped
    undefined,     \* a freed node was used: nothing is said from here on
    foreign,       \* history: addresses of a TC were stored for another node
    silent,        \* history: no TC arrives any more
    adv            \* history: what the node said under its present ANSN

db == [node |-> node, edge |-> edge, att |-> att, end |-> end]
vars == <<node, edge, att, end, current, undefined, foreign, silent, adv>>

Off == -1
Active(t) == t >= 0
TimerSet(t) == IF t = 0 THEN Off ELSE t

FreeNode == [present |-> FALSE, ansn |-> 0, validity |-> Off]
FreeEdge == [present |-> FALSE, virtual |-> FALSE, ansn |-> 0, cost |-> Infinite]
FreeAtt == [present |-> FALSE, ansn |-> 0, cost |-> Infinite]
FreeEnd == [nodes |-> {}, mesh |-> FALSE]

IsVirtual(d, n) == ~Active(d.node[n].validity)
EdgesOf(d, n) == {o \in Nodes : d.edge[n][o].present}
NetsOf(d, n) == {p \in Prefixes : d.att[n][p].present}
RealEdges(d, n) == {o \in EdgesOf(d, n) : ~d.edge[n][o].virtual}
-----------------------------------------------------------------------------
(* olsrv2_tc_endpoint_remove for the prefixes P of n: the endpoint goes    *)
(* with its last attachment.                                               *)
EndpointsRemove(d, n, P) ==
    [d EXCEPT !.att[n] = [p \in Prefixes |-> IF p \in P THEN FreeAtt ELSE @[p]],
              !.end = [p \in Prefixes |->
                         IF p \notin P THEN @[p]
                         ELSE IF @[p].nodes \subseteq {n} THEN FreeEnd
                         ELSE [nodes |-> @[p].nodes \ {n}, mesh |-> @[p].mesh]]]

(* Mutants: the inverse of a removed edge is not unhooked; a virtual node  *)
(* without edges is not removed.                                           *)
EdgesRemoveOneSide(d, n, O) ==
    [d EXCEPT !.edge[n] = [o \in Nodes |-> IF o \in O THEN FreeEdge ELSE @[o]]]
EdgesRemoveKeepsNode(d, n, O) ==
    LET drop == {o \in O : d.edge[o][n].virtual}
    IN  [d EXCEPT !.edge = [a \in Nodes |-> [b \in Nodes |->
                IF (a = n /\ b \in drop) \/ (b = n /\ a \in drop) THEN FreeEdge
                ELSE IF a = n /\ b \in O
                     THEN [d.edge[a][b] EXCEPT !.virtual = TRUE]
                     ELSE d.edge[a][b]]]]

(* _remove_edge for the edges from n to O, each a non-virtual edge: an     *)
(* edge with a real inverse becomes virtual; otherwise both go, and so     *)
(* does a virtual node that has lost its last edge.  Such a node has no    *)
(* attached networks.                                                      *)
EdgesRemove(d, n, O) ==
    LET drop == {o \in O : d.edge[o][n].virtual}
        e == [a \in Nodes |-> [b \in Nodes |->
                IF (a = n /\ b \in drop) \/ (b = n /\ a \in drop) THEN FreeEdge
                ELSE IF a = n /\ b \in O
                     THEN [d.edge[a][b] EXCEPT !.virtual = TRUE]
                     ELSE d.edge[a][b]]]
        gone == {o \in drop : /\ IsVirtual(d, o)
                              /\ \A a \in Nodes : ~e[o][a].present}
    IN  [d EXCEPT !.edge = e,
                  !.node = [o \in Nodes |-> IF o \in gone THEN FreeNode ELSE @[o]]]

(* olsrv2_tc_node_remove: the node stays as a virtual one while others     *)
(* advertise edges to it.                                                  *)
NodeRemove(d, n) ==
    LET e == EndpointsRemove(EdgesRemove(d, n, RealEdges(d, n)), n, NetsOf(d, n))
    IN  [e EXCEPT !.node[n] = IF EdgesOf(e, n) = {} THEN FreeNode
                              ELSE [@ EXCEPT !.validity = Off]]

(* olsrv2_tc_node_add: a virtual node takes the ANSN, a real one keeps its *)
(* own; the validity timer is set in any case.                             *)
NodeAdd(d, n, vtime, ansn) ==
    [d EXCEPT !.node[n] =
        [present |-> TRUE,
         ansn |-> IF @.present /\ ~IsVirtual(d, n) THEN @.ansn ELSE ansn,
         validity |-> TimerSet(vtime)]]

(* olsrv2_tc_edge_add for all the originators of a TC: an edge that exists *)
(* becomes real and loses its metric, a new one comes with a virtual       *)
(* inverse and if necessary with a virtual node.                           *)
EdgesAdd(d, n, O) ==
    [d EXCEPT
       !.node = [o \in Nodes |-> IF o \in O /\ ~@[o].present
                                 THEN [FreeNode EXCEPT !.present = TRUE] ELSE @[o]],
       !.edge = [a \in Nodes |-> [b \in Nodes |->
                   IF a = n /\ b \in O
                   THEN [@[a][b] EXCEPT !.present = TRUE, !.virtual = FALSE,
                                        !.cost = Infinite]
                   ELSE IF b = n /\ a \in O /\ ~@[a][b].present
                   THEN [FreeEdge EXCEPT !.present = TRUE, !.virtual = TRUE]
                   ELSE @[a][b]]]]

(* Mutants: both metrics are added up; the metric of a real inverse is     *)
(* overwritten.                                                            *)
AddressesAddSum(d, n, es) ==
    LET O == DOMAIN es
        e == EdgesAdd(d, n, O)
    IN  [e EXCEPT !.edge[n] = [b \in Nodes |->
           IF b \in O THEN [@[b] EXCEPT !.cost = es[b].out + es[b].in,
                                        !.ansn = d.node[n].ansn]
           ELSE @[b]]]
AddressesAddBothWays(d, n, es) ==
    LET O == DOMAIN es
        e == EdgesAdd(d, n, O)
    IN  [e EXCEPT !.edge = [a \in Nodes |-> [b \in Nodes |->
           IF a = n /\ b \in O
           THEN [@[a][b] EXCEPT !.ansn = d.node[n].ansn, !.cost = es[b].out]
           ELSE IF b = n /\ a \in O
           THEN [@[a][b] EXCEPT !.cost = es[a].in]
           ELSE @[a][b]]]]

(* _cb_addresstlvs for the originators: the metric of a TC is for its own  *)
(* edge, and for the inverse only as long as that is virtual.              *)
AddressesAdd(d, n, es) ==
    LET O == DOMAIN es
        e == EdgesAdd(d, n, O)
    IN  [e EXCEPT !.edge = [a \in Nodes |-> [b \in Nodes |->
           IF a = n /\ b \in O
           THEN [@[a][b] EXCEPT !.ansn = d.node[n].ansn, !.cost = es[b].out]
           ELSE IF b = n /\ a \in O /\ @[a][b].virtual /\ es[a].in < Infinite
           THEN [@[a][b] EXCEPT !.cost = es[a].in]
           ELSE @[a][b]]]]

(* olsrv2_tc_endpoint_add and its callers: the type of an endpoint is the  *)
(* one it was first announced with; an infinite metric of a mesh address   *)
(* leaves the old one, that of a network replaces it.                      *)
NetsAdd(d, n, nets) ==
    [d EXCEPT
       !.att[n] = [p \in Prefixes |->
          IF p \notin DOMAIN nets THEN @[p]
          ELSE [present |-> TRUE, ansn |-> d.node[n].ansn,
                cost |-> IF nets[p].mesh /\ nets[p].cost = Infinite THEN @[p].cost
                         ELSE nets[p].cost]],
       !.end = [p \in Prefixes |->
          IF p \notin DOMAIN nets THEN @[p]
          ELSE [nodes |-> @[p].nodes \cup {n},
                mesh |-> IF @[p].nodes = {} THEN nets[p].mesh ELSE @[p].mesh]]]

(* _cb_messagetlvs_end: what the node said under another ANSN goes.        *)
MessageEnd(d, n) ==
    LET stale == {o \in RealEdges(d, n) : d.edge[n][o].ansn # d.node[n].ansn}
        nets == {p \in NetsOf(d, n) : d.att[n][p].ansn # d.node[n].ansn}
    IN  EndpointsRemove(EdgesRemove(d, n, stale), n, nets)

Content(d, n, m) == MessageEnd(NetsAdd(AddressesAdd(d, n, m.edges), n, m.nets), n)
-----------------------------------------------------------------------------
(* rfc5444_seqno_is_larger and rfc5444_seqno_is_smaller                    *)
IsLarger(s1, s2) ==
    \/ s1 > s2 /\ s1 - s2 < HalfAnsn
    \/ s2 > s1 /\ s2 - s1 > HalfAnsn
IsSmaller(s1, s2) == s1 # s2 /\ ~IsLarger(s1, s2)

(* The check of the ANSN in _cb_messagetlvs.  complete_tc is the type_ext  *)
(* of the consumer entry, which is 0 whatever the TLV of the TC says, so   *)
(* every TC is treated as complete.                                        *)
Outdated(d, m) == IsSmaller(m.ansn, d.node[m.orig].ansn)

SetDb(d) ==
    /\ node' = d.node
    /\ edge' = d.edge
    /\ att' = d.att
    /\ end' = d.end

(* _cb_messagetlvs up to its last check: a TC that is not recent enough is *)
(* dropped when the validity of its node is already extended.              *)
TcOutdated(m) ==
    LET d == NodeAdd(db, m.orig, m.vtime, m.ansn)
    IN  /\ ~silent /\ ~undefined
        /\ Outdated(d, m)
        /\ SetDb(d)
        /\ current' = m.orig
        /\ UNCHANGED <<undefined, foreign, silent, adv>>

(* What a node has said: the newest word on an edge counts.                *)
Over(new, old) ==
    [o \in DOMAIN new \cup DOMAIN old |-> IF o \in DOMAIN new THEN new[o] ELSE old[o]]

(* A TC that is processed.                                                 *)
TcProcessed(m) ==
    LET d == NodeAdd(db, m.orig, m.vtime, m.ansn)
        n == m.orig
        again == ~IsVirtual(db, n) /\ m.ansn = node[n].ansn
    IN  /\ ~silent /\ ~undefined
        /\ ~Outdated(d, m)
        /\ SetDb(Content([d EXCEPT !.node[n].ansn = m.ansn], n, m))
        /\ current' = NoNode
        /\ adv' = [adv EXCEPT ![n] =
                     IF again THEN [edges |-> Over(m.edges, @.edges),
                                    nets |-> DOMAIN m.nets \cup @.nets]
                     ELSE [edges |-> m.edges, nets |-> DOMAIN m.nets]]
        /\ UNCHANGED <<undefined, foreign, silent>>

(* A TC that _cb_messagetlvs drops before it looks for the node: our own,  *)
(* or one that olsrv2_mpr_shall_process has seen before.                   *)
TcIgnored ==
    /\ ~silent /\ ~undefined
    /\ current # NoNode
    /\ current' = NoNode
    /\ UNCHANGED <<node, edge, att, end, undefined, foreign, silent, adv>>

(* A TC without a mandatory message TLV: _cb_messagetlvs is not called,    *)
(* but the address and end callbacks are, with the _current of before.     *)
TcWithoutTlv(m) ==
    /\ ~silent /\ ~undefined
    /\ current # NoNode
    /\ current \notin DOMAIN m.edges
    /\ IF node[current].present
       THEN SetDb(Content(db, current, m)) /\ foreign' = TRUE /\ UNCHANGED undefined
       ELSE undefined' = TRUE /\ UNCHANGED <<node, edge, att, end, foreign>>
    /\ current' = NoNode
    /\ UNCHANGED <<silent, adv>>

(* _cb_tc_node_timeout                                                     *)
NodeTimeout(n) ==
    /\ ~undefined
    /\ node[n].validity = 0
    /\ SetDb(NodeRemove(db, n))
    /\ adv' = [adv EXCEPT ![n] = [edges |-> <<>>, nets |-> {}]]
    /\ UNCHANGED <<current, undefined, foreign, silent>>

(* Time passes; a timer that is due is not skipped.                        *)
Tick ==
    /\ ~undefined
    /\ \A n \in Nodes : node[n].validity # 0
    /\ \E n \in Nodes : Active(node[n].validity)
    /\ node' = [n \in Nodes |-> IF Active(node[n].validity)
                                THEN [node[n] EXCEPT !.validity = @ - 1] ELSE node[n]]
    /\ UNCHANGED <<edge, att, end, current, undefined, foreign, silent, adv>>

FallSilent ==
    /\ ~silent
    /\ silent' = TRUE
    /\ UNCHANGED <<node, edge, att, end, current, undefined, foreign, adv>>
-----------------------------------------------------------------------------
Init ==
    /\ node = [n \in Nodes |-> FreeNode]
    /\ edge = [n \in Nodes |-> [o \in Nodes |-> FreeEdge]]
    /\ att = [n \in Nodes |-> [p \in Prefixes |-> FreeAtt]]
    /\ end = [p \in Prefixes |-> FreeEnd]
    /\ current = NoNode
    /\ undefined = FALSE
    /\ foreign = FALSE
    /\ silent = FALSE
    /\ adv = [n \in Nodes |-> [edges |-> <<>>, nets |-> {}]]

Next ==
    \/ \E m \in Tcs : TcOutdated(m)
    \/ \E m \in Tcs : TcProcessed(m)
    \/ TcIgnored
    \/ \E m \in BadTcs : TcWithoutTlv(m)
    \/ \E n \in Nodes : NodeTimeout(n)
    \/ Tick
    \/ FallSilent

Spec == Init /\ [][Next]_vars

(* oonf_main calls oonf_timer_walk in every round of its loop, and time    *)
(* does not stop; nothing is assumed about TCs.                            *)
FairSpec == Spec /\ WF_vars(Tick) /\ \A n \in Nodes : WF_vars(NodeTimeout(n))
-----------------------------------------------------------------------------
NodeType == [present : BOOLEAN, ansn : Ansns, validity : Int]
EdgeType == [present : BOOLEAN, virtual : BOOLEAN, ansn : Ansns, cost : Metric]
AttType == [present : BOOLEAN, ansn : Ansns, cost : Metric]

(* The database keeps its types.                                           *)
TypeOK ==
    /\ node \in [Nodes -> NodeType]
    /\ edge \in [Nodes -> [Nodes -> EdgeType]]
    /\ att \in [Nodes -> [Prefixes -> AttType]]
    /\ end \in [Prefixes -> [nodes : SUBSET Nodes, mesh : BOOLEAN]]
    /\ current \in Nodes \cup {NoNode}

(* No TC without a mandatory TLV has been taken for one of another node.   *)
SessionsSound == ~foreign /\ ~undefined

(* Edges come in pairs between nodes of the tree, and one of a pair was    *)
(* advertised: _remove_edge follows inverse and dst without a check.       *)
EdgesPaired ==
    \A a, b \in Nodes : edge[a][b].present =>
        /\ edge[b][a].present
        /\ ~(edge[a][b].virtual /\ edge[b][a].virtual)
        /\ node[a].present

(* A virtual node is in the tree only for the sake of edges that others    *)
(* advertise, and what is not in the tree has neither edges nor networks.  *)
VirtualNodesNeeded ==
    SessionsSound =>
        \A n \in Nodes : IsVirtual(db, n) =>
            /\ RealEdges(db, n) = {}
            /\ NetsOf(db, n) = {}
            /\ node[n].present <=> EdgesOf(db, n) # {}

(* An endpoint is in the endpoint tree with exactly the nodes that have it *)
(* attached.                                                               *)
EndpointsAttached ==
    \A p \in Prefixes : end[p].nodes = {n \in Nodes : att[n][p].present}

(* Nodes, edges and endpoints can be followed and freed in any order: no   *)
(* half edge, no needless or missing virtual node, no lone endpoint.       *)
PointersConsistent == EdgesPaired /\ VirtualNodesNeeded /\ EndpointsAttached

(* Whatever the order of TCs, timeouts and the TCs of the other side: the  *)
(* real edges, their metrics and the attached networks of a node are those *)
(* it advertised under its present ANSN.                                   *)
AdvertisedExactly ==
    SessionsSound =>
        \A n \in Nodes :
            /\ RealEdges(db, n) = DOMAIN adv[n].edges
            /\ NetsOf(db, n) = adv[n].nets
            /\ \A o \in RealEdges(db, n) : edge[n][o].cost = adv[n].edges[o].out

(* Without TCs the whole database is forgotten, virtual nodes included.    *)
SilenceForgotten ==
    silent ~> (SessionsSound => \A n \in Nodes : ~node[n].present)
=============================================================================
