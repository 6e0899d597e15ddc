---------------------------- MODULE OlsrTcProofs ----------------------------
(***************************************************************************)
(* For any routers, prefixes and TCs, in whatever order TCs and timeouts   *)
(* come: the pointers of the topology database can be followed, what it    *)
(* holds of a node is what the node has advertised, and the routes that    *)
(* are computed from it are the shortest ones, whatever NHDP knows.        *)
(*                                                                         *)
(* The operators of OlsrTc take and return the whole database.  The first  *)
(* lemmas say what each of them makes of every node, edge and attached     *)
(* network; the next ones that it keeps the parts of the invariant; the    *)
(* last ones put the operators of an action together.                      *)
(*                                                                         *)
(* The second half is about OlsrDijkstra: ways and paths, the operators,   *)
(* the invariant of the working queue (Searching), that its loop ends, and *)
(* the entries that the neighbors of NHDP add.                             *)
(***************************************************************************)
EXTENDS OlsrDijkstra, FiniteSetTheorems, WellFoundedInduction, TLAPS

EndType == [nodes : SUBSET Nodes, mesh : BOOLEAN]
DbType == [node : [Nodes -> NodeType], edge : [Nodes -> [Nodes -> EdgeType]],
           att : [Nodes -> [Prefixes -> AttType]], end : [Prefixes -> EndType]]

(* The content of a TC, as ConstantsAssumption has it.                     *)
GoodContent(n, m) ==
    /\ DOMAIN m.edges \subseteq Nodes \ {n} /\ m.edges \in [DOMAIN m.edges -> EdgeData]
    /\ DOMAIN m.nets \subseteq Prefixes /\ m.nets \in [DOMAIN m.nets -> NetData]

(* Parts of the invariant, of a database d.                                *)
Paired(d) ==
    \A a, b \in Nodes : d.edge[a][b].present =>
        /\ a /= b /\ d.edge[b][a].present
        /\ ~(d.edge[a][b].virtual /\ d.edge[b][a].virtual)
        /\ d.node[a].present
Attached(d) == \A p \in Prefixes : d.end[p].nodes = {n \in Nodes : d.att[n][p].present}
Timed(d) == \A n \in Nodes : Active(d.node[n].validity) => d.node[n].present
Needed(d) ==
    \A n \in Nodes : IsVirtual(d, n) =>
        /\ RealEdges(d, n) = {}
        /\ NetsOf(d, n) = {}
        /\ d.node[n].present <=> EdgesOf(d, n) # {}
-----------------------------------------------------------------------------
(* The free records have their types.                                      *)
LEMMA FreeTypes ==
    /\ Infinite \in Metric /\ 0 \in Ansns
    /\ FreeNode \in NodeType /\ FreeEdge \in EdgeType /\ FreeAtt \in AttType
    /\ FreeEnd \in EndType
    /\ ~FreeEdge.present /\ ~FreeNode.present /\ ~FreeAtt.present
    /\ FreeNode.validity = Off /\ FreeEnd.nodes = {}
BY ConstantsAssumption DEF Infinite, Metric, Ansns, FreeNode, FreeEdge, FreeAtt, FreeEnd,
   NodeType, EdgeType, AttType, EndType, Off

(* The fields of a database have their types.                              *)
LEMMA DbFields ==
    ASSUME NEW d \in DbType
    PROVE  /\ \A n \in Nodes : /\ d.node[n] \in NodeType
                               /\ d.node[n].validity \in Int /\ d.node[n].ansn \in Ansns
                               /\ d.node[n].present \in BOOLEAN
           /\ \A a, b \in Nodes : /\ d.edge[a][b] \in EdgeType
                                  /\ d.edge[a][b].present \in BOOLEAN
                                  /\ d.edge[a][b].virtual \in BOOLEAN
           /\ \A n \in Nodes, p \in Prefixes : /\ d.att[n][p] \in AttType
                                               /\ d.att[n][p].present \in BOOLEAN
           /\ \A p \in Prefixes : d.end[p] \in EndType /\ d.end[p].nodes \subseteq Nodes
BY DEF DbType, NodeType, EdgeType, AttType, EndType

(* olsrv2_tc_endpoint_remove                                               *)
LEMMA EndpointsRemoveValue ==
    ASSUME NEW d \in DbType, NEW n \in Nodes, NEW P \in SUBSET Prefixes,
           NEW e, e = EndpointsRemove(d, n, P)
    PROVE  /\ e \in DbType /\ e.node = d.node /\ e.edge = d.edge
           /\ \A p \in P : e.att[n][p] = FreeAtt /\ e.end[p].nodes = d.end[p].nodes \ {n}
           /\ \A a \in Nodes, p \in Prefixes : a /= n \/ p \notin P => e.att[a][p] = d.att[a][p]
           /\ \A p \in Prefixes \ P : e.end[p].nodes = d.end[p].nodes
<1> DEFINE row == [p \in Prefixes |-> IF p \in P THEN FreeAtt ELSE d.att[n][p]]
           ends == [p \in Prefixes |->
                      IF p \notin P THEN d.end[p]
                      ELSE IF d.end[p].nodes \subseteq {n} THEN FreeEnd
                      ELSE [nodes |-> d.end[p].nodes \ {n}, mesh |-> d.end[p].mesh]]
<1>1. e.node = d.node /\ e.edge = d.edge
  BY DEF EndpointsRemove, DbType
<1>2. e.att = [d.att EXCEPT ![n] = row]
  BY DEF EndpointsRemove, DbType
<1>3. e.end = ends
  BY DEF EndpointsRemove, DbType
<1>4. row \in [Prefixes -> AttType]
  BY FreeTypes, DbFields
<1>5. /\ e.att \in [Nodes -> [Prefixes -> AttType]]
      /\ \A a \in Nodes, p \in Prefixes :
           e.att[a][p] = IF a = n /\ p \in P THEN FreeAtt ELSE d.att[a][p]
  BY <1>2, <1>4 DEF DbType
<1>6. ASSUME NEW p \in Prefixes
      PROVE  /\ ends[p] \in EndType
             /\ ends[p].nodes = IF p \in P THEN d.end[p].nodes \ {n} ELSE d.end[p].nodes
  <2>1. d.end[p] \in EndType
    BY DbFields
  <2>2. ends[p] = IF p \notin P THEN d.end[p]
                  ELSE IF d.end[p].nodes \subseteq {n} THEN FreeEnd
                  ELSE [nodes |-> d.end[p].nodes \ {n}, mesh |-> d.end[p].mesh]
    OBVIOUS
  <2> HIDE DEF ends
  <2>3. CASE p \notin P
    BY <2>1, <2>2, <2>3
  <2>4. CASE p \in P /\ d.end[p].nodes \subseteq {n}
    BY <2>2, <2>4, FreeTypes
  <2>5. CASE p \in P /\ ~(d.end[p].nodes \subseteq {n})
    BY <2>1, <2>2, <2>5 DEF EndType
  <2>6. QED
    BY <2>3, <2>4, <2>5
<1>7. ends \in [Prefixes -> EndType]
  BY <1>6
<1>8. e = [node |-> e.node, edge |-> e.edge, att |-> e.att, end |-> e.end]
  BY DEF EndpointsRemove, DbType
<1> HIDE DEF row, ends
<1>9. e \in DbType
  BY <1>1, <1>3, <1>5, <1>7, <1>8 DEF DbType
<1>10. QED
  BY <1>1, <1>3, <1>5, <1>6, <1>9

(* _remove_edge                                                            *)
LEMMA EdgesRemoveValue ==
    ASSUME NEW d \in DbType, NEW n \in Nodes, NEW O \in SUBSET Nodes,
           NEW e, e = EdgesRemove(d, n, O), NEW drop, drop = {o \in O : d.edge[o][n].virtual},
           n \notin drop
    PROVE  /\ e \in DbType /\ e.att = d.att /\ e.end = d.end
           /\ \A o \in drop : e.edge[n][o] = FreeEdge /\ e.edge[o][n] = FreeEdge
           /\ \A o \in O \ drop : /\ e.edge[n][o].present = d.edge[n][o].present
                                  /\ e.edge[n][o].virtual
           /\ \A a, b \in Nodes : (a /= n \/ b \notin O) /\ (b /= n \/ a \notin drop) =>
                e.edge[a][b] = d.edge[a][b]
           /\ \A o \in Nodes :
                \/ e.node[o] = d.node[o]
                \/ o \in drop /\ IsVirtual(d, o) /\ e.node[o] = FreeNode
           /\ \A o \in drop : IsVirtual(d, o) /\ (\A a \in Nodes : ~e.edge[o][a].present)
                             => e.node[o] = FreeNode
           /\ \A o \in Nodes : e.node[o] /= d.node[o] => \A a \in Nodes : ~e.edge[o][a].present
<1> DEFINE edge1 == [a \in Nodes |-> [b \in Nodes |->
                IF (a = n /\ b \in drop) \/ (b = n /\ a \in drop) THEN FreeEdge
                ELSE IF a = n /\ b \in O
                     THEN [d.edge[a][b] EXCEPT !.virtual = TRUE]
                     ELSE d.edge[a][b]]]
           gone == {o \in drop : /\ IsVirtual(d, o)
                                 /\ \A a \in Nodes : ~edge1[o][a].present}
           node1 == [o \in Nodes |-> IF o \in gone THEN FreeNode ELSE d.node[o]]
<1>1. e = [d EXCEPT !.edge = edge1,
                    !.node = [o \in Nodes |-> IF o \in gone THEN FreeNode ELSE @[o]]]
  BY DEF EdgesRemove
<1>2. edge1 \in [Nodes -> [Nodes -> EdgeType]]
  <2>1. ASSUME NEW a \in Nodes, NEW b \in Nodes
        PROVE  edge1[a][b] \in EdgeType
    <3>1. d.edge[a][b] \in EdgeType
      BY DbFields
    <3>2. [d.edge[a][b] EXCEPT !.virtual = TRUE] \in EdgeType
      BY <3>1 DEF EdgeType
    <3>3. QED
      BY <3>1, <3>2, FreeTypes
  <2>2. QED
    BY <2>1
<1>3. node1 \in [Nodes -> NodeType]
  BY FreeTypes, DbFields
<1> HIDE DEF edge1, gone
<1>4. e.edge = edge1 /\ e.node = node1 /\ e.att = d.att /\ e.end = d.end
  BY <1>1 DEF DbType
<1>5. e = [node |-> e.node, edge |-> e.edge, att |-> e.att, end |-> e.end]
  BY <1>1 DEF DbType
<1>6. e \in DbType
  BY <1>2, <1>3, <1>4, <1>5 DEF DbType
<1>7. \A o \in Nodes : o \in gone <=> /\ o \in drop /\ IsVirtual(d, o)
                                        /\ \A a \in Nodes : ~e.edge[o][a].present
  BY <1>4 DEF gone
<1>8. \A o \in drop : e.edge[n][o] = FreeEdge /\ e.edge[o][n] = FreeEdge
  BY <1>4 DEF edge1
<1>9. ASSUME NEW o \in O \ drop, n \notin drop
      PROVE  e.edge[n][o].present = d.edge[n][o].present /\ e.edge[n][o].virtual
  <2>1. d.edge[n][o] \in EdgeType
    BY DbFields
  <2>2. e.edge[n][o] = [d.edge[n][o] EXCEPT !.virtual = TRUE]
    BY <1>4, <1>9 DEF edge1
  <2>3. QED
    BY <2>1, <2>2 DEF EdgeType
<1>10. \A a, b \in Nodes : (a /= n \/ b \notin O) /\ (b /= n \/ a \notin drop) =>
          e.edge[a][b] = d.edge[a][b]
  BY <1>4 DEF edge1
<1>11. \A o \in Nodes : e.node[o] = IF o \in gone THEN FreeNode ELSE d.node[o]
  BY <1>4
<1>12. QED
  BY <1>4, <1>6, <1>7, <1>8, <1>9, <1>10, <1>11

(* olsrv2_tc_node_add, and the ANSN of a TC that is processed              *)
LEMMA NodeAddValue ==
    ASSUME NEW d \in DbType, NEW n \in Nodes, NEW vtime \in Nat \ {0}, NEW ansn \in Ansns,
           NEW e, e = NodeAdd(d, n, vtime, ansn)
    PROVE  /\ e \in DbType /\ e.edge = d.edge /\ e.att = d.att /\ e.end = d.end
           /\ \A a \in Nodes \ {n} : e.node[a] = d.node[a]
           /\ e.node[n].present /\ e.node[n].validity = vtime /\ Active(vtime)
           /\ e.node[n].ansn = IF d.node[n].present /\ ~IsVirtual(d, n) THEN d.node[n].ansn ELSE ansn
<1> DEFINE entry == [present |-> TRUE,
                     ansn |-> IF d.node[n].present /\ ~IsVirtual(d, n) THEN d.node[n].ansn ELSE ansn,
                     validity |-> vtime]
<1>1. TimerSet(vtime) = vtime /\ Active(vtime) /\ vtime \in Int
  BY DEF TimerSet, Active
<1>2. entry \in NodeType
  BY <1>1, DbFields DEF NodeType
<1>3. /\ e.node = [d.node EXCEPT ![n] = entry]
      /\ e.edge = d.edge /\ e.att = d.att /\ e.end = d.end
  BY <1>1 DEF NodeAdd, DbType
<1>4. e = [node |-> e.node, edge |-> e.edge, att |-> e.att, end |-> e.end]
  BY DEF NodeAdd, DbType
<1> HIDE DEF entry
<1>5. /\ e.node \in [Nodes -> NodeType] /\ e.node[n] = entry
      /\ \A a \in Nodes \ {n} : e.node[a] = d.node[a]
  BY <1>2, <1>3 DEF DbType
<1>6. e \in DbType
  BY <1>3, <1>4, <1>5 DEF DbType
<1>7. QED
  BY <1>1, <1>3, <1>5, <1>6 DEF entry

(* The ANSN of a node that _cb_messagetlvs replaces.                       *)
SetAnsn(d, n, ansn) == [d EXCEPT !.node[n].ansn = ansn]

(* The new ANSN changes nothing else.                                      *)
LEMMA NodeAnsnValue ==
    ASSUME NEW d \in DbType, NEW n \in Nodes, NEW ansn \in Ansns,
           NEW e, e = SetAnsn(d, n, ansn)
    PROVE  /\ e \in DbType /\ e.edge = d.edge /\ e.att = d.att /\ e.end = d.end
           /\ \A a \in Nodes \ {n} : e.node[a] = d.node[a]
           /\ e.node[n].present = d.node[n].present /\ e.node[n].validity = d.node[n].validity
           /\ e.node[n].ansn = ansn
<1>1. /\ e.node = [d.node EXCEPT ![n] = [d.node[n] EXCEPT !.ansn = ansn]]
      /\ e.edge = d.edge /\ e.att = d.att /\ e.end = d.end
  BY DEF SetAnsn, DbType
<1>2. e = [node |-> e.node, edge |-> e.edge, att |-> e.att, end |-> e.end]
  BY DEF SetAnsn, DbType
<1>3. /\ [d.node[n] EXCEPT !.ansn = ansn] \in NodeType
      /\ [d.node[n] EXCEPT !.ansn = ansn].present = d.node[n].present
      /\ [d.node[n] EXCEPT !.ansn = ansn].validity = d.node[n].validity
      /\ [d.node[n] EXCEPT !.ansn = ansn].ansn = ansn
  BY DEF DbType, NodeType
<1>4. /\ e.node \in [Nodes -> NodeType] /\ e.node[n] = [d.node[n] EXCEPT !.ansn = ansn]
      /\ \A a \in Nodes \ {n} : e.node[a] = d.node[a]
  BY <1>1, <1>3 DEF DbType
<1>5. QED
  BY <1>1, <1>2, <1>3, <1>4 DEF DbType

(* olsrv2_tc_edge_add                                                      *)
LEMMA EdgesAddValue ==
    ASSUME NEW d \in DbType, NEW n \in Nodes, NEW O \in SUBSET (Nodes \ {n}),
           NEW e, e = EdgesAdd(d, n, O)
    PROVE  /\ e \in DbType /\ e.att = d.att /\ e.end = d.end
           /\ \A o \in Nodes :
                IF o \in O /\ ~d.node[o].present
                THEN e.node[o].present /\ e.node[o].validity = Off
                ELSE e.node[o] = d.node[o]
           /\ \A o \in O :
                /\ e.edge[n][o].present /\ ~e.edge[n][o].virtual
                /\ e.edge[o][n].present
                /\ d.edge[o][n].present => e.edge[o][n] = d.edge[o][n]
                /\ ~d.edge[o][n].present => e.edge[o][n].virtual
           /\ \A a, b \in Nodes : ~(a = n /\ b \in O) /\ ~(b = n /\ a \in O) =>
                e.edge[a][b] = d.edge[a][b]
<1> DEFINE real(a, b) == [d.edge[a][b] EXCEPT !.present = TRUE, !.virtual = FALSE,
                                              !.cost = Infinite]
           inverse == [FreeEdge EXCEPT !.present = TRUE, !.virtual = TRUE]
           source == [FreeNode EXCEPT !.present = TRUE]
<1>1. /\ e.att = d.att /\ e.end = d.end
      /\ e.node = [o \in Nodes |-> IF o \in O /\ ~d.node[o].present THEN source ELSE d.node[o]]
  BY DEF EdgesAdd, DbType
<1>2. e.edge = [a \in Nodes |-> [b \in Nodes |->
                   IF a = n /\ b \in O THEN real(a, b)
                   ELSE IF b = n /\ a \in O /\ ~d.edge[a][b].present THEN inverse
                   ELSE d.edge[a][b]]]
  BY DEF EdgesAdd, DbType
<1>3. e = [node |-> e.node, edge |-> e.edge, att |-> e.att, end |-> e.end]
  BY DEF EdgesAdd, DbType
<1>4. source \in NodeType /\ source.present /\ source.validity = Off
  BY FreeTypes DEF NodeType
<1>5. inverse \in EdgeType /\ inverse.present /\ inverse.virtual
  BY FreeTypes DEF EdgeType
<1>6. ASSUME NEW a \in Nodes, NEW b \in Nodes
      PROVE  real(a, b) \in EdgeType /\ real(a, b).present /\ ~real(a, b).virtual
  <2>1. d.edge[a][b] \in EdgeType
    BY DbFields
  <2>2. QED
    BY <2>1, FreeTypes DEF EdgeType
<1> HIDE DEF source, inverse, real
<1>7. e.node \in [Nodes -> NodeType]
  BY <1>1, <1>4, DbFields
<1>8. e.edge \in [Nodes -> [Nodes -> EdgeType]]
  BY <1>2, <1>5, <1>6, DbFields
<1>9. e \in DbType
  BY <1>1, <1>3, <1>7, <1>8 DEF DbType
<1>10. ASSUME NEW o \in O
       PROVE  /\ e.edge[n][o].present /\ ~e.edge[n][o].virtual
              /\ e.edge[o][n].present
              /\ d.edge[o][n].present => e.edge[o][n] = d.edge[o][n]
              /\ ~d.edge[o][n].present => e.edge[o][n].virtual
  <2>1. e.edge[n][o] = real(n, o)
    BY <1>2
  <2>2. e.edge[o][n] = IF ~d.edge[o][n].present THEN inverse ELSE d.edge[o][n]
    BY <1>2
  <2>3. QED
    BY <1>5, <1>6, <2>1, <2>2
<1>11. \A o \in Nodes : IF o \in O /\ ~d.node[o].present
                         THEN e.node[o].present /\ e.node[o].validity = Off
                         ELSE e.node[o] = d.node[o]
  BY <1>1, <1>4
<1>12. \A a, b \in Nodes : ~(a = n /\ b \in O) /\ ~(b = n /\ a \in O) =>
          e.edge[a][b] = d.edge[a][b]
  BY <1>2
<1>13. QED
  BY <1>1, <1>9, <1>10, <1>11, <1>12

(* _cb_addresstlvs of the originators                                      *)
LEMMA AddressesAddValue ==
    ASSUME NEW d \in DbType, NEW n \in Nodes, NEW es, es \in [DOMAIN es -> EdgeData],
           DOMAIN es \subseteq Nodes \ {n}, NEW e, e = AddressesAdd(d, n, es)
    PROVE  /\ e \in DbType /\ e.att = d.att /\ e.end = d.end
           /\ \A o \in Nodes :
                IF o \in DOMAIN es /\ ~d.node[o].present
                THEN e.node[o].present /\ e.node[o].validity = Off
                ELSE e.node[o] = d.node[o]
           /\ \A o \in DOMAIN es :
                /\ e.edge[n][o].present /\ ~e.edge[n][o].virtual
                /\ e.edge[n][o].ansn = d.node[n].ansn /\ e.edge[n][o].cost = es[o].out
                /\ e.edge[o][n].present
                /\ IF d.edge[o][n].present /\ ~d.edge[o][n].virtual
                   THEN e.edge[o][n] = d.edge[o][n]
                   ELSE e.edge[o][n].virtual
           /\ \A a, b \in Nodes : ~(a = n /\ b \in DOMAIN es) /\ ~(b = n /\ a \in DOMAIN es) =>
                e.edge[a][b] = d.edge[a][b]
<1> DEFINE O == DOMAIN es
           f == EdgesAdd(d, n, O)
           own(a, b) == [f.edge[a][b] EXCEPT !.ansn = d.node[n].ansn, !.cost = es[b].out]
           incoming(a, b) == [f.edge[a][b] EXCEPT !.cost = es[a].in]
<1>1. /\ f \in DbType /\ f.att = d.att /\ f.end = d.end
      /\ \A o \in Nodes :
           IF o \in O /\ ~d.node[o].present
           THEN f.node[o].present /\ f.node[o].validity = Off
           ELSE f.node[o] = d.node[o]
      /\ \A o \in O :
           /\ f.edge[n][o].present /\ ~f.edge[n][o].virtual
           /\ f.edge[o][n].present
           /\ d.edge[o][n].present => f.edge[o][n] = d.edge[o][n]
           /\ ~d.edge[o][n].present => f.edge[o][n].virtual
      /\ \A a, b \in Nodes : ~(a = n /\ b \in O) /\ ~(b = n /\ a \in O) =>
           f.edge[a][b] = d.edge[a][b]
  BY EdgesAddValue
<1>2. e = [f EXCEPT !.edge = [a \in Nodes |-> [b \in Nodes |->
              IF a = n /\ b \in O THEN [@[a][b] EXCEPT !.ansn = d.node[n].ansn, !.cost = es[b].out]
              ELSE IF b = n /\ a \in O /\ @[a][b].virtual /\ es[a].in < Infinite
              THEN [@[a][b] EXCEPT !.cost = es[a].in]
              ELSE @[a][b]]]]
  BY DEF AddressesAdd
<1> HIDE DEF f
<1>3. /\ e.node = f.node /\ e.att = f.att /\ e.end = f.end
      /\ e.edge = [a \in Nodes |-> [b \in Nodes |->
                     IF a = n /\ b \in O THEN own(a, b)
                     ELSE IF b = n /\ a \in O /\ f.edge[a][b].virtual /\ es[a].in < Infinite
                     THEN incoming(a, b)
                     ELSE f.edge[a][b]]]
  BY <1>1, <1>2 DEF DbType
<1>4. e = [node |-> e.node, edge |-> e.edge, att |-> e.att, end |-> e.end]
  BY <1>1, <1>2 DEF DbType
<1>5. ASSUME NEW o \in O
      PROVE  /\ own(n, o) \in EdgeType /\ own(n, o).present /\ ~own(n, o).virtual
             /\ own(n, o).ansn = d.node[n].ansn /\ own(n, o).cost = es[o].out
             /\ incoming(o, n) \in EdgeType /\ incoming(o, n).present
             /\ incoming(o, n).virtual = f.edge[o][n].virtual
  <2>1. f.edge[n][o] \in EdgeType /\ f.edge[o][n] \in EdgeType /\ d.node[n].ansn \in Ansns
    BY <1>1, DbFields
  <2>2. es[o].out \in Metric /\ es[o].in \in Metric
    BY DEF EdgeData
  <2>3. own(n, o) \in EdgeType /\ incoming(o, n) \in EdgeType
    BY <2>1, <2>2 DEF EdgeType
  <2>4. QED
    BY <1>1, <2>1, <2>3 DEF EdgeType
<1> HIDE DEF own, incoming
<1>6. e.edge \in [Nodes -> [Nodes -> EdgeType]]
  <2>1. ASSUME NEW a \in Nodes, NEW b \in Nodes
        PROVE  e.edge[a][b] \in EdgeType
    <3>1. f.edge[a][b] \in EdgeType
      BY <1>1, DbFields
    <3>2. CASE a = n /\ b \in O
      BY <1>3, <1>5, <3>2
    <3>3. CASE b = n /\ a \in O /\ ~(a = n /\ b \in O)
      BY <1>3, <1>5, <3>1, <3>3
    <3>4. CASE ~(a = n /\ b \in O) /\ ~(b = n /\ a \in O)
      BY <1>3, <3>1, <3>4
    <3>5. QED
      BY <3>2, <3>3, <3>4
  <2>2. QED
    BY <1>3, <2>1
<1>7. e \in DbType
  BY <1>1, <1>3, <1>4, <1>6 DEF DbType
<1>8. ASSUME NEW o \in O
      PROVE  /\ e.edge[n][o].present /\ ~e.edge[n][o].virtual
             /\ e.edge[n][o].ansn = d.node[n].ansn /\ e.edge[n][o].cost = es[o].out
             /\ e.edge[o][n].present
             /\ IF d.edge[o][n].present /\ ~d.edge[o][n].virtual
                THEN e.edge[o][n] = d.edge[o][n]
                ELSE e.edge[o][n].virtual
  <2>1. e.edge[n][o] = own(n, o)
    BY <1>3
  <2>2. e.edge[o][n] = IF f.edge[o][n].virtual /\ es[o].in < Infinite
                       THEN incoming(o, n) ELSE f.edge[o][n]
    BY <1>3
  <2>3. QED
    BY <1>1, <1>5, <2>1, <2>2
<1>9. \A a, b \in Nodes : ~(a = n /\ b \in O) /\ ~(b = n /\ a \in O) => e.edge[a][b] = d.edge[a][b]
  BY <1>1, <1>3
<1>10. QED
  BY <1>1, <1>3, <1>7, <1>8, <1>9

(* olsrv2_tc_endpoint_add                                                  *)
LEMMA NetsAddValue ==
    ASSUME NEW d \in DbType, NEW n \in Nodes, NEW nets, nets \in [DOMAIN nets -> NetData],
           DOMAIN nets \subseteq Prefixes, NEW e, e = NetsAdd(d, n, nets)
    PROVE  /\ e \in DbType /\ e.node = d.node /\ e.edge = d.edge
           /\ \A p \in DOMAIN nets : /\ e.att[n][p].present /\ e.att[n][p].ansn = d.node[n].ansn
                                     /\ e.end[p].nodes = d.end[p].nodes \cup {n}
           /\ \A a \in Nodes, p \in Prefixes :
                a /= n \/ p \notin DOMAIN nets => e.att[a][p] = d.att[a][p]
           /\ \A p \in Prefixes \ DOMAIN nets : e.end[p].nodes = d.end[p].nodes
<1> DEFINE P == DOMAIN nets
           new(p) == [present |-> TRUE, ansn |-> d.node[n].ansn,
                      cost |-> IF nets[p].mesh /\ nets[p].cost = Infinite THEN d.att[n][p].cost
                               ELSE nets[p].cost]
           row == [p \in Prefixes |-> IF p \notin P THEN d.att[n][p] ELSE new(p)]
           more(p) == [nodes |-> d.end[p].nodes \cup {n},
                       mesh |-> IF d.end[p].nodes = {} THEN nets[p].mesh ELSE d.end[p].mesh]
<1>1. e.node = d.node /\ e.edge = d.edge
  BY DEF NetsAdd, DbType
<1>2. e.att = [d.att EXCEPT ![n] = row]
  BY DEF NetsAdd, DbType
<1>3. e.end = [p \in Prefixes |-> IF p \notin P THEN d.end[p] ELSE more(p)]
  BY DEF NetsAdd, DbType
<1>4. e = [node |-> e.node, edge |-> e.edge, att |-> e.att, end |-> e.end]
  BY DEF NetsAdd, DbType
<1>5. ASSUME NEW p \in P
      PROVE  /\ new(p) \in AttType /\ new(p).present /\ new(p).ansn = d.node[n].ansn
             /\ more(p) \in EndType /\ more(p).nodes = d.end[p].nodes \cup {n}
  <2>1. /\ d.att[n][p] \in AttType /\ d.end[p] \in EndType
        /\ d.node[n].ansn \in Ansns /\ nets[p] \in NetData
    BY DbFields
  <2>2. QED
    BY <2>1 DEF AttType, EndType, NetData
<1> HIDE DEF new, more
<1>6. row \in [Prefixes -> AttType]
  BY <1>5, DbFields
<1>7. e.att \in [Nodes -> [Prefixes -> AttType]]
  BY <1>2, <1>6 DEF DbType
<1>8. e.end \in [Prefixes -> EndType]
  BY <1>3, <1>5, DbFields
<1>9. e \in DbType
  BY <1>1, <1>4, <1>7, <1>8 DEF DbType
<1>10. /\ \A p \in Prefixes : e.att[n][p] = IF p \notin P THEN d.att[n][p] ELSE new(p)
       /\ \A a \in Nodes \ {n} : e.att[a] = d.att[a]
  BY <1>2 DEF DbType
<1>11. QED
  BY <1>1, <1>3, <1>5, <1>9, <1>10
-----------------------------------------------------------------------------
(* What a TC or a timeout of n does not change: what other nodes have      *)
(* advertised.                                                             *)
OthersKept(d, e, n) ==
    \A x \in Nodes \ {n} :
       /\ RealEdges(e, x) = RealEdges(d, x) /\ NetsOf(e, x) = NetsOf(d, x)
       /\ \A o \in RealEdges(d, x) : e.edge[x][o] = d.edge[x][o]
       /\ \A p \in NetsOf(d, x) : e.att[x][p] = d.att[x][p]
       /\ IF IsVirtual(d, x) THEN IsVirtual(e, x) ELSE e.node[x] = d.node[x]

(* What two operators keep, their composition keeps.                       *)
LEMMA OthersKeptTransitive ==
    ASSUME NEW d, NEW e, NEW f, NEW n, OthersKept(d, e, n), OthersKept(e, f, n)
    PROVE  OthersKept(d, f, n)
BY DEF OthersKept, IsVirtual

(* The edges of a TC make pairs, and virtual nodes where they lead to an   *)
(* unknown one.                                                            *)
LEMMA AddressesAddKeeps ==
    ASSUME NEW d \in DbType, NEW n \in Nodes, NEW es, es \in [DOMAIN es -> EdgeData],
           DOMAIN es \subseteq Nodes \ {n}, NEW e, e = AddressesAdd(d, n, es),
           Paired(d), Attached(d), Timed(d), d.node[n].present
    PROVE  /\ Paired(e) /\ Attached(e) /\ Timed(e) /\ OthersKept(d, e, n)
           /\ e.node[n] = d.node[n]
           /\ ~IsVirtual(d, n) /\ Needed(d) => Needed(e)
           /\ RealEdges(e, n) = RealEdges(d, n) \cup DOMAIN es
<1> DEFINE O == DOMAIN es
<1>1. /\ e \in DbType /\ e.att = d.att /\ e.end = d.end
      /\ \A o \in Nodes :
           IF o \in O /\ ~d.node[o].present
           THEN e.node[o].present /\ e.node[o].validity = Off
           ELSE e.node[o] = d.node[o]
      /\ \A o \in O :
           /\ e.edge[n][o].present /\ ~e.edge[n][o].virtual
           /\ e.edge[n][o].ansn = d.node[n].ansn /\ e.edge[n][o].cost = es[o].out
           /\ e.edge[o][n].present
           /\ IF d.edge[o][n].present /\ ~d.edge[o][n].virtual
              THEN e.edge[o][n] = d.edge[o][n]
              ELSE e.edge[o][n].virtual
      /\ \A a, b \in Nodes : ~(a = n /\ b \in O) /\ ~(b = n /\ a \in O) =>
           e.edge[a][b] = d.edge[a][b]
  BY AddressesAddValue
<1> O \subseteq Nodes \ {n}
  OBVIOUS
<1> HIDE DEF O
<1>2. \A o \in Nodes : /\ d.node[o].present => e.node[o] = d.node[o]
                       /\ o \in O => e.node[o].present
                       /\ Active(e.node[o].validity) <=> Active(d.node[o].validity)
  BY <1>1 DEF Timed, Active, Off
<1>3. Paired(e)
  <2>1. ASSUME NEW a \in Nodes, NEW b \in Nodes, e.edge[a][b].present
        PROVE  /\ a /= b /\ e.edge[b][a].present /\ e.node[a].present
               /\ ~(e.edge[a][b].virtual /\ e.edge[b][a].virtual)
    <3>1. CASE a = n /\ b \in O
      BY <1>1, <1>2, <3>1
    <3>2. CASE b = n /\ a \in O
      BY <1>1, <1>2, <3>2
    <3>3. CASE ~(a = n /\ b \in O) /\ ~(b = n /\ a \in O)
      <4>1. e.edge[a][b] = d.edge[a][b] /\ e.edge[b][a] = d.edge[b][a]
        BY <1>1, <3>3
      <4>2. QED
        BY <1>2, <2>1, <4>1 DEF Paired
    <3>4. QED
      BY <3>1, <3>2, <3>3
  <2>2. QED
    BY <2>1 DEF Paired
<1>4. Timed(e)
  BY <1>1, <1>2 DEF Timed
<1>5. Attached(e)
  BY <1>1 DEF Attached
<1>6. \A x \in Nodes \ {n} : \A o \in Nodes :
        IF d.edge[x][o].present /\ ~d.edge[x][o].virtual THEN e.edge[x][o] = d.edge[x][o]
        ELSE ~(e.edge[x][o].present /\ ~e.edge[x][o].virtual)
  BY <1>1
<1>7. OthersKept(d, e, n)
  <2>1. \A x \in Nodes \ {n} : /\ RealEdges(e, x) = RealEdges(d, x)
                                /\ \A o \in RealEdges(d, x) : e.edge[x][o] = d.edge[x][o]
    BY <1>6 DEF RealEdges, EdgesOf
  <2>2. \A x \in Nodes \ {n} : IF IsVirtual(d, x) THEN IsVirtual(e, x) ELSE e.node[x] = d.node[x]
    BY <1>1, <1>2 DEF IsVirtual, Timed
  <2>3. QED
    BY <1>1, <2>1, <2>2 DEF OthersKept, NetsOf
<1>8. RealEdges(e, n) = RealEdges(d, n) \cup O
  BY <1>1 DEF RealEdges, EdgesOf
<1>9. ASSUME ~IsVirtual(d, n), Needed(d), NEW x \in Nodes, IsVirtual(e, x)
      PROVE  /\ RealEdges(e, x) = {} /\ NetsOf(e, x) = {}
             /\ e.node[x].present <=> EdgesOf(e, x) # {}
  <2>1. x /= n /\ IsVirtual(d, x)
    BY <1>2, <1>9 DEF IsVirtual
  <2>2. RealEdges(e, x) = {} /\ NetsOf(e, x) = {}
    BY <1>7, <1>9, <2>1 DEF OthersKept, Needed
  <2>3. CASE x \in O
    <3>1. n \in EdgesOf(e, x) /\ e.node[x].present
      BY <1>1, <1>2, <2>3 DEF EdgesOf
    <3>2. QED
      BY <2>2, <3>1
  <2>4. CASE x \notin O
    <3>1. e.node[x] = d.node[x] /\ EdgesOf(e, x) = EdgesOf(d, x)
      BY <1>1, <2>1, <2>4 DEF EdgesOf
    <3>2. QED
      BY <1>9, <2>1, <2>2, <3>1 DEF Needed
  <2>5. QED
    BY <2>3, <2>4
<1>10. QED
  BY <1>1, <1>2, <1>3, <1>4, <1>5, <1>7, <1>8, <1>9 DEF Needed, O

(* Attached networks get an endpoint, or join one.                         *)
LEMMA NetsAddKeeps ==
    ASSUME NEW d \in DbType, NEW n \in Nodes, NEW nets, nets \in [DOMAIN nets -> NetData],
           DOMAIN nets \subseteq Prefixes, NEW e, e = NetsAdd(d, n, nets),
           Paired(d), Attached(d), Timed(d)
    PROVE  /\ Paired(e) /\ Attached(e) /\ Timed(e) /\ OthersKept(d, e, n)
           /\ ~IsVirtual(d, n) /\ Needed(d) => Needed(e)
           /\ NetsOf(e, n) = NetsOf(d, n) \cup DOMAIN nets
<1>1. /\ e \in DbType /\ e.node = d.node /\ e.edge = d.edge
      /\ \A p \in DOMAIN nets : /\ e.att[n][p].present /\ e.att[n][p].ansn = d.node[n].ansn
                                /\ e.end[p].nodes = d.end[p].nodes \cup {n}
      /\ \A a \in Nodes, p \in Prefixes :
           a /= n \/ p \notin DOMAIN nets => e.att[a][p] = d.att[a][p]
      /\ \A p \in Prefixes \ DOMAIN nets : e.end[p].nodes = d.end[p].nodes
  BY NetsAddValue
<1>2. Paired(e) /\ Timed(e)
  BY <1>1 DEF Paired, Timed
<1>3. Attached(e)
  <2>1. ASSUME NEW p \in Prefixes
        PROVE  e.end[p].nodes = {a \in Nodes : e.att[a][p].present}
    <3>1. d.end[p].nodes = {a \in Nodes : d.att[a][p].present}
      BY DEF Attached
    <3>2. CASE p \in DOMAIN nets
      BY <1>1, <3>1, <3>2
    <3>3. CASE p \notin DOMAIN nets
      BY <1>1, <3>1, <3>3
    <3>4. QED
      BY <3>2, <3>3
  <2>2. QED
    BY <2>1 DEF Attached
<1>4. /\ \A x \in Nodes \ {n} : NetsOf(e, x) = NetsOf(d, x)
      /\ NetsOf(e, n) = NetsOf(d, n) \cup DOMAIN nets
      /\ \A x \in Nodes : /\ RealEdges(e, x) = RealEdges(d, x) /\ EdgesOf(e, x) = EdgesOf(d, x)
                          /\ IsVirtual(e, x) <=> IsVirtual(d, x)
  BY <1>1 DEF NetsOf, RealEdges, EdgesOf, IsVirtual
<1>5. OthersKept(d, e, n)
  BY <1>1, <1>4 DEF OthersKept, NetsOf
<1>6. ~IsVirtual(d, n) /\ Needed(d) => Needed(e)
  BY <1>1, <1>4 DEF Needed
<1>7. QED
  BY <1>2, <1>3, <1>4, <1>5, <1>6

(* An endpoint goes with its last attached network.                        *)
LEMMA EndpointsRemoveKeeps ==
    ASSUME NEW d \in DbType, NEW n \in Nodes, NEW P \in SUBSET Prefixes,
           NEW e, e = EndpointsRemove(d, n, P),
           Paired(d), Attached(d), Timed(d)
    PROVE  /\ Paired(e) /\ Attached(e) /\ Timed(e) /\ OthersKept(d, e, n)
           /\ ~IsVirtual(d, n) /\ Needed(d) => Needed(e)
           /\ NetsOf(e, n) = NetsOf(d, n) \ P
           /\ \A p \in NetsOf(e, n) : e.att[n][p] = d.att[n][p]
<1>1. /\ e \in DbType /\ e.node = d.node /\ e.edge = d.edge
      /\ \A p \in P : e.att[n][p] = FreeAtt /\ e.end[p].nodes = d.end[p].nodes \ {n}
      /\ \A a \in Nodes, p \in Prefixes : a /= n \/ p \notin P => e.att[a][p] = d.att[a][p]
      /\ \A p \in Prefixes \ P : e.end[p].nodes = d.end[p].nodes
  BY EndpointsRemoveValue
<1>2. Paired(e) /\ Timed(e)
  BY <1>1 DEF Paired, Timed
<1>3. Attached(e)
  <2>1. ASSUME NEW p \in Prefixes
        PROVE  e.end[p].nodes = {a \in Nodes : e.att[a][p].present}
    <3>1. d.end[p].nodes = {a \in Nodes : d.att[a][p].present}
      BY DEF Attached
    <3>2. CASE p \in P
      BY <1>1, <3>1, <3>2, FreeTypes
    <3>3. CASE p \notin P
      BY <1>1, <3>1, <3>3
    <3>4. QED
      BY <3>2, <3>3
  <2>2. QED
    BY <2>1 DEF Attached
<1>4. /\ \A x \in Nodes \ {n} : NetsOf(e, x) = NetsOf(d, x)
      /\ NetsOf(e, n) = NetsOf(d, n) \ P
      /\ \A p \in NetsOf(e, n) : e.att[n][p] = d.att[n][p]
      /\ \A x \in Nodes : /\ RealEdges(e, x) = RealEdges(d, x) /\ EdgesOf(e, x) = EdgesOf(d, x)
                          /\ IsVirtual(e, x) <=> IsVirtual(d, x)
  BY <1>1, FreeTypes DEF NetsOf, RealEdges, EdgesOf, IsVirtual
<1>5. OthersKept(d, e, n)
  BY <1>1, <1>4 DEF OthersKept, NetsOf
<1>6. ~IsVirtual(d, n) /\ Needed(d) => Needed(e)
  BY <1>1, <1>4 DEF Needed
<1>7. QED
  BY <1>2, <1>3, <1>4, <1>5, <1>6

(* A removed edge takes its virtual inverse along, and a virtual node that *)
(* nobody advertises any more.                                             *)
LEMMA EdgesRemoveKeeps ==
    ASSUME NEW d \in DbType, NEW n \in Nodes, NEW O \in SUBSET RealEdges(d, n),
           NEW e, e = EdgesRemove(d, n, O),
           Paired(d), Attached(d), Timed(d)
    PROVE  /\ Paired(e) /\ Attached(e) /\ Timed(e) /\ OthersKept(d, e, n)
           /\ ~IsVirtual(d, n) /\ Needed(d) => Needed(e)
           /\ ~IsVirtual(d, n) => e.node[n] = d.node[n]
           /\ RealEdges(e, n) = RealEdges(d, n) \ O
           /\ \A o \in RealEdges(e, n) : e.edge[n][o] = d.edge[n][o]
           /\ e.att = d.att
<1> DEFINE drop == {o \in O : d.edge[o][n].virtual}
<1>0. O \in SUBSET (Nodes \ {n}) /\ \A o \in O : d.edge[n][o].present /\ ~d.edge[n][o].virtual
  BY DEF RealEdges, EdgesOf, Paired
<1>1. n \notin drop
  BY <1>0
<1>3. O \in SUBSET Nodes /\ drop = {o \in O : d.edge[o][n].virtual}
  BY <1>0
<1>5. drop \subseteq O /\ \A o \in drop : d.edge[o][n].virtual
  OBVIOUS
<1> HIDE DEF drop
<1>2. /\ e \in DbType /\ e.att = d.att /\ e.end = d.end
      /\ \A o \in drop : e.edge[n][o] = FreeEdge /\ e.edge[o][n] = FreeEdge
      /\ \A o \in O \ drop : /\ e.edge[n][o].present = d.edge[n][o].present
                             /\ e.edge[n][o].virtual
      /\ \A a, b \in Nodes : (a /= n \/ b \notin O) /\ (b /= n \/ a \notin drop) =>
           e.edge[a][b] = d.edge[a][b]
      /\ \A o \in Nodes :
           \/ e.node[o] = d.node[o]
           \/ o \in drop /\ IsVirtual(d, o) /\ e.node[o] = FreeNode
      /\ \A o \in drop : IsVirtual(d, o) /\ (\A a \in Nodes : ~e.edge[o][a].present)
                        => e.node[o] = FreeNode
      /\ \A o \in Nodes : e.node[o] /= d.node[o] => \A a \in Nodes : ~e.edge[o][a].present
  BY <1>1, <1>3, EdgesRemoveValue
<1>4. /\ \A o \in drop : ~e.edge[n][o].present /\ ~e.edge[o][n].present
      /\ \A o \in O \ drop : ~d.edge[o][n].virtual
  BY <1>2, <1>3, FreeTypes
<1>6. \A o \in Nodes : \/ e.node[o] = d.node[o]
                       \/ /\ o \in drop /\ IsVirtual(d, o) /\ e.node[o] = FreeNode
                          /\ \A a \in Nodes : ~e.edge[o][a].present
  BY <1>2
<1>7. ~IsVirtual(d, n) => e.node[n] = d.node[n]
  BY <1>6
<1>8. \A x \in Nodes : IF IsVirtual(d, x) THEN IsVirtual(e, x) ELSE e.node[x] = d.node[x]
  BY <1>6, FreeTypes DEF IsVirtual, Active, Off
<1>9. Timed(e) /\ Attached(e)
  BY <1>2, <1>6, FreeTypes DEF Timed, Attached, Active, Off
<1>10. RealEdges(e, n) = RealEdges(d, n) \ O
  <2>1. ASSUME NEW o \in Nodes
        PROVE  o \in RealEdges(e, n) <=> o \in RealEdges(d, n) /\ o \notin O
    <3>1. CASE o \in O
      BY <1>1, <1>2, <1>4, <3>1 DEF RealEdges, EdgesOf
    <3>2. CASE o \notin O
      BY <1>1, <1>2, <3>2 DEF RealEdges, EdgesOf
    <3>3. QED
      BY <3>1, <3>2
  <2>2. QED
    BY <2>1 DEF RealEdges, EdgesOf
<1>11. \A o \in RealEdges(e, n) : e.edge[n][o] = d.edge[n][o]
  BY <1>1, <1>2, <1>10 DEF RealEdges, EdgesOf
<1>12. OthersKept(d, e, n)
  <2>1. ASSUME NEW x \in Nodes \ {n}, NEW o \in Nodes
        PROVE  /\ o \in RealEdges(e, x) <=> o \in RealEdges(d, x)
               /\ o \in RealEdges(d, x) => e.edge[x][o] = d.edge[x][o]
    <3>1. CASE o = n /\ x \in drop
      BY <1>4, <1>5, <3>1 DEF RealEdges, EdgesOf
    <3>2. CASE ~(o = n /\ x \in drop)
      <4>1. e.edge[x][o] = d.edge[x][o]
        BY <1>2, <3>2
      <4>2. QED
        BY <4>1 DEF RealEdges, EdgesOf
    <3>3. QED
      BY <3>1, <3>2
  <2>2. \A x \in Nodes \ {n} : RealEdges(e, x) = RealEdges(d, x) /\ NetsOf(e, x) = NetsOf(d, x)
    BY <1>2, <2>1 DEF RealEdges, EdgesOf, NetsOf
  <2>3. QED
    BY <1>2, <1>8, <2>1, <2>2 DEF OthersKept, NetsOf, RealEdges, EdgesOf
<1>13. Paired(e)
  <2>1. ASSUME NEW a \in Nodes, NEW b \in Nodes, e.edge[a][b].present
        PROVE  /\ a /= b /\ e.edge[b][a].present /\ e.node[a].present
               /\ ~(e.edge[a][b].virtual /\ e.edge[b][a].virtual)
    <3>1. ~(a = n /\ b \in drop) /\ ~(b = n /\ a \in drop)
      BY <1>4, <2>1
    <3>2. d.edge[a][b].present
      BY <1>0, <1>2, <2>1, <3>1
    <3>3. a /= b /\ d.edge[b][a].present /\ d.node[a].present /\ ~(d.edge[a][b].virtual /\ d.edge[b][a].virtual)
      BY <3>2 DEF Paired
    <3>4. e.node[a].present
      BY <1>6, <2>1, <3>3
    <3>5. CASE a = n /\ b \in O
      BY <1>0, <1>1, <1>2, <1>4, <3>1, <3>3, <3>4, <3>5
    <3>6. CASE b = n /\ a \in O
      BY <1>0, <1>1, <1>2, <1>4, <3>1, <3>3, <3>4, <3>6
    <3>7. CASE ~(a = n /\ b \in O) /\ ~(b = n /\ a \in O)
      <4>1. e.edge[a][b] = d.edge[a][b] /\ e.edge[b][a] = d.edge[b][a]
        BY <1>2, <1>5, <3>7
      <4>2. QED
        BY <3>3, <3>4, <4>1
    <3>8. QED
      BY <3>4, <3>5, <3>6, <3>7
  <2>2. QED
    BY <2>1 DEF Paired
<1>14. ASSUME ~IsVirtual(d, n), Needed(d), NEW x \in Nodes, IsVirtual(e, x)
       PROVE  /\ RealEdges(e, x) = {} /\ NetsOf(e, x) = {}
              /\ e.node[x].present <=> EdgesOf(e, x) # {}
  <2>1. x /= n /\ IsVirtual(d, x)
    BY <1>6, <1>8, <1>14 DEF IsVirtual
  <2>2. RealEdges(e, x) = {} /\ NetsOf(e, x) = {} /\ (d.node[x].present <=> EdgesOf(d, x) # {})
    BY <1>12, <1>14, <2>1 DEF OthersKept, Needed
  <2>3. CASE x \in drop
    <3>1. IF \A a \in Nodes : ~e.edge[x][a].present THEN e.node[x] = FreeNode
          ELSE e.node[x] = d.node[x]
      BY <1>2, <2>1, <2>3
    <3>2. d.node[x].present
      BY <1>0, <1>5, <2>3 DEF Paired
    <3>3. QED
      BY <2>2, <3>1, <3>2, FreeTypes DEF EdgesOf
  <2>4. CASE x \notin drop
    <3>1. e.node[x] = d.node[x] /\ EdgesOf(e, x) = EdgesOf(d, x)
      BY <1>2, <1>6, <2>1, <2>4 DEF EdgesOf
    <3>2. QED
      BY <2>2, <3>1
  <2>5. QED
    BY <2>3, <2>4
<1>15. QED
  BY <1>2, <1>7, <1>9, <1>10, <1>11, <1>12, <1>13, <1>14 DEF Needed
-----------------------------------------------------------------------------
(* A TC that is processed to its end: n keeps what it said under its       *)
(* present ANSN, and has what the TC says.                                 *)
LEMMA ContentKeeps ==
    ASSUME NEW d \in DbType, NEW n \in Nodes, NEW m, GoodContent(n, m),
           Paired(d), Attached(d), Timed(d), d.node[n].present,
           NEW c, c = Content(d, n, m)
    PROVE  /\ c \in DbType /\ Paired(c) /\ Attached(c) /\ Timed(c)
           /\ OthersKept(d, c, n)
           /\ ~IsVirtual(d, n) => c.node[n] = d.node[n] /\ (Needed(d) => Needed(c))
           /\ RealEdges(c, n) = {o \in RealEdges(d, n) : d.edge[n][o].ansn = d.node[n].ansn}
                                \cup DOMAIN m.edges
           /\ \A o \in RealEdges(c, n) :
                /\ c.edge[n][o].ansn = d.node[n].ansn
                /\ o \in DOMAIN m.edges => c.edge[n][o].cost = m.edges[o].out
                /\ o \notin DOMAIN m.edges => c.edge[n][o].cost = d.edge[n][o].cost
           /\ NetsOf(c, n) = {p \in NetsOf(d, n) : d.att[n][p].ansn = d.node[n].ansn}
                             \cup DOMAIN m.nets
           /\ \A p \in NetsOf(c, n) : c.att[n][p].ansn = d.node[n].ansn
<1> DEFINE O == DOMAIN m.edges
           P == DOMAIN m.nets
           ansn == d.node[n].ansn
           e1 == AddressesAdd(d, n, m.edges)
           e2 == NetsAdd(e1, n, m.nets)
           stale == {o \in RealEdges(e2, n) : e2.edge[n][o].ansn # e2.node[n].ansn}
           nets == {p \in NetsOf(e2, n) : e2.att[n][p].ansn # e2.node[n].ansn}
           e3 == EdgesRemove(e2, n, stale)
<1>1. /\ O \subseteq Nodes \ {n} /\ m.edges \in [O -> EdgeData]
      /\ P \subseteq Prefixes /\ m.nets \in [P -> NetData]
  BY DEF GoodContent
<1>2. c = EndpointsRemove(e3, n, nets)
  BY DEF Content, MessageEnd
<1>3. /\ e1 \in DbType /\ e1.att = d.att /\ e1.node[n] = d.node[n]
      /\ \A o \in O : e1.edge[n][o].ansn = ansn /\ e1.edge[n][o].cost = m.edges[o].out
      /\ \A o \in Nodes \ O : e1.edge[n][o] = d.edge[n][o]
  <2>1. /\ e1 \in DbType /\ e1.att = d.att
        /\ \A o \in O : e1.edge[n][o].ansn = d.node[n].ansn /\ e1.edge[n][o].cost = m.edges[o].out
        /\ \A a, b \in Nodes : ~(a = n /\ b \in O) /\ ~(b = n /\ a \in O) => e1.edge[a][b] = d.edge[a][b]
    BY <1>1, AddressesAddValue
  <2>2. e1.node[n] = d.node[n]
    BY <1>1, AddressesAddKeeps
  <2> HIDE DEF e1
  <2>3. QED
    BY <1>1, <2>1, <2>2
<1>4. /\ Paired(e1) /\ Attached(e1) /\ Timed(e1) /\ OthersKept(d, e1, n)
      /\ ~IsVirtual(d, n) /\ Needed(d) => Needed(e1)
      /\ RealEdges(e1, n) = RealEdges(d, n) \cup O
  BY <1>1, AddressesAddKeeps
<1> HIDE DEF e1
<1>5. /\ e2 \in DbType /\ e2.node = e1.node /\ e2.edge = e1.edge
      /\ \A p \in P : e2.att[n][p].ansn = e1.node[n].ansn
      /\ \A p \in Prefixes \ P : e2.att[n][p] = e1.att[n][p]
  BY <1>1, <1>3, NetsAddValue
<1>6. /\ Paired(e2) /\ Attached(e2) /\ Timed(e2) /\ OthersKept(e1, e2, n)
      /\ ~IsVirtual(e1, n) /\ Needed(e1) => Needed(e2)
      /\ NetsOf(e2, n) = NetsOf(e1, n) \cup P
  BY <1>1, <1>3, <1>4, NetsAddKeeps
<1> HIDE DEF e2
<1>7. stale \in SUBSET RealEdges(e2, n) /\ stale \in SUBSET Nodes /\ nets \in SUBSET Prefixes
  BY DEF RealEdges, EdgesOf, NetsOf
<1>8. /\ \A o \in stale : e2.edge[n][o].ansn # e2.node[n].ansn
      /\ \A o \in RealEdges(e2, n) \ stale : e2.edge[n][o].ansn = e2.node[n].ansn
      /\ \A p \in nets : e2.att[n][p].ansn # e2.node[n].ansn
      /\ \A p \in NetsOf(e2, n) \ nets : e2.att[n][p].ansn = e2.node[n].ansn
  OBVIOUS
<1> HIDE DEF stale, nets
<1>9. /\ Paired(e3) /\ Attached(e3) /\ Timed(e3) /\ OthersKept(e2, e3, n)
      /\ ~IsVirtual(e2, n) /\ Needed(e2) => Needed(e3)
      /\ ~IsVirtual(e2, n) => e3.node[n] = e2.node[n]
      /\ RealEdges(e3, n) = RealEdges(e2, n) \ stale
      /\ \A o \in RealEdges(e3, n) : e3.edge[n][o] = e2.edge[n][o]
      /\ e3.att = e2.att
  BY <1>5, <1>6, <1>7, EdgesRemoveKeeps
<1>10. e3 \in DbType
  <2> DEFINE drop == {o \in stale : e2.edge[o][n].virtual}
  <2>1. n \notin drop
    BY <1>6, <1>7 DEF Paired, RealEdges, EdgesOf
  <2>2. drop = {o \in stale : e2.edge[o][n].virtual}
    OBVIOUS
  <2> HIDE DEF drop
  <2>3. QED
    BY <1>5, <1>7, <2>1, <2>2, EdgesRemoveValue
<1> HIDE DEF e3
<1>11. /\ c \in DbType /\ c.node = e3.node /\ c.edge = e3.edge
  BY <1>2, <1>7, <1>10, EndpointsRemoveValue
<1>12. /\ Paired(c) /\ Attached(c) /\ Timed(c) /\ OthersKept(e3, c, n)
       /\ ~IsVirtual(e3, n) /\ Needed(e3) => Needed(c)
       /\ NetsOf(c, n) = NetsOf(e3, n) \ nets
       /\ \A p \in NetsOf(c, n) : c.att[n][p] = e3.att[n][p]
  BY <1>2, <1>7, <1>9, <1>10, EndpointsRemoveKeeps
<1>13. OthersKept(d, c, n)
  BY <1>4, <1>6, <1>9, <1>12, OthersKeptTransitive
<1>14. ~IsVirtual(d, n) => c.node[n] = d.node[n] /\ (Needed(d) => Needed(c))
  BY <1>3, <1>4, <1>5, <1>6, <1>9, <1>11, <1>12 DEF IsVirtual
<1>15. RealEdges(e2, n) = RealEdges(d, n) \cup O /\ NetsOf(e2, n) = NetsOf(d, n) \cup P
  BY <1>3, <1>4, <1>5, <1>6 DEF RealEdges, EdgesOf, NetsOf
<1>16. RealEdges(c, n) = RealEdges(e2, n) \ stale /\ NetsOf(c, n) = NetsOf(e2, n) \ nets
  BY <1>9, <1>11, <1>12 DEF RealEdges, EdgesOf, NetsOf
<1>17. RealEdges(c, n) = {o \in RealEdges(d, n) : d.edge[n][o].ansn = ansn} \cup O
  BY <1>3, <1>5, <1>8, <1>15, <1>16 DEF RealEdges, EdgesOf
<1>18. NetsOf(c, n) = {p \in NetsOf(d, n) : d.att[n][p].ansn = ansn} \cup P
  BY <1>3, <1>5, <1>8, <1>15, <1>16 DEF NetsOf
<1>19. ASSUME NEW o \in RealEdges(c, n)
       PROVE  /\ c.edge[n][o].ansn = d.node[n].ansn
              /\ o \in DOMAIN m.edges => c.edge[n][o].cost = m.edges[o].out
              /\ o \notin DOMAIN m.edges => c.edge[n][o].cost = d.edge[n][o].cost
  <2>1. o \in Nodes /\ c.edge[n][o] = e1.edge[n][o] /\ o \in RealEdges(e2, n) \ stale
    BY <1>5, <1>9, <1>11, <1>16 DEF RealEdges, EdgesOf
  <2>2. c.edge[n][o].ansn = ansn
    BY <1>3, <1>5, <1>8, <2>1
  <2>3. o \in O => c.edge[n][o].cost = m.edges[o].out
    BY <1>3, <2>1
  <2>4. o \notin O => c.edge[n][o].cost = d.edge[n][o].cost
    BY <1>3, <2>1
  <2>5. QED
    BY <2>2, <2>3, <2>4
<1>20. \A p \in NetsOf(c, n) : c.att[n][p].ansn = ansn
  BY <1>3, <1>5, <1>8, <1>9, <1>12, <1>16
<1>21. c \in DbType /\ Paired(c) /\ Attached(c) /\ Timed(c)
  BY <1>11, <1>12
<1>22. RealEdges(c, n) = {o \in RealEdges(d, n) : d.edge[n][o].ansn = d.node[n].ansn}
                         \cup DOMAIN m.edges
  BY <1>17
<1>23. NetsOf(c, n) = {p \in NetsOf(d, n) : d.att[n][p].ansn = d.node[n].ansn}
                             \cup DOMAIN m.nets
  BY <1>18
<1>24. QED
  BY <1>13, <1>14, <1>19, <1>20, <1>21, <1>22, <1>23

(* olsrv2_tc_node_add makes a node real, whatever was known of it.         *)
LEMMA NodeKnownKeeps ==
    ASSUME NEW d \in DbType, NEW e \in DbType, NEW n \in Nodes,
           e.edge = d.edge, e.att = d.att, e.end = d.end,
           \A a \in Nodes \ {n} : e.node[a] = d.node[a],
           e.node[n].present, Active(e.node[n].validity),
           Paired(d), Attached(d), Timed(d)
    PROVE  /\ Paired(e) /\ Attached(e) /\ Timed(e) /\ OthersKept(d, e, n)
           /\ Needed(d) => Needed(e)
           /\ RealEdges(e, n) = RealEdges(d, n) /\ NetsOf(e, n) = NetsOf(d, n)
<1>1. Attached(e)
  BY DEF Attached
<1>2. Paired(e)
  BY DEF Paired
<1>3. Timed(e)
  BY DEF Timed
<1>4. \A x \in Nodes : /\ RealEdges(e, x) = RealEdges(d, x) /\ NetsOf(e, x) = NetsOf(d, x)
                       /\ EdgesOf(e, x) = EdgesOf(d, x)
  BY DEF RealEdges, NetsOf, EdgesOf
<1>5. OthersKept(d, e, n)
  BY <1>4 DEF OthersKept, IsVirtual
<1>6. Needed(d) => Needed(e)
  BY <1>4 DEF Needed, IsVirtual
<1>7. QED
  BY <1>1, <1>2, <1>3, <1>4, <1>5, <1>6

(* olsrv2_tc_node_remove of a node whose validity has run out: nothing it  *)
(* has advertised stays, and it stays itself only for edges of others.     *)
LEMMA NodeRemoveKeeps ==
    ASSUME NEW d \in DbType, NEW n \in Nodes, ~IsVirtual(d, n),
           Paired(d), Attached(d), Timed(d), NEW r, r = NodeRemove(d, n)
    PROVE  /\ r \in DbType /\ Paired(r) /\ Attached(r) /\ Timed(r) /\ OthersKept(d, r, n)
           /\ Needed(d) => Needed(r)
           /\ RealEdges(r, n) = {} /\ NetsOf(r, n) = {}
<1> DEFINE O == RealEdges(d, n)
           P == NetsOf(d, n)
           e1 == EdgesRemove(d, n, O)
           e == EndpointsRemove(e1, n, P)
           entry == IF EdgesOf(e, n) = {} THEN FreeNode ELSE [e.node[n] EXCEPT !.validity = Off]
<1>1. r = [e EXCEPT !.node[n] = IF EdgesOf(e, n) = {} THEN FreeNode
                                ELSE [@ EXCEPT !.validity = Off]]
  BY DEF NodeRemove
<1>2. O \in SUBSET RealEdges(d, n) /\ O \in SUBSET Nodes /\ P \in SUBSET Prefixes
  BY DEF RealEdges, EdgesOf, NetsOf
<1>3. /\ Paired(e1) /\ Attached(e1) /\ Timed(e1) /\ OthersKept(d, e1, n)
      /\ Needed(d) => Needed(e1)
      /\ e1.node[n] = d.node[n]
      /\ RealEdges(e1, n) = {}
      /\ e1.att = d.att
  BY <1>2, EdgesRemoveKeeps
<1>4. e1 \in DbType
  <2> DEFINE drop == {o \in O : d.edge[o][n].virtual}
  <2>1. n \notin drop
    BY DEF Paired, RealEdges, EdgesOf
  <2>2. drop = {o \in O : d.edge[o][n].virtual}
    OBVIOUS
  <2> HIDE DEF drop
  <2>3. QED
    BY <1>2, <2>1, <2>2, EdgesRemoveValue
<1> HIDE DEF e1
<1>5. e \in DbType /\ e.node = e1.node /\ e.edge = e1.edge
  BY <1>2, <1>4, EndpointsRemoveValue
<1>6. /\ Paired(e) /\ Attached(e) /\ Timed(e) /\ OthersKept(e1, e, n)
      /\ ~IsVirtual(e1, n) /\ Needed(e1) => Needed(e)
      /\ NetsOf(e, n) = {}
  <2>1. NetsOf(e, n) = NetsOf(e1, n) \ P
    BY <1>2, <1>3, <1>4, EndpointsRemoveKeeps
  <2>2. NetsOf(e1, n) = P
    BY <1>3 DEF NetsOf
  <2>3. QED
    BY <1>2, <1>3, <1>4, <2>1, <2>2, EndpointsRemoveKeeps
<1>7. RealEdges(e, n) = {}
  BY <1>3, <1>5 DEF RealEdges, EdgesOf
<1>8. e.node[n] = d.node[n] /\ d.node[n].present
  BY <1>3, <1>5 DEF Timed, IsVirtual
<1> HIDE DEF e, O, P
<1>9. entry \in NodeType /\ entry.validity = Off /\ (entry.present <=> EdgesOf(e, n) # {})
  <2>1. d.node[n] \in NodeType
    BY DbFields
  <2>2. QED
    BY <1>8, <2>1, FreeTypes DEF NodeType, Off
<1>10. r.node = [e.node EXCEPT ![n] = entry] /\ r.edge = e.edge /\ r.att = e.att /\ r.end = e.end
  BY <1>1, <1>5 DEF DbType
<1>11. r = [node |-> r.node, edge |-> r.edge, att |-> r.att, end |-> r.end]
  BY <1>1, <1>5 DEF DbType
<1> HIDE DEF entry
<1>12. /\ r.node \in [Nodes -> NodeType] /\ r.node[n] = entry
       /\ \A a \in Nodes \ {n} : r.node[a] = e.node[a]
  BY <1>5, <1>9, <1>10 DEF DbType
<1>13. r \in DbType
  BY <1>5, <1>10, <1>11, <1>12 DEF DbType
<1>14. Paired(r) /\ Attached(r) /\ Timed(r)
  <2>1. Attached(r)
    BY <1>6, <1>10 DEF Attached
  <2>2. Timed(r)
    BY <1>6, <1>9, <1>12 DEF Timed, Active, Off
  <2>3. ASSUME NEW a \in Nodes, NEW b \in Nodes, r.edge[a][b].present
        PROVE  r.node[a].present
    <3>1. e.edge[a][b].present /\ e.node[a].present
      BY <1>6, <1>10, <2>3 DEF Paired
    <3>2. QED
      BY <1>9, <1>12, <3>1 DEF EdgesOf
  <2>4. Paired(r)
    BY <1>6, <1>10, <2>3 DEF Paired
  <2>5. QED
    BY <2>1, <2>2, <2>4
<1>15. \A x \in Nodes : /\ RealEdges(r, x) = RealEdges(e, x) /\ NetsOf(r, x) = NetsOf(e, x)
                        /\ EdgesOf(r, x) = EdgesOf(e, x)
  BY <1>10 DEF RealEdges, NetsOf, EdgesOf
<1>16. OthersKept(e, r, n)
  BY <1>10, <1>12, <1>15 DEF OthersKept, IsVirtual
<1>17. OthersKept(d, r, n)
  BY <1>3, <1>6, <1>16, OthersKeptTransitive
<1>18. Needed(e) => Needed(r)
  BY <1>6, <1>7, <1>9, <1>12, <1>15 DEF Needed, IsVirtual
<1>19. ~IsVirtual(e1, n)
  BY <1>3 DEF IsVirtual
<1>20. QED
  BY <1>3, <1>6, <1>7, <1>13, <1>14, <1>15, <1>17, <1>18, <1>19
-----------------------------------------------------------------------------
(* What the database d holds of x is what x has said, a, all under the     *)
(* ANSN of x.                                                              *)
SaysOf(d, a, x) ==
    /\ RealEdges(d, x) = DOMAIN a.edges
    /\ NetsOf(d, x) = a.nets
    /\ \A o \in RealEdges(d, x) : /\ d.edge[x][o].cost = a.edges[o].out
                                 /\ d.edge[x][o].ansn = d.node[x].ansn
    /\ \A p \in NetsOf(d, x) : d.att[x][p].ansn = d.node[x].ansn

(* The inductive invariant.  The pointers are sound whatever happens; that *)
(* the content is what was advertised, and virtual nodes are only there    *)
(* for the sake of others, needs every TC to be taken for its own node's.  *)
Sound(d) == d \in DbType /\ Paired(d) /\ Attached(d) /\ Timed(d)
Exact(d, a) == Needed(d) /\ \A x \in Nodes : SaysOf(d, a[x], x)
Inv ==
    /\ Sound(db)
    /\ current \in Nodes \cup {NoNode}
    /\ DOMAIN adv = Nodes
    /\ SessionsSound => Exact(db, adv)

(* What an action of n keeps of others is still what they said.            *)
LEMMA OthersSay ==
    ASSUME NEW d, NEW e, NEW n, OthersKept(d, e, n), Needed(d),
           NEW x \in Nodes \ {n}, NEW a, SaysOf(d, a, x)
    PROVE  SaysOf(e, a, x)
<1>1. CASE IsVirtual(d, x)
  BY <1>1 DEF OthersKept, Needed, SaysOf
<1>2. CASE ~IsVirtual(d, x)
  BY <1>2 DEF OthersKept, SaysOf
<1>3. QED
  BY <1>1, <1>2

(* An action that makes d of the database.                                 *)
LEMMA SetDbValue ==
    ASSUME NEW d \in DbType, SetDb(d)
    PROVE  db' = d
BY DEF SetDb, db, DbType

(* A TC that is processed: of a node that is known under the ANSN of the   *)
(* TC all that is kept was said under that ANSN, of any other nothing is   *)
(* kept.                                                                   *)
LEMMA TcProcessedKeeps ==
    ASSUME ConstantsAssumption, Inv, NEW m \in Tcs, TcProcessed(m)
    PROVE  Inv'
<1> DEFINE n == m.orig
           d == NodeAdd(db, n, m.vtime, m.ansn)
           d2 == SetAnsn(d, n, m.ansn)
           c == Content(d2, n, m)
           again == ~IsVirtual(db, n) /\ m.ansn = node[n].ansn
           said == IF again THEN [edges |-> Over(m.edges, adv[n].edges),
                                  nets |-> DOMAIN m.nets \cup adv[n].nets]
                   ELSE [edges |-> m.edges, nets |-> DOMAIN m.nets]
<1>1. /\ n \in Nodes /\ m.ansn \in Ansns /\ m.vtime \in Nat \ {0} /\ GoodContent(n, m)
  BY DEF ConstantsAssumption, GoodContent
<1>2. /\ db \in DbType /\ Paired(db) /\ Attached(db) /\ Timed(db) /\ DOMAIN adv = Nodes
      /\ SessionsSound => Needed(db) /\ \A x \in Nodes : SaysOf(db, adv[x], x)
  BY DEF Inv, Sound, Exact
<1>3. SetDb(c) /\ adv' = [adv EXCEPT ![n] = said] /\ current' = NoNode
      /\ (SessionsSound' <=> SessionsSound)
  BY DEF TcProcessed, SessionsSound, SetAnsn
<1>4. /\ d \in DbType /\ d.edge = db.edge /\ d.att = db.att /\ d.end = db.end
      /\ \A a \in Nodes \ {n} : d.node[a] = db.node[a]
      /\ d.node[n].present /\ d.node[n].validity = m.vtime /\ Active(m.vtime)
  BY <1>1, <1>2, NodeAddValue
<1> HIDE DEF d
<1>5. /\ d2 \in DbType /\ d2.edge = db.edge /\ d2.att = db.att /\ d2.end = db.end
      /\ \A a \in Nodes \ {n} : d2.node[a] = db.node[a]
      /\ d2.node[n].present /\ Active(d2.node[n].validity) /\ d2.node[n].ansn = m.ansn
  <2>1. d2 = SetAnsn(d, n, m.ansn)
    OBVIOUS
  <2> HIDE DEF d2, n
  <2>2. /\ d2 \in DbType /\ d2.edge = d.edge /\ d2.att = d.att /\ d2.end = d.end
        /\ \A a \in Nodes \ {n} : d2.node[a] = d.node[a]
        /\ d2.node[n].present = d.node[n].present /\ d2.node[n].validity = d.node[n].validity
        /\ d2.node[n].ansn = m.ansn
    <3>1. d \in DbType /\ n \in Nodes /\ m.ansn \in Ansns
      BY <1>1, <1>4
    <3>2. QED
      BY ONLY <2>1, <3>1, NodeAnsnValue
  <2>3. QED
    BY <1>4, <2>2
<1> HIDE DEF d2, n
<1>6. /\ Paired(d2) /\ Attached(d2) /\ Timed(d2) /\ OthersKept(db, d2, n)
      /\ Needed(db) => Needed(d2)
      /\ RealEdges(d2, n) = RealEdges(db, n) /\ NetsOf(d2, n) = NetsOf(db, n)
      /\ ~IsVirtual(d2, n)
  BY <1>1, <1>2, <1>5, NodeKnownKeeps DEF IsVirtual
<1>7. /\ c \in DbType /\ Paired(c) /\ Attached(c) /\ Timed(c) /\ OthersKept(d2, c, n)
      /\ c.node[n] = d2.node[n] /\ (Needed(d2) => Needed(c))
      /\ RealEdges(c, n) = {o \in RealEdges(d2, n) : d2.edge[n][o].ansn = d2.node[n].ansn}
                           \cup DOMAIN m.edges
      /\ \A o \in RealEdges(c, n) :
           /\ c.edge[n][o].ansn = d2.node[n].ansn
           /\ o \in DOMAIN m.edges => c.edge[n][o].cost = m.edges[o].out
           /\ o \notin DOMAIN m.edges => c.edge[n][o].cost = d2.edge[n][o].cost
      /\ NetsOf(c, n) = {p \in NetsOf(d2, n) : d2.att[n][p].ansn = d2.node[n].ansn}
                        \cup DOMAIN m.nets
      /\ \A p \in NetsOf(c, n) : c.att[n][p].ansn = d2.node[n].ansn
  <2> c = Content(d2, n, m)
    OBVIOUS
  <2> HIDE DEF c
  <2>1. ~IsVirtual(d2, n) => c.node[n] = d2.node[n] /\ (Needed(d2) => Needed(c))
    BY <1>1, <1>5, <1>6, ContentKeeps
  <2>2. /\ c \in DbType /\ Paired(c) /\ Attached(c) /\ Timed(c) /\ OthersKept(d2, c, n)
        /\ RealEdges(c, n) = {o \in RealEdges(d2, n) : d2.edge[n][o].ansn = d2.node[n].ansn}
                             \cup DOMAIN m.edges
    BY <1>1, <1>5, <1>6, ContentKeeps
  <2>3. \A o \in RealEdges(c, n) :
           /\ c.edge[n][o].ansn = d2.node[n].ansn
           /\ o \in DOMAIN m.edges => c.edge[n][o].cost = m.edges[o].out
           /\ o \notin DOMAIN m.edges => c.edge[n][o].cost = d2.edge[n][o].cost
    BY <1>1, <1>5, <1>6, ContentKeeps
  <2>4. /\ NetsOf(c, n) = {p \in NetsOf(d2, n) : d2.att[n][p].ansn = d2.node[n].ansn}
                          \cup DOMAIN m.nets
        /\ \A p \in NetsOf(c, n) : c.att[n][p].ansn = d2.node[n].ansn
    BY <1>1, <1>5, <1>6, ContentKeeps
  <2>5. QED
    BY <1>6, <2>1, <2>2, <2>3, <2>4
<1> HIDE DEF c
<1>8. db' = c
  BY <1>3, <1>7, SetDbValue
<1>9. OthersKept(db, c, n)
  BY <1>6, <1>7, OthersKeptTransitive
<1>10. ASSUME SessionsSound
       PROVE  SaysOf(c, said, n)
  <2>1. SaysOf(db, adv[n], n) /\ db.node = node /\ Needed(db)
    BY <1>1, <1>2, <1>10 DEF db
  <2>2. CASE again
    <3>1. said.edges = Over(m.edges, adv[n].edges) /\ said.nets = DOMAIN m.nets \cup adv[n].nets
      BY <2>2
    <3> HIDE DEF again, said
    <3>2. /\ DOMAIN said.edges = DOMAIN m.edges \cup DOMAIN adv[n].edges
          /\ \A o \in DOMAIN said.edges :
               said.edges[o] = IF o \in DOMAIN m.edges THEN m.edges[o] ELSE adv[n].edges[o]
      BY <3>1 DEF Over
    <3>3. node[n].ansn = m.ansn
      BY <2>2 DEF again
    <3>4. /\ RealEdges(c, n) = RealEdges(db, n) \cup DOMAIN m.edges
          /\ NetsOf(c, n) = NetsOf(db, n) \cup DOMAIN m.nets
      BY <1>5, <1>6, <1>7, <2>1, <3>3 DEF SaysOf
    <3>5. RealEdges(c, n) = DOMAIN said.edges /\ NetsOf(c, n) = said.nets
      BY <2>1, <3>1, <3>2, <3>4 DEF SaysOf
    <3>6. \A o \in RealEdges(c, n) : c.edge[n][o].cost = said.edges[o].out
      BY <1>5, <1>7, <2>1, <3>2, <3>4 DEF SaysOf
    <3>7. QED
      BY <1>7, <3>5, <3>6 DEF SaysOf
  <2>3. CASE ~again
    <3>1. said.edges = m.edges /\ said.nets = DOMAIN m.nets
      BY <2>3
    <3>2. IsVirtual(db, n) \/ m.ansn /= node[n].ansn
      BY <2>3
    <3> HIDE DEF again, said
    <3>3. RealEdges(c, n) = DOMAIN m.edges /\ NetsOf(c, n) = DOMAIN m.nets
      <4>1. CASE IsVirtual(db, n)
        BY <1>1, <1>6, <1>7, <2>1, <4>1 DEF Needed
      <4>2. CASE m.ansn /= node[n].ansn
        BY <1>5, <1>6, <1>7, <2>1, <4>2 DEF SaysOf
      <4>3. QED
        BY <3>2, <4>1, <4>2
    <3>4. QED
      BY <1>7, <3>1, <3>3 DEF SaysOf
  <2>4. QED
    BY <2>2, <2>3
<1> HIDE DEF said, again
<1>11. DOMAIN adv' = Nodes /\ adv'[n] = said /\ \A x \in Nodes \ {n} : adv'[x] = adv[x]
  BY <1>1, <1>2, <1>3
<1>12. ASSUME SessionsSound
       PROVE  Exact(c, adv')
  <2>1. \A x \in Nodes \ {n} : SaysOf(c, adv'[x], x)
    BY <1>2, <1>9, <1>11, <1>12, OthersSay
  <2>2. Needed(c)
    BY <1>2, <1>6, <1>7, <1>12
  <2>3. QED
    BY <1>1, <1>10, <1>11, <1>12, <2>1, <2>2 DEF Exact
<1>13. QED
  BY <1>3, <1>7, <1>8, <1>11, <1>12 DEF Inv, Sound

(* A TC that is dropped: its node is real and keeps its ANSN, or the TC    *)
(* would not have been older.                                              *)
LEMMA TcOutdatedKeeps ==
    ASSUME ConstantsAssumption, Inv, NEW m \in Tcs, TcOutdated(m)
    PROVE  Inv'
<1> DEFINE n == m.orig
           d == NodeAdd(db, n, m.vtime, m.ansn)
<1>1. n \in Nodes /\ m.ansn \in Ansns /\ m.vtime \in Nat \ {0}
  BY DEF ConstantsAssumption
<1>2. /\ db \in DbType /\ Paired(db) /\ Attached(db) /\ Timed(db) /\ DOMAIN adv = Nodes
      /\ SessionsSound => Needed(db) /\ \A x \in Nodes : SaysOf(db, adv[x], x)
  BY DEF Inv, Sound, Exact
<1>3. SetDb(d) /\ adv' = adv /\ current' = n /\ m.ansn /= d.node[n].ansn
      /\ (SessionsSound' <=> SessionsSound)
  BY DEF TcOutdated, SessionsSound, Outdated, IsSmaller
<1>4. /\ d \in DbType /\ d.edge = db.edge /\ d.att = db.att /\ d.end = db.end
      /\ \A a \in Nodes \ {n} : d.node[a] = db.node[a]
      /\ d.node[n].present /\ d.node[n].validity = m.vtime /\ Active(m.vtime)
      /\ d.node[n].ansn = IF db.node[n].present /\ ~IsVirtual(db, n) THEN db.node[n].ansn
                          ELSE m.ansn
  BY <1>1, <1>2, NodeAddValue
<1> HIDE DEF d, n
<1>5. db' = d
  BY <1>3, <1>4, SetDbValue
<1>6. d.node[n].ansn = db.node[n].ansn
  BY <1>3, <1>4
<1>7. /\ Paired(d) /\ Attached(d) /\ Timed(d) /\ OthersKept(db, d, n)
      /\ Needed(db) => Needed(d)
      /\ RealEdges(d, n) = RealEdges(db, n) /\ NetsOf(d, n) = NetsOf(db, n)
  BY <1>1, <1>2, <1>4, NodeKnownKeeps
<1>8. ASSUME SessionsSound
      PROVE  Exact(d, adv)
  <2>1. \A x \in Nodes \ {n} : SaysOf(d, adv[x], x)
    BY <1>2, <1>7, <1>8, OthersSay
  <2>2. SaysOf(db, adv[n], n)
    BY <1>1, <1>2, <1>8
  <2>3. SaysOf(d, adv[n], n)
    BY <1>4, <1>6, <1>7, <2>2 DEF SaysOf
  <2>4. QED
    BY <1>2, <1>7, <1>8, <2>1, <2>3 DEF Exact
<1>9. QED
  BY <1>1, <1>2, <1>3, <1>4, <1>5, <1>7, <1>8 DEF Inv, Sound

(* A TC without a mandatory TLV is content of the node of the last TC: the *)
(* pointers stay sound, and that is all.                                   *)
LEMMA TcWithoutTlvKeeps ==
    ASSUME ConstantsAssumption, Inv, NEW m \in BadTcs, TcWithoutTlv(m)
    PROVE  Inv'
<1> DEFINE n == current
           c == Content(db, n, m)
<1>1. n \in Nodes /\ GoodContent(n, m)
  BY DEF ConstantsAssumption, GoodContent, TcWithoutTlv, Inv
<1>2. current' = NoNode /\ adv' = adv /\ DOMAIN adv = Nodes /\ Sound(db)
  BY DEF TcWithoutTlv, Inv
<1>3. CASE node[n].present
  <2>1. SetDb(c) /\ foreign'
    BY <1>3 DEF TcWithoutTlv
  <2>2. db.node[n].present
    BY <1>3 DEF db
  <2>3. c \in DbType /\ Paired(c) /\ Attached(c) /\ Timed(c)
    BY <1>1, <1>2, <2>2, ContentKeeps DEF Sound
  <2> HIDE DEF c
  <2>4. db' = c
    BY <2>1, <2>3, SetDbValue
  <2>5. QED
    BY <1>2, <2>1, <2>3, <2>4 DEF Inv, Sound, SessionsSound
<1>4. CASE ~node[n].present
  <2>1. undefined' /\ db' = db
    BY <1>4 DEF TcWithoutTlv, db
  <2>2. QED
    BY <1>2, <2>1 DEF Inv, SessionsSound
<1>5. QED
  BY <1>3, <1>4

(* A validity timer that fires: nothing is said any more, nothing is held. *)
LEMMA NodeTimeoutKeeps ==
    ASSUME Inv, NEW n \in Nodes, NodeTimeout(n)
    PROVE  Inv'
<1> DEFINE r == NodeRemove(db, n)
           said == [edges |-> <<>>, nets |-> {}]
<1>1. /\ db \in DbType /\ Paired(db) /\ Attached(db) /\ Timed(db) /\ DOMAIN adv = Nodes
      /\ SessionsSound => Needed(db) /\ \A x \in Nodes : SaysOf(db, adv[x], x)
  BY DEF Inv, Sound, Exact
<1>2. SetDb(r) /\ adv' = [adv EXCEPT ![n] = said] /\ current' = current
      /\ (SessionsSound' <=> SessionsSound)
  BY DEF NodeTimeout, SessionsSound
<1>3. ~IsVirtual(db, n)
  BY DEF NodeTimeout, IsVirtual, Active, db
<1>4. /\ r \in DbType /\ Paired(r) /\ Attached(r) /\ Timed(r) /\ OthersKept(db, r, n)
      /\ Needed(db) => Needed(r)
      /\ RealEdges(r, n) = {} /\ NetsOf(r, n) = {}
  BY <1>1, <1>3, NodeRemoveKeeps
<1> HIDE DEF r
<1>5. db' = r
  BY <1>2, <1>4, SetDbValue
<1>6. SaysOf(r, said, n)
  <2>1. DOMAIN said.edges = {} /\ said.nets = {}
    OBVIOUS
  <2>2. QED
    BY <1>4, <2>1 DEF SaysOf
<1> HIDE DEF said
<1>7. DOMAIN adv' = Nodes /\ adv'[n] = said /\ \A x \in Nodes \ {n} : adv'[x] = adv[x]
  BY <1>1, <1>2
<1>8. ASSUME SessionsSound
      PROVE  Exact(r, adv')
  <2>1. \A x \in Nodes \ {n} : SaysOf(r, adv'[x], x)
    BY <1>1, <1>4, <1>7, <1>8, OthersSay
  <2>2. QED
    BY <1>1, <1>4, <1>6, <1>7, <1>8, <2>1 DEF Exact
<1>9. QED
  BY <1>1, <1>2, <1>4, <1>5, <1>7, <1>8 DEF Inv, Sound

(* Time alone changes no content: a timer that is due is run first.        *)
LEMMA TickKeeps ==
    ASSUME Inv, Tick
    PROVE  Inv'
<1>1. /\ db \in DbType /\ Paired(db) /\ Attached(db) /\ Timed(db)
      /\ edge' = edge /\ att' = att /\ end' = end /\ adv' = adv /\ current' = current
      /\ (SessionsSound' <=> SessionsSound)
  BY DEF Inv, Sound, Tick, SessionsSound
<1>2. node \in [Nodes -> NodeType]
  BY <1>1 DEF DbType, db
<1>3. ASSUME NEW x \in Nodes
      PROVE  /\ node'[x] \in NodeType
             /\ node'[x].present = node[x].present /\ node'[x].ansn = node[x].ansn
             /\ Active(node'[x].validity) <=> Active(node[x].validity)
  <2>1. /\ node[x] \in NodeType /\ node[x].validity \in Int /\ node[x].validity # 0
        /\ node'[x] = IF Active(node[x].validity)
                      THEN [node[x] EXCEPT !.validity = @ - 1] ELSE node[x]
    BY <1>2 DEF Tick, NodeType
  <2>2. QED
    BY <2>1 DEF NodeType, Active
<1>4. node' \in [Nodes -> NodeType]
  BY <1>3 DEF Tick
<1>5. db' \in DbType
  BY <1>1, <1>4 DEF DbType, db
<1>6. /\ db'.edge = db.edge /\ db'.att = db.att /\ db'.end = db.end
      /\ \A x \in Nodes : /\ db'.node[x].present = db.node[x].present
                          /\ db'.node[x].ansn = db.node[x].ansn
                          /\ Active(db'.node[x].validity) <=> Active(db.node[x].validity)
  BY <1>1, <1>3 DEF db
<1>7. Paired(db') /\ Attached(db') /\ Timed(db')
  BY <1>1, <1>6 DEF Paired, Attached, Timed
<1>8. ASSUME NEW x \in Nodes
      PROVE  /\ RealEdges(db', x) = RealEdges(db, x) /\ NetsOf(db', x) = NetsOf(db, x)
             /\ EdgesOf(db', x) = EdgesOf(db, x)
             /\ IsVirtual(db', x) <=> IsVirtual(db, x)
  BY <1>6 DEF RealEdges, NetsOf, EdgesOf, IsVirtual
<1>9. Exact(db, adv) => Exact(db', adv)
  <2>1. Needed(db) => Needed(db')
    BY <1>6, <1>8 DEF Needed
  <2>2. ASSUME NEW x \in Nodes, SaysOf(db, adv[x], x)
        PROVE  SaysOf(db', adv[x], x)
    BY <1>6, <1>8, <2>2 DEF SaysOf
  <2>3. QED
    BY <2>1, <2>2 DEF Exact
<1>10. QED
  BY <1>1, <1>5, <1>7, <1>9 DEF Inv, Sound
-----------------------------------------------------------------------------
(* The invariant holds of the empty database and is kept by every step.    *)
LEMMA InitInv ==
    ASSUME ConstantsAssumption, Init
    PROVE  Inv
<1>1. /\ db.node = [n \in Nodes |-> FreeNode]
      /\ db.edge = [n \in Nodes |-> [o \in Nodes |-> FreeEdge]]
      /\ db.att = [n \in Nodes |-> [p \in Prefixes |-> FreeAtt]]
      /\ db.end = [p \in Prefixes |-> FreeEnd]
  BY DEF Init, db
<1>2. db \in DbType
  <2>1. db = [node |-> db.node, edge |-> db.edge, att |-> db.att, end |-> db.end]
    BY DEF db
  <2>2. QED
    BY <1>1, <2>1, FreeTypes DEF DbType
<1>3. Paired(db) /\ Attached(db) /\ Timed(db)
  BY <1>1, FreeTypes DEF Paired, Attached, Timed, Active, Off
<1>4. \A n \in Nodes : /\ EdgesOf(db, n) = {} /\ NetsOf(db, n) = {} /\ RealEdges(db, n) = {}
                       /\ ~db.node[n].present
  BY <1>1, FreeTypes DEF EdgesOf, RealEdges, NetsOf
<1>5. Needed(db)
  BY <1>4 DEF Needed
<1>6. \A n \in Nodes : DOMAIN adv[n].edges = {} /\ adv[n].nets = {}
  BY DEF Init
<1>7. \A n \in Nodes : SaysOf(db, adv[n], n)
  BY <1>4, <1>6 DEF SaysOf
<1>8. QED
  BY <1>2, <1>3, <1>5, <1>7 DEF Inv, Sound, Exact, Init

(* Every action keeps the invariant.                                       *)
LEMMA NextInv ==
    ASSUME ConstantsAssumption, Inv, [Next]_vars
    PROVE  Inv'
<1>1. ASSUME NEW m \in Tcs, TcOutdated(m)
      PROVE  Inv'
  BY <1>1, TcOutdatedKeeps
<1>2. ASSUME NEW m \in Tcs, TcProcessed(m)
      PROVE  Inv'
  BY <1>2, TcProcessedKeeps
<1>3. CASE TcIgnored
  BY <1>3 DEF TcIgnored, Inv, db, SessionsSound
<1>4. ASSUME NEW m \in BadTcs, TcWithoutTlv(m)
      PROVE  Inv'
  BY <1>4, TcWithoutTlvKeeps
<1>5. ASSUME NEW n \in Nodes, NodeTimeout(n)
      PROVE  Inv'
  BY <1>5, NodeTimeoutKeeps
<1>6. CASE Tick
  BY <1>6, TickKeeps
<1>7. CASE FallSilent
  BY <1>7 DEF FallSilent, Inv, db, SessionsSound
<1>8. CASE UNCHANGED vars
  BY <1>8 DEF vars, Inv, db, SessionsSound
<1>9. QED
  BY <1>1, <1>2, <1>3, <1>4, <1>5, <1>6, <1>7, <1>8 DEF Next

(* The invariant holds for ever.                                           *)
LEMMA Invariant == Spec => []Inv
<1>1. Init => Inv
  BY ConstantsAssumption, InitInv
<1>2. Inv /\ [Next]_vars => Inv'
  BY ConstantsAssumption, NextInv
<1>3. QED
  BY <1>1, <1>2, PTL DEF Spec

(* Nodes, edges, attached networks and endpoints keep their types; so does *)
(* _current.node, for any TCs.                                             *)
THEOREM TypeCorrect == Spec => []TypeOK
<1>1. Inv => TypeOK
  BY DEF Inv, Sound, DbType, EndType, TypeOK, db
<1>2. QED
  BY <1>1, Invariant, PTL

(* _remove_edge, olsrv2_tc_node_remove and olsrv2_tc_endpoint_remove can   *)
(* follow inverse, dst and node pointers without a check, for any TCs and  *)
(* timeouts in any order.                                                  *)
THEOREM PointersAlwaysConsistent == Spec => []PointersConsistent
<1>1. Inv => PointersConsistent
  <2>1. Paired(db) => EdgesPaired
    BY DEF Paired, EdgesPaired, db
  <2>2. Needed(db) => \A n \in Nodes : IsVirtual(db, n) =>
                        /\ RealEdges(db, n) = {}
                        /\ NetsOf(db, n) = {}
                        /\ node[n].present <=> EdgesOf(db, n) # {}
    BY DEF Needed, db
  <2>3. Attached(db) => EndpointsAttached
    BY DEF Attached, EndpointsAttached, db
  <2>4. QED
    BY <2>1, <2>2, <2>3 DEF Inv, Sound, Exact, PointersConsistent, VirtualNodesNeeded
<1>2. QED
  BY <1>1, Invariant, PTL

(* What the database holds of a node is what the node has advertised under *)
(* its present ANSN, whatever other nodes say of it and however TCs and    *)
(* timeouts mix.                                                           *)
THEOREM AdvertisedAlwaysExactly == Spec => []AdvertisedExactly
<1>1. Inv => AdvertisedExactly
  <2>1. ASSUME NEW n \in Nodes, SaysOf(db, adv[n], n)
        PROVE  /\ RealEdges(db, n) = DOMAIN adv[n].edges
               /\ NetsOf(db, n) = adv[n].nets
               /\ \A o \in RealEdges(db, n) : edge[n][o].cost = adv[n].edges[o].out
    BY <2>1 DEF SaysOf, db
  <2>2. QED
    BY <2>1 DEF Inv, Exact, AdvertisedExactly
<1>2. QED
  BY <1>1, Invariant, PTL
-----------------------------------------------------------------------------
(* Every set of natural numbers has a least element.                       *)
LEMMA HasMinimum ==
    ASSUME NEW S, S \subseteq Nat, S /= {}
    PROVE  \E x \in S : \A y \in S : x <= y
<1> DEFINE R == OpToRel(<, Nat)
<1>1. IsWellFoundedOn(R, Nat)
  BY NatLessThanWellFounded
<1>2. \A x \in Nat : \A y \in Nat : y < x => <<y, x>> \in R
  BY DEF OpToRel
<1> HIDE DEF R
<1>3. PICK x \in S : \A y \in S : ~ (<<y, x>> \in R)
  BY <1>1, WFMin
<1>4. \A y \in S : ~(y < x)
  BY <1>2, <1>3
<1> QED
  BY <1>4

(* So what holds of zero and of every successor holds of every number.     *)
LEMMA Induction ==
    ASSUME NEW S, 0 \in S, \A n \in Nat : n \in S => n + 1 \in S
    PROVE  Nat \subseteq S
<1> SUFFICES ASSUME Nat \ S /= {} PROVE FALSE
  OBVIOUS
<1>1. PICK x \in Nat \ S : \A y \in Nat \ S : x <= y
  BY HasMinimum
<1> QED
  BY <1>1

(* A loop of the code is a function of the number of its steps; it exists  *)
(* for every number of them.                                               *)
Loop(f, b, N, step) == \A k \in 0 .. N : f[k] = IF k = 0 THEN b ELSE step[k][f[k - 1]]

(* Every loop has a function of its rounds, whatever its body does.        *)
LEMMA LoopRuns ==
    ASSUME NEW S, NEW b \in S, NEW N \in Nat, NEW step \in [Nat -> [S -> S]]
    PROVE  \E f \in [0 .. N -> S] : Loop(f, b, N, step)
<1> DEFINE P == {n \in Nat : \E f \in [0 .. n -> S] :
                   \A k \in 0 .. n : f[k] = IF k = 0 THEN b ELSE step[k][f[k - 1]]}
<1>1. 0 \in P
  <2> DEFINE f == [k \in 0 .. 0 |-> b]
  <2>1. /\ f \in [0 .. 0 -> S]
        /\ \A k \in 0 .. 0 : f[k] = IF k = 0 THEN b ELSE step[k][f[k - 1]]
    OBVIOUS
  <2> QED
    BY <2>1
<1>2. ASSUME NEW n \in Nat, n \in P
      PROVE  n + 1 \in P
  <2>1. PICK f \in [0 .. n -> S] :
          \A k \in 0 .. n : f[k] = IF k = 0 THEN b ELSE step[k][f[k - 1]]
    BY <1>2
  <2> DEFINE g == [k \in 0 .. n + 1 |-> IF k <= n THEN f[k] ELSE step[n + 1][f[n]]]
  <2>2. f[n] \in S
    OBVIOUS
  <2>3. g \in [0 .. n + 1 -> S]
    BY <2>2
  <2>4. ASSUME NEW k \in 0 .. n + 1
        PROVE  g[k] = IF k = 0 THEN b ELSE step[k][g[k - 1]]
    <3>1. CASE k <= n
      BY <2>1, <3>1
    <3>2. CASE k = n + 1
      BY <2>1, <3>2
    <3> QED
      BY <3>1, <3>2
  <2> HIDE DEF g
  <2>5. \A k \in 0 .. n + 1 : g[k] = IF k = 0 THEN b ELSE step[k][g[k - 1]]
    BY <2>4
  <2> QED
    BY <2>3, <2>5
<1>3. N \in P
  <2> HIDE DEF P
  <2> QED
    BY <1>1, <1>2, Induction
<1> QED
  BY <1>3 DEF Loop
-----------------------------------------------------------------------------
(* A destination for which a way of cost c is refused.                     *)
Barred(w, x, c) ==
    \/ x \in w.own
    \/ x \in DOMAIN w.lan /\ w.lan[x] < c
    \/ x \notin Routable

(* A way to x of cost c that begins with neighbor h.                       *)
IsWay(w, d, x, c, h) == [cost |-> c, hop |-> h] \in WaysTo(w, d, NodePaths(w, d), x)

(* The entry of x is as good as a way of cost c; no entry is made up.      *)
Covered(w, rt, x, c) == ~Barred(w, x, c) => rt[x].set /\ rt[x].cost <= c
Honest(w, d, rt) ==
    \A x \in Dests :
      /\ rt[x].set \in BOOLEAN
      /\ rt[x].set => /\ rt[x].cost \in Nat /\ ~Barred(w, x, rt[x].cost)
                      /\ IsWay(w, d, x, rt[x].cost, rt[x].hop)

(* The state of a computation.                                             *)
RunOf(q, dn, l, y, r) == [queue |-> q, done |-> dn, local |-> l, way |-> y, rt |-> r]
IsRun(s) == s = RunOf(s.queue, s.done, s.local, s.way, s.rt)

(* Writing some of its fields.                                             *)
LEMMA RunWrites ==
    ASSUME NEW s, IsRun(s), NEW q, NEW dn, NEW y, NEW r
    PROVE  /\ [s EXCEPT !.rt = r] = RunOf(s.queue, s.done, s.local, s.way, r)
           /\ [s EXCEPT !.queue = q, !.way = y] = RunOf(q, s.done, s.local, y, s.rt)
           /\ [s EXCEPT !.queue = q, !.done = dn] = RunOf(q, dn, s.local, s.way, s.rt)
           /\ [s EXCEPT !.done = dn] = RunOf(s.queue, dn, s.local, s.way, s.rt)
<1> DEFINE q0 == s.queue
           dn0 == s.done
           l0 == s.local
           y0 == s.way
           r0 == s.rt
<1>1. s = [queue |-> q0, done |-> dn0, local |-> l0, way |-> y0, rt |-> r0]
  BY DEF IsRun, RunOf
<1> HIDE DEF q0, dn0, l0, y0, r0
<1>2. [s EXCEPT !.rt = r] = RunOf(q0, dn0, l0, y0, r)
  BY <1>1 DEF RunOf
<1>3. [s EXCEPT !.queue = q, !.way = y] = RunOf(q, dn0, l0, y, r0)
  <2> DEFINE a == [s EXCEPT !.queue = q]
  <2>1. a = [queue |-> q, done |-> dn0, local |-> l0, way |-> y0, rt |-> r0]
    BY <1>1
  <2>2. [s EXCEPT !.queue = q, !.way = y] = [a EXCEPT !.way = y]
    BY <1>1
  <2> HIDE DEF a
  <2>3. [a EXCEPT !.way = y] = [queue |-> q, done |-> dn0, local |-> l0, way |-> y, rt |-> r0]
    BY <2>1
  <2> QED
    BY <2>2, <2>3 DEF RunOf
<1>4. [s EXCEPT !.queue = q, !.done = dn] = RunOf(q, dn, l0, y0, r0)
  <2> DEFINE a == [s EXCEPT !.queue = q]
  <2>1. a = [queue |-> q, done |-> dn0, local |-> l0, way |-> y0, rt |-> r0]
    BY <1>1
  <2>2. [s EXCEPT !.queue = q, !.done = dn] = [a EXCEPT !.done = dn]
    BY <1>1
  <2> HIDE DEF a
  <2>3. [a EXCEPT !.done = dn] = [queue |-> q, done |-> dn, local |-> l0, way |-> y0, rt |-> r0]
    BY <2>1
  <2> QED
    BY <2>2, <2>3 DEF RunOf
<1>5. [s EXCEPT !.done = dn] = RunOf(q0, dn, l0, y0, r0)
  BY <1>1 DEF RunOf
<1> QED
  BY <1>2, <1>3, <1>4, <1>5 DEF q0, dn0, l0, y0, r0

(* And reading them.                                                       *)
LEMMA RunFields ==
    ASSUME NEW q, NEW dn, NEW l, NEW y, NEW r
    PROVE  LET s == RunOf(q, dn, l, y, r)
           IN  /\ s.queue = q /\ s.done = dn /\ s.local = l /\ s.way = y /\ s.rt = r
               /\ IsRun(s)
BY DEF RunOf, IsRun

(* A neighbor's links and metrics.                                         *)
LEMMA LeastValue ==
    ASSUME NEW S, S \subseteq Nat, S /= {}
    PROVE  Least(S) \in S /\ \A x \in S : Least(S) <= x
<1>1. \E m \in S : \A x \in S : m <= x
  BY HasMinimum
<1> QED
  BY <1>1 DEF Least

(* What is assumed of a surrounding, in the terms of the proofs.           *)
LEMMA Surrounding ==
    ASSUME NEW w \in Surroundings
    PROVE  /\ w.local \cap Prefixes \subseteq w.own
           /\ \A x \in DOMAIN w.lan : w.lan[x] \in Nat
           /\ Len(w.neigh) \in Nat /\ DOMAIN w.neigh = 1 .. Len(w.neigh)
           /\ \A i, j \in DOMAIN w.neigh : w.neigh[i].orig = w.neigh[j].orig => i = j
           /\ \A i \in DOMAIN w.neigh :
                LET n == w.neigh[i] IN
                /\ n.addrs \subseteq Dests
                /\ Len(n.links) \in Nat /\ DOMAIN n.links = 1 .. Len(n.links)
                /\ \A l \in DOMAIN n.links :
                     /\ DOMAIN n.links[l].two \subseteq Dests
                     /\ \A x \in DOMAIN n.links[l].two : n.links[l].two[x] \in Nat
                /\ Symmetric(n) => MetricOut(n) \in Nat
<1>1. ASSUME NEW i \in DOMAIN w.neigh, Symmetric(w.neigh[i])
      PROVE  MetricOut(w.neigh[i]) \in Nat
  <2> DEFINE n == w.neigh[i]
             S == {n.links[l].out : l \in DOMAIN n.links}
  <2>1. \A l \in DOMAIN n.links : n.links[l].out \in Metric
    BY SurroundingsAssumption
  <2>3. S \subseteq Nat
    <3>1. Metric \subseteq Nat
      BY DEF Metric, Infinite
    <3> HIDE DEF n
    <3> QED
      BY <2>1, <3>1
  <2>2. S /= {}
    BY <1>1 DEF Symmetric
  <2>4. Least(S) \in Nat
    BY <2>2, <2>3, LeastValue
  <2> QED
    BY <2>4 DEF MetricOut
<1>2. Metric \subseteq Nat /\ Addresses \subseteq Dests
  BY DEF Metric, Infinite, Dests
<1> QED
  BY <1>1, <1>2, SurroundingsAssumption

(* What is reachable at some cost is covered at every higher one.          *)
LEMMA CoveredLonger ==
    ASSUME NEW w \in Surroundings, NEW rt, NEW x \in Dests, rt[x].set => rt[x].cost \in Nat,
           NEW c \in Nat, NEW e \in Nat, c <= e, Covered(w, rt, x, c)
    PROVE  Covered(w, rt, x, e)
<1>1. x \in DOMAIN w.lan => w.lan[x] \in Nat
  BY Surrounding
<1>2. Barred(w, x, c) => Barred(w, x, e)
  BY <1>1 DEF Barred
<1> QED
  BY <1>2 DEF Covered

(* _update_routing_entry                                                   *)
Updated(w, old, ways, rt) ==
    \A x \in Dests :
      IF \/ x \notin DOMAIN ways \/ Barred(w, x, ways[x].cost)
         \/ old[x].set /\ old[x].cost < ways[x].cost
      THEN rt[x] = old[x]
      ELSE rt[x].set = TRUE /\ rt[x].cost = ways[x].cost /\ rt[x].hop = ways[x].hop

(* It writes the entries of all destinations so, and nothing else.         *)
LEMMA UpdateEntriesValue ==
    ASSUME NEW w, NEW s, IsRun(s), NEW ways
    PROVE  \E rt :
             /\ UpdateEntries(w, s, ways) = RunOf(s.queue, s.done, s.local, s.way, rt)
             /\ Updated(w, s.rt, ways, rt)
<1> DEFINE keeps(x) == \/ x \notin DOMAIN ways \/ Refused(w, x, ways[x])
                       \/ s.rt[x].set /\ s.rt[x].cost < ways[x].cost
           new(x) == [set |-> TRUE, cost |-> ways[x].cost, hops |-> ways[x].hops,
                      hop |-> ways[x].hop, gw |-> Gateway(w, x, ways[x])]
           rt == [x \in Dests |-> IF keeps(x) THEN s.rt[x] ELSE new(x)]
<1>1. UpdateEntries(w, s, ways) = [s EXCEPT !.rt = rt]
  BY DEF UpdateEntries
<1>2. \A x : keeps(x) <=> \/ x \notin DOMAIN ways \/ Barred(w, x, ways[x].cost)
                          \/ s.rt[x].set /\ s.rt[x].cost < ways[x].cost
  BY DEF Refused, Barred
<1>3. \A x \in Dests : IF keeps(x) THEN rt[x] = s.rt[x]
                       ELSE rt[x].set = TRUE /\ rt[x].cost = ways[x].cost
                            /\ rt[x].hop = ways[x].hop
  <2> HIDE DEF keeps
  <2> QED
    OBVIOUS
<1> HIDE DEF rt, keeps, new
<1>4. UpdateEntries(w, s, ways) = RunOf(s.queue, s.done, s.local, s.way, rt)
  BY <1>1, RunWrites
<1>5. Updated(w, s.rt, ways, rt)
  BY <1>2, <1>3 DEF Updated
<1> QED
  BY <1>4, <1>5

(* It makes no entry up and loses none, and covers what it is given.       *)
AreWays(w, d, ways) ==
    \A x \in DOMAIN ways : /\ x \in Dests /\ ways[x].cost \in Nat
                           /\ IsWay(w, d, x, ways[x].cost, ways[x].hop)
Entered(w, d, s, ways, r) ==
    /\ IsRun(r) /\ r.queue = s.queue /\ r.done = s.done /\ r.local = s.local
    /\ r.way = s.way /\ Honest(w, d, r.rt)
    /\ \A x \in Dests, c \in Nat : Covered(w, s.rt, x, c) => Covered(w, r.rt, x, c)
    /\ \A x \in DOMAIN ways : Covered(w, r.rt, x, ways[x].cost)

(* This is so whenever what it is given are ways.                          *)
LEMMA UpdateEntriesKeeps ==
    ASSUME NEW w, NEW d, NEW s, IsRun(s), Honest(w, d, s.rt), NEW ways, AreWays(w, d, ways)
    PROVE  Entered(w, d, s, ways, UpdateEntries(w, s, ways))
<1> DEFINE r == UpdateEntries(w, s, ways)
<1>1. PICK rt : r = RunOf(s.queue, s.done, s.local, s.way, rt) /\ Updated(w, s.rt, ways, rt)
  BY UpdateEntriesValue
<1> HIDE DEF r
<1>2. /\ IsRun(r) /\ r.queue = s.queue /\ r.done = s.done /\ r.local = s.local
      /\ r.way = s.way /\ r.rt = rt
  BY <1>1, RunFields
<1>3. Honest(w, d, rt)
  BY <1>1 DEF Honest, Updated, AreWays
<1>4. ASSUME NEW x \in Dests, NEW c \in Nat, Covered(w, s.rt, x, c)
      PROVE  Covered(w, rt, x, c)
  BY <1>1, <1>4 DEF Covered, Honest, Updated, AreWays
<1>5. ASSUME NEW x \in DOMAIN ways
      PROVE  Covered(w, rt, x, ways[x].cost)
  BY <1>1 DEF Covered, Honest, Updated, AreWays
<1> QED
  BY <1>2, <1>3, <1>4, <1>5 DEF r, Entered

(* _insert_into_working_tree                                               *)
LEMMA InsertValue ==
    ASSUME NEW s, IsRun(s), NEW ways
    PROVE  LET r == Insert(s, ways)
           IN  /\ IsRun(r) /\ r.queue = s.queue \cup Shorter(s, ways)
               /\ r.done = s.done /\ r.local = s.local /\ r.rt = s.rt
               /\ \A t \in Targets :
                    r.way[t] = IF t \in Shorter(s, ways) THEN ways[t] ELSE s.way[t]
<1> DEFINE new == Shorter(s, ways)
           q == s.queue \cup new
           y == [t \in Targets |-> IF t \in new THEN ways[t] ELSE s.way[t]]
           r == Insert(s, ways)
<1>1. r = [s EXCEPT !.queue = q, !.way = y]
  BY DEF Insert
<1>2. \A t \in Targets : y[t] = IF t \in new THEN ways[t] ELSE s.way[t]
  OBVIOUS
<1> HIDE DEF new, q, y, r
<1>3. r = RunOf(q, s.done, s.local, y, s.rt)
  BY <1>1, RunWrites
<1>4. IsRun(r) /\ r.queue = q /\ r.done = s.done /\ r.local = s.local /\ r.rt = s.rt /\ r.way = y
  BY <1>3, RunFields
<1> QED
  BY <1>2, <1>4 DEF q, new, r

-----------------------------------------------------------------------------
(* Ways along nodes.                                                       *)
Present(w, d) == {n \in Nodes : d.node[n].present} \ w.local
First(w, p) == CHOOSE j \in DOMAIN w.neigh : w.neigh[j].orig = p[1]
IsCost(w, d, p, f) ==
    \A k \in 1 .. Len(p) : f[k] = IF k = 1 THEN MetricOut(w.neigh[First(w, p)])
                                  ELSE f[k - 1] + d.edge[p[k - 1]][p[k]].cost
UsableIn(w, d, i) ==
    /\ i \in DOMAIN w.neigh /\ Symmetric(w.neigh[i])
    /\ MetricIn(w.neigh[i]) < Infinite /\ MetricOut(w.neigh[i]) < Infinite

(* A path: what NodePaths says of it.                                      *)
IsPath(w, d, p) ==
    /\ Len(p) \in 1 .. Cardinality(Nodes) /\ p \in [1 .. Len(p) -> Present(w, d)]
    /\ \E i : UsableIn(w, d, i) /\ w.neigh[i].orig = p[1]
    /\ \A j, k \in 1 .. Len(p) : p[j] = p[k] => j = k
    /\ \A k \in 2 .. Len(p) :
         p[k] \in RealEdges(d, p[k - 1]) /\ d.edge[p[k - 1]][p[k]].cost < Infinite

(* NodePaths has the paths, and nothing else.                              *)
LEMMA Paths ==
    ASSUME NEW w, NEW d
    PROVE  \A p : p \in NodePaths(w, d) <=> IsPath(w, d, p)
<1>1. Cardinality(Nodes) \in Nat
  BY SurroundingsAssumption, FS_CardinalityType
<1>2. \A p, k : k \in Nat /\ p \in [1 .. k -> Present(w, d)] => Len(p) = k /\ DOMAIN p = 1 .. k
  OBVIOUS
<1>3. ASSUME NEW p, p \in NodePaths(w, d)
      PROVE  IsPath(w, d, p)
  <2>1. PICK k \in 1 .. Cardinality(Nodes) : p \in [1 .. k -> Present(w, d)]
    BY <1>3 DEF NodePaths, Present
  <2>2. Len(p) = k /\ DOMAIN p = 1 .. k
    BY <1>1, <1>2, <2>1
  <2>3. \E i : UsableIn(w, d, i) /\ w.neigh[i].orig = p[1]
    BY <1>3 DEF NodePaths, UsableIn
  <2>4. \A i, j \in 1 .. Len(p) : p[i] = p[j] => i = j
    BY <1>3, <2>2 DEF NodePaths, IsInjective
  <2>5. \A j \in 2 .. Len(p) :
          p[j] \in RealEdges(d, p[j - 1]) /\ d.edge[p[j - 1]][p[j]].cost < Infinite
    BY <1>3 DEF NodePaths
  <2> QED
    BY <2>1, <2>2, <2>3, <2>4, <2>5 DEF IsPath
<1>4. ASSUME NEW p, IsPath(w, d, p)
      PROVE  p \in NodePaths(w, d)
  <2>1. p \in UNION {[1 .. k -> {n \in Nodes : d.node[n].present} \ w.local] :
                       k \in 1 .. Cardinality(Nodes)}
    BY <1>4 DEF IsPath, Present
  <2>2. \E i \in DOMAIN w.neigh :
            /\ w.neigh[i].orig = p[1] /\ Symmetric(w.neigh[i])
            /\ MetricIn(w.neigh[i]) < Infinite /\ MetricOut(w.neigh[i]) < Infinite
    BY <1>4 DEF IsPath, UsableIn
  <2>3. IsInjective(p)
    BY <1>4 DEF IsPath, IsInjective
  <2>4. \A k \in 2 .. Len(p) :
          p[k] \in RealEdges(d, p[k - 1]) /\ d.edge[p[k - 1]][p[k]].cost < Infinite
    BY <1>4 DEF IsPath
  <2> QED
    BY <2>1, <2>2, <2>3, <2>4 DEF NodePaths
<1> QED
  BY <1>3, <1>4

(* The metrics of a database are numbers.                                  *)
LEMMA Metrics ==
    ASSUME NEW d \in DbType
    PROVE  /\ \A a, b \in Nodes : d.edge[a][b].cost \in Nat
           /\ \A n \in Nodes, p \in Prefixes : d.att[n][p].cost \in Nat
<1>1. Metric \subseteq Nat
  BY DEF Metric, Infinite
<1>2. \A a, b \in Nodes : d.edge[a][b].cost \in Metric
  BY DEF DbType, EdgeType
<1>3. \A n \in Nodes, p \in Prefixes : d.att[n][p].cost \in Metric
  BY DEF DbType, AttType
<1> QED
  BY <1>1, <1>2, <1>3

(* The neighbor a path begins with is the one with that originator.        *)
LEMMA FirstValue ==
    ASSUME NEW w \in Surroundings, NEW d, NEW p, NEW i, UsableIn(w, d, i),
           w.neigh[i].orig = p[1]
    PROVE  First(w, p) = i
BY Surrounding DEF First, UsableIn

(* The cost of a path, node by node.                                       *)
LEMMA PathWayValue ==
    ASSUME NEW w \in Surroundings, NEW d \in DbType, NEW p, IsPath(w, d, p)
    PROVE  \E f : /\ IsCost(w, d, p, f) /\ \A k \in 1 .. Len(p) : f[k] \in Nat
                  /\ PathWay(w, d, p) = [cost |-> f[Len(p)], hop |-> First(w, p)]
<1> DEFINE N == Len(p)
           M == MetricOut(w.neigh[First(w, p)])
           E(k) == d.edge[p[k - 1]][p[k]].cost
           step == [k \in Nat |-> [x \in Nat |->
                      IF k = 1 THEN M ELSE IF k \in 2 .. N THEN x + E(k) ELSE x]]
           h == CHOOSE f : f = [k \in 1 .. N |-> IF k = 1 THEN M ELSE f[k - 1] + E(k)]
<1>1. N \in Nat /\ N >= 1
  BY DEF IsPath
<1>2. M \in Nat
  <2>1. PICK i : UsableIn(w, d, i) /\ w.neigh[i].orig = p[1]
    BY DEF IsPath
  <2>2. First(w, p) = i
    BY <2>1, FirstValue
  <2> QED
    BY <2>1, <2>2, Surrounding DEF UsableIn
<1>3. \A k \in 2 .. N : E(k) \in Nat
  <2>1. \A k \in 1 .. N : p[k] \in Nodes
    BY DEF IsPath, Present
  <2> QED
    BY <1>1, <2>1, Metrics
<1>4. PathWay(w, d, p) = [cost |-> h[N], hop |-> First(w, p)]
  BY DEF PathWay, First
<1> HIDE DEF M, E, N
<1>5. step \in [Nat -> [Nat -> Nat]]
  BY <1>2, <1>3
<1>6. PICK g \in [0 .. N -> Nat] : Loop(g, M, N, step)
  <2> HIDE DEF step
  <2> QED
    BY <1>1, <1>2, <1>5, LoopRuns
<1> DEFINE f == [k \in 1 .. N |-> g[k]]
<1>7. ASSUME NEW k \in 1 .. N
      PROVE  f[k] = IF k = 1 THEN M ELSE f[k - 1] + E(k)
  <2>1. k \in 0 .. N /\ k /= 0 /\ k - 1 \in 0 .. N /\ g[k - 1] \in Nat /\ k \in Nat
    BY <1>1, <1>6
  <2>2. g[k] = step[k][g[k - 1]]
    BY <1>6, <2>1 DEF Loop
  <2>3. g[k] = IF k = 1 THEN M ELSE g[k - 1] + E(k)
    BY <1>1, <2>1, <2>2
  <2> QED
    BY <1>1, <2>1, <2>3
<1> HIDE DEF step
<1>8. f = [k \in 1 .. N |-> IF k = 1 THEN M ELSE f[k - 1] + E(k)]
  <2>1. f = [k \in 1 .. N |-> f[k]]
    OBVIOUS
  <2> HIDE DEF f
  <2> QED
    BY <1>7, <2>1
<1> HIDE DEF f
<1>9. h = [k \in 1 .. N |-> IF k = 1 THEN M ELSE h[k - 1] + E(k)]
  BY <1>8
<1>10. \A k \in 1 .. N : h[k] = IF k = 1 THEN M ELSE h[k - 1] + E(k)
  <2> HIDE DEF h
  <2> QED
    BY <1>9
<1> HIDE DEF h
<1>11. \A k \in 1 .. N : h[k] \in Nat
  <2> DEFINE P == {k \in Nat : k + 1 <= N => h[k + 1] \in Nat}
  <2>1. 0 \in P
    BY <1>1, <1>2, <1>10
  <2>2. ASSUME NEW k \in Nat, k \in P
        PROVE  k + 1 \in P
    <3> SUFFICES ASSUME k + 2 <= N
                 PROVE  h[k + 2] \in Nat
      OBVIOUS
    <3>1. h[k + 1] \in Nat /\ k + 2 \in 1 .. N /\ k + 2 \in 2 .. N /\ (k + 2) - 1 = k + 1 /\ k + 2 /= 1
      BY <1>1, <2>2
    <3>2. h[k + 2] = h[k + 1] + E(k + 2)
      BY <1>10, <3>1
    <3> QED
      BY <1>3, <3>1, <3>2
  <2>3. Nat \subseteq P
    <3> HIDE DEF P
    <3> QED
      BY <2>1, <2>2, Induction
  <2>4. ASSUME NEW k \in 1 .. N
        PROVE  h[k] \in Nat
    <3> DEFINE j == k - 1
    <3>1. j \in Nat /\ j + 1 = k
      BY <1>1
    <3>2. j \in P
      <4> HIDE DEF P, j
      <4> QED
        BY <2>3, <3>1
    <3> HIDE DEF j
    <3> QED
      BY <1>1, <3>1, <3>2
  <2> QED
    BY <2>4
<1>12. IsCost(w, d, p, h)
  BY <1>10 DEF IsCost, N, M, E
<1> QED
  BY <1>4, <1>11, <1>12 DEF N

(* A path to n of this cost and first hop; its nodes before n are in D.    *)
Reached(w, d, n, c, h, D) ==
    \E p : /\ IsPath(w, d, p) /\ p[Len(p)] = n
           /\ PathWay(w, d, p) = [cost |-> c, hop |-> h]
           /\ \A k \in 1 .. Len(p) : k /= Len(p) => p[k] \in D

(* The path of a usable neighbor alone.                                    *)
LEMMA FirstPath ==
    ASSUME NEW w \in Surroundings, NEW d \in DbType, NEW i, UsableIn(w, d, i),
           w.neigh[i].orig \in Present(w, d), NEW D
    PROVE  Reached(w, d, w.neigh[i].orig, MetricOut(w.neigh[i]), i, D)
<1> DEFINE n == w.neigh[i].orig
           p == [k \in 1 .. 1 |-> n]
<1>1. p \in [1 .. 1 -> Present(w, d)] /\ p[1] = n
  OBVIOUS
<1>2. Len(p) = 1
  BY <1>1
<1>3. Cardinality(Nodes) \in Nat /\ Cardinality(Nodes) >= 1
  <2>1. IsFiniteSet(Nodes) /\ n \in Nodes
    BY SurroundingsAssumption DEF Present
  <2> HIDE DEF n
  <2> QED
    BY <2>1, FS_CardinalityType, FS_EmptySet
<1> HIDE DEF p, n
<1>4. n = w.neigh[i].orig
  BY DEF n
<1>5. IsPath(w, d, p)
  BY <1>1, <1>2, <1>3, <1>4 DEF IsPath
<1>6. First(w, p) = i
  BY <1>1, <1>4, FirstValue
<1>7. PICK f : /\ IsCost(w, d, p, f)
               /\ PathWay(w, d, p) = [cost |-> f[Len(p)], hop |-> First(w, p)]
  BY <1>5, PathWayValue
<1>8. f[1] = MetricOut(w.neigh[i])
  BY <1>2, <1>6, <1>7 DEF IsCost
<1>9. PathWay(w, d, p) = [cost |-> MetricOut(w.neigh[i]), hop |-> i]
  BY <1>2, <1>6, <1>7, <1>8
<1>10. p[Len(p)] = n /\ \A k \in 1 .. Len(p) : k = Len(p)
  BY <1>1, <1>2
<1> QED
  BY <1>4, <1>5, <1>9, <1>10 DEF Reached

(* Two paths with the same beginning cost the same along it.               *)
LEMMA SameCost ==
    ASSUME NEW w, NEW d, NEW p, NEW q, NEW f, NEW g, IsCost(w, d, p, f), IsCost(w, d, q, g),
           Len(p) \in Nat, Len(q) \in Nat, Len(p) <= Len(q), p[1] = q[1],
           \A k \in 1 .. Len(p) : p[k] = q[k]
    PROVE  \A k \in 1 .. Len(p) : f[k] = g[k]
<1> DEFINE N == Len(p)
           P == {k \in Nat : k + 1 <= N => f[k + 1] = g[k + 1]}
<1>1. First(w, p) = First(w, q)
  BY DEF First
<1>2. 0 \in P
  BY <1>1 DEF IsCost
<1>3. ASSUME NEW k \in Nat, k \in P
      PROVE  k + 1 \in P
  <2> SUFFICES ASSUME k + 2 <= N
               PROVE  f[k + 2] = g[k + 2]
    OBVIOUS
  <2> DEFINE j == k + 2
  <2>1. /\ j \in 1 .. N /\ j \in 1 .. Len(q) /\ j /= 1 /\ j - 1 \in 1 .. N /\ j - 1 = k + 1
        /\ f[j - 1] = g[j - 1]
    BY <1>3
  <2> HIDE DEF j
  <2>2. f[j] = f[j - 1] + d.edge[p[j - 1]][p[j]].cost
    BY <2>1 DEF IsCost
  <2>3. g[j] = g[j - 1] + d.edge[q[j - 1]][q[j]].cost
    BY <2>1 DEF IsCost
  <2>4. p[j - 1] = q[j - 1] /\ p[j] = q[j]
    BY <2>1
  <2> QED
    BY <2>1, <2>2, <2>3, <2>4 DEF j
<1>4. Nat \subseteq P
  <2> HIDE DEF P
  <2> QED
    BY <1>2, <1>3, Induction
<1>5. ASSUME NEW k \in 1 .. N
      PROVE  f[k] = g[k]
  <2> DEFINE j == k - 1
  <2>1. j \in Nat /\ j + 1 = k
    OBVIOUS
  <2>2. j \in P
    <3> HIDE DEF P, j
    <3> QED
      BY <1>4, <2>1
  <2> HIDE DEF j
  <2> QED
    BY <2>1, <2>2
<1> QED
  BY <1>5

(* One edge further, to a node that is not on the path.                    *)
LEMMA LongerPath ==
    ASSUME NEW w \in Surroundings, NEW d \in DbType, Paired(d), NEW n, NEW c \in Nat, NEW h, NEW D,
           Reached(w, d, n, c, h, D), NEW o \in Nodes, o \in RealEdges(d, n),
           d.edge[n][o].cost < Infinite, o \notin w.local, o \notin D, o /= n
    PROVE  Reached(w, d, o, c + d.edge[n][o].cost, h, D \cup {n})
<1>1. PICK p : /\ IsPath(w, d, p) /\ p[Len(p)] = n
               /\ PathWay(w, d, p) = [cost |-> c, hop |-> h]
               /\ \A k \in 1 .. Len(p) : k /= Len(p) => p[k] \in D
  BY DEF Reached
<1> DEFINE N == Len(p)
           q == [k \in 1 .. N + 1 |-> IF k <= N THEN p[k] ELSE o]
<1>2. Len(p) \in Nat /\ Len(p) >= 1 /\ \A k \in 1 .. Len(p) : p[k] \in Present(w, d)
  <2>1. Cardinality(Nodes) \in Nat
    BY SurroundingsAssumption, FS_CardinalityType
  <2>2. Len(p) \in 1 .. Cardinality(Nodes) /\ p \in [1 .. Len(p) -> Present(w, d)]
    BY <1>1 DEF IsPath
  <2> QED
    BY <2>1, <2>2
<1>3. o \in Present(w, d)
  <2>1. n \in Nodes
    BY <1>1, <1>2 DEF Present
  <2>2. d.edge[n][o].present
    BY DEF RealEdges, EdgesOf
  <2>3. d.node[o].present
    BY <2>1, <2>2 DEF Paired
  <2> QED
    BY <2>3 DEF Present
<1>4. /\ q \in [1 .. N + 1 -> Present(w, d)] /\ \A k \in 1 .. N : q[k] = p[k]
      /\ q[N + 1] = o
  BY <1>2, <1>3
<1>5. Len(q) = N + 1
  BY <1>2, <1>4
<1> HIDE DEF N, q
<1>6. N = Len(p) /\ N \in Nat /\ N >= 1
  BY <1>2 DEF N
<1>7. \A k \in 1 .. N : p[k] \in D \cup {n}
  BY <1>1, <1>6
<1>8. \A j, k \in 1 .. N + 1 : q[j] = q[k] => j = k
  <2>1. \A j, k \in 1 .. N : q[j] = q[k] => j = k
    <3>1. \A j, k \in 1 .. N : p[j] = p[k] => j = k
      BY <1>1, <1>6 DEF IsPath
    <3> QED
      BY <1>4, <3>1
  <2>2. \A k \in 1 .. N : q[k] /= o
    BY <1>4, <1>7
  <2> QED
    BY <1>4, <1>6, <2>1, <2>2
<1>9. N + 1 \in 1 .. Cardinality(Nodes)
  <2>1. q \in Injection(1 .. N + 1, Nodes)
    BY <1>4, <1>8 DEF Injection, IsInjective, Present
  <2>2. IsFiniteSet(Nodes) /\ Cardinality(Nodes) \in Nat
    BY SurroundingsAssumption, FS_CardinalityType
  <2>3. Cardinality(1 .. N + 1) <= Cardinality(Nodes)
    BY <2>1, <2>2, FS_Injection
  <2>4. Cardinality(1 .. N + 1) = N + 1
    <3>1. 1 \in Int /\ N + 1 \in Int /\ ~(1 > N + 1) /\ (N + 1) - 1 + 1 = N + 1
      BY <1>6
    <3> QED
      BY <3>1, FS_Interval
  <2> QED
    BY <1>6, <2>2, <2>3, <2>4
<1>10. p[1] = q[1]
  BY <1>4, <1>6
<1>11. IsPath(w, d, q)
  <2>1. \E i : UsableIn(w, d, i) /\ w.neigh[i].orig = q[1]
    BY <1>1, <1>10 DEF IsPath
  <2>2. ASSUME NEW k \in 2 .. N + 1
        PROVE  q[k] \in RealEdges(d, q[k - 1]) /\ d.edge[q[k - 1]][q[k]].cost < Infinite
    <3>1. CASE k = N + 1
      <4>1. k - 1 = N /\ N \in 1 .. N
        BY <1>6, <3>1
      <4>2. q[k - 1] = n /\ q[k] = o
        BY <1>1, <1>4, <1>6, <3>1, <4>1
      <4> QED
        BY <4>2
    <3>2. CASE k /= N + 1
      <4>1. k \in 2 .. N /\ k \in 1 .. N /\ k - 1 \in 1 .. N
        BY <1>6, <3>2
      <4>2. q[k - 1] = p[k - 1] /\ q[k] = p[k]
        BY <1>4, <4>1
      <4> QED
        BY <1>1, <1>6, <4>1, <4>2 DEF IsPath
    <3> QED
      BY <3>1, <3>2
  <2> QED
    BY <1>4, <1>5, <1>8, <1>9, <2>1, <2>2 DEF IsPath
<1>12. PICK f : /\ IsCost(w, d, p, f)
                /\ PathWay(w, d, p) = [cost |-> f[Len(p)], hop |-> First(w, p)]
  BY <1>1, PathWayValue
<1>13. PICK g : /\ IsCost(w, d, q, g)
                /\ PathWay(w, d, q) = [cost |-> g[Len(q)], hop |-> First(w, q)]
  BY <1>11, PathWayValue
<1>14. f[N] = g[N]
  <2>1. \A k \in 1 .. Len(p) : f[k] = g[k]
    BY <1>4, <1>5, <1>6, <1>10, <1>12, <1>13, SameCost
  <2> QED
    BY <1>6, <2>1
<1>15. f[N] = c /\ First(w, p) = h
  BY <1>1, <1>6, <1>12
<1>16. g[N + 1] = c + d.edge[n][o].cost
  <2>1. N + 1 \in 1 .. Len(q) /\ N + 1 /= 1 /\ (N + 1) - 1 = N
    BY <1>5, <1>6
  <2>2. g[N + 1] = g[N] + d.edge[q[N]][q[N + 1]].cost
    BY <1>13, <2>1 DEF IsCost
  <2>3. q[N] = n
    BY <1>1, <1>4, <1>6
  <2> QED
    BY <1>4, <1>14, <1>15, <2>2, <2>3
<1>17. First(w, q) = First(w, p)
  BY <1>10 DEF First
<1>18. \A k \in 1 .. Len(q) : k /= Len(q) => q[k] \in D \cup {n}
  BY <1>4, <1>5, <1>6, <1>7
<1> QED
  BY <1>4, <1>5, <1>11, <1>13, <1>15, <1>16, <1>17, <1>18 DEF Reached

(* Where a node leads, unless it is the router itself.                     *)
Open(w, d, n) == {o \in RealEdges(d, n) : d.edge[n][o].cost < Infinite} \ w.local
Near(d, n) == {p \in NetsOf(d, n) : d.att[n][p].cost < Infinite}

(* No path is shorter than what is known of its end, when the neighbors    *)
(* and the edges of every known node are known.                            *)
LEMMA NoShorterPath ==
    ASSUME NEW w \in Surroundings, NEW d \in DbType, Paired(d), NEW D, NEW cost,
           \A n \in D : cost[n] \in Nat,
           \A i : UsableIn(w, d, i) /\ w.neigh[i].orig \in Present(w, d) =>
                    w.neigh[i].orig \in D /\ cost[w.neigh[i].orig] <= MetricOut(w.neigh[i]),
           \A n \in D \cap Nodes : \A o \in Open(w, d, n) :
             o \in D /\ cost[o] <= cost[n] + d.edge[n][o].cost,
           NEW p, IsPath(w, d, p)
    PROVE  p[Len(p)] \in D /\ cost[p[Len(p)]] <= PathWay(w, d, p).cost
<1>1. PICK f : /\ IsCost(w, d, p, f) /\ \A k \in 1 .. Len(p) : f[k] \in Nat
               /\ PathWay(w, d, p) = [cost |-> f[Len(p)], hop |-> First(w, p)]
  BY PathWayValue
<1> DEFINE N == Len(p)
           P == {k \in Nat : k + 1 <= N => p[k + 1] \in D /\ cost[p[k + 1]] <= f[k + 1]}
<1>2. N \in Nat /\ N >= 1 /\ \A k \in 1 .. N : p[k] \in Present(w, d)
  <2>1. Cardinality(Nodes) \in Nat
    BY SurroundingsAssumption, FS_CardinalityType
  <2>2. Len(p) \in 1 .. Cardinality(Nodes) /\ p \in [1 .. Len(p) -> Present(w, d)]
    BY DEF IsPath
  <2> QED
    BY <2>1, <2>2
<1>3. 0 \in P
  <2>1. PICK i : UsableIn(w, d, i) /\ w.neigh[i].orig = p[1]
    BY DEF IsPath
  <2>2. First(w, p) = i
    BY <2>1, FirstValue
  <2>3. f[1] = MetricOut(w.neigh[i])
    BY <1>1, <1>2, <2>2 DEF IsCost
  <2>4. p[1] \in Present(w, d)
    BY <1>2
  <2>5. p[1] \in D /\ cost[p[1]] <= f[1]
    BY <2>1, <2>3, <2>4
  <2> QED
    BY <2>5
<1>4. ASSUME NEW k \in Nat, k \in P
      PROVE  k + 1 \in P
  <2> SUFFICES ASSUME k + 2 <= N
               PROVE  p[k + 2] \in D /\ cost[p[k + 2]] <= f[k + 2]
    OBVIOUS
  <2> DEFINE j == k + 2
             i == k + 1
  <2>1. /\ j \in 1 .. N /\ j \in 2 .. N /\ j /= 1 /\ i \in 1 .. N /\ j - 1 = i
        /\ p[i] \in D /\ cost[p[i]] <= f[i]
    BY <1>2, <1>4
  <2> HIDE DEF i, j
  <2>2. f[j] = f[i] + d.edge[p[i]][p[j]].cost
    BY <1>1, <2>1 DEF IsCost
  <2>3. p[j] \in RealEdges(d, p[i]) /\ d.edge[p[i]][p[j]].cost < Infinite
    BY <2>1 DEF IsPath
  <2>4. p[i] \in Nodes /\ p[j] \in Nodes /\ p[j] \notin w.local
    BY <1>2, <2>1 DEF Present
  <2>5. p[j] \in Open(w, d, p[i])
    BY <2>3, <2>4 DEF Open
  <2>6. p[j] \in D /\ cost[p[j]] <= cost[p[i]] + d.edge[p[i]][p[j]].cost
    BY <2>1, <2>4, <2>5
  <2>7. d.edge[p[i]][p[j]].cost \in Nat /\ cost[p[i]] \in Nat /\ cost[p[j]] \in Nat
        /\ f[i] \in Nat /\ f[j] \in Nat
    BY <1>1, <2>1, <2>4, <2>6, Metrics
  <2>8. p[j] \in D /\ cost[p[j]] <= f[j]
    BY <2>1, <2>2, <2>6, <2>7
  <2> QED
    BY <2>8 DEF j
<1>5. Nat \subseteq P
  <2> HIDE DEF P
  <2> QED
    BY <1>3, <1>4, Induction
<1>6. p[N] \in D /\ cost[p[N]] <= f[N]
  <2> DEFINE j == N - 1
  <2>1. j \in Nat /\ j + 1 = N
    BY <1>2
  <2>2. j \in P
    <3> HIDE DEF P, j
    <3> QED
      BY <1>5, <2>1
  <2> HIDE DEF j
  <2> QED
    BY <1>2, <2>1, <2>2
<1> QED
  BY <1>1, <1>6

(* The four kinds of ways that the reference counts.                       *)
PathWays(w, d, n, more) ==
    {[PathWay(w, d, p) EXCEPT !.cost = @ + more] :
       p \in {q \in NodePaths(w, d) : q[Len(q)] = n}}
NetWays(w, d, x) ==
    UNION {PathWays(w, d, n, d.att[n][x].cost) :
             n \in {m \in Nodes : x \in NetsOf(d, m) /\ d.att[m][x].cost < Infinite}}
Heard(w) == {i \in DOMAIN w.neigh : Symmetric(w.neigh[i]) /\ MetricOut(w.neigh[i]) < Infinite}
AddrWays(w, x) ==
    {[cost |-> MetricOut(w.neigh[i]), hop |-> i] : i \in {j \in Heard(w) : x \in w.neigh[j].addrs}}
LinkWays(w, x, i) ==
    {[cost |-> MetricOut(w.neigh[i]) + l.two[x], hop |-> i] :
       l \in {k \in Range(w.neigh[i].links) : x \in DOMAIN k.two /\ k.two[x] < Infinite}}
TwoHopWays(w, x) == UNION {LinkWays(w, x, i) : i \in Heard(w)}

(* WaysTo is made of these four.                                           *)
LEMMA WaysToValue ==
    ASSUME NEW w, NEW d, NEW x
    PROVE  WaysTo(w, d, NodePaths(w, d), x) =
             (IF x \in Nodes THEN PathWays(w, d, x, 0) ELSE {})
             \cup NetWays(w, d, x) \cup AddrWays(w, x) \cup TwoHopWays(w, x)
<1> DEFINE paths == NodePaths(w, d)
           reach(n, more) == {[PathWay(w, d, p) EXCEPT !.cost = @ + more] :
                                p \in {q \in paths : q[Len(q)] = n}}
           heard == {i \in DOMAIN w.neigh :
                       Symmetric(w.neigh[i]) /\ MetricOut(w.neigh[i]) < Infinite}
           here == IF x \in Nodes THEN reach(x, 0) ELSE {}
           nets == UNION {reach(n, d.att[n][x].cost) :
                            n \in {m \in Nodes : x \in NetsOf(d, m) /\ d.att[m][x].cost < Infinite}}
           addrs == {[cost |-> MetricOut(w.neigh[i]), hop |-> i] :
                       i \in {j \in heard : x \in w.neigh[j].addrs}}
           two == UNION {{[cost |-> MetricOut(w.neigh[i]) + l.two[x], hop |-> i] :
                            l \in {k \in Range(w.neigh[i].links) :
                                     x \in DOMAIN k.two /\ k.two[x] < Infinite}} : i \in heard}
<1>1. WaysTo(w, d, paths, x) = here \cup nets \cup addrs \cup two
  BY Zenon DEF WaysTo
<1>2. here = IF x \in Nodes THEN PathWays(w, d, x, 0) ELSE {}
  BY Zenon DEF PathWays
<1>3. nets = NetWays(w, d, x)
  BY Zenon DEF NetWays, PathWays
<1>4. addrs = AddrWays(w, x)
  BY Zenon DEF AddrWays, Heard
<1>5. two = TwoHopWays(w, x)
  BY Zenon DEF TwoHopWays, LinkWays, Heard
<1> HIDE DEF here, nets, addrs, two
<1> QED
  BY <1>1, <1>2, <1>3, <1>4, <1>5

(* A path to n is a way to n, and one beyond n.                            *)
LEMMA ReachedWay ==
    ASSUME NEW w, NEW d, NEW n, NEW c, NEW h, NEW D, Reached(w, d, n, c, h, D), NEW a
    PROVE  [cost |-> c + a, hop |-> h] \in PathWays(w, d, n, a)
<1>1. PICK p : /\ IsPath(w, d, p) /\ p[Len(p)] = n
               /\ PathWay(w, d, p) = [cost |-> c, hop |-> h]
  BY DEF Reached
<1>2. p \in {q \in NodePaths(w, d) : q[Len(q)] = n}
  BY <1>1, Paths
<1>3. [PathWay(w, d, p) EXCEPT !.cost = @ + a] = [cost |-> c + a, hop |-> h]
  BY <1>1
<1> QED
  BY <1>2, <1>3 DEF PathWays

(* A path to a node is a way to it.                                        *)
LEMMA NodeIsWay ==
    ASSUME NEW w, NEW d, NEW n \in Nodes, NEW c \in Nat, NEW h, NEW D, Reached(w, d, n, c, h, D)
    PROVE  IsWay(w, d, n, c, h)
<1>1. [cost |-> c + 0, hop |-> h] \in PathWays(w, d, n, 0)
  BY ReachedWay
<1>2. c + 0 = c
  OBVIOUS
<1> QED
  BY <1>1, <1>2, WaysToValue DEF IsWay

(* And one to the networks of the node.                                    *)
LEMMA NetIsWay ==
    ASSUME NEW w, NEW d \in DbType, NEW n \in Nodes, NEW c \in Nat, NEW h, NEW D,
           Reached(w, d, n, c, h, D), NEW x \in Near(d, n)
    PROVE  IsWay(w, d, x, c + d.att[n][x].cost, h)
<1>1. [cost |-> c + d.att[n][x].cost, hop |-> h] \in PathWays(w, d, n, d.att[n][x].cost)
  BY ReachedWay
<1>2. x \in NetsOf(d, n) /\ d.att[n][x].cost < Infinite
  BY DEF Near
<1>3. [cost |-> c + d.att[n][x].cost, hop |-> h] \in NetWays(w, d, x)
  BY <1>1, <1>2 DEF NetWays
<1> QED
  BY <1>3, WaysToValue DEF IsWay

(* The addresses of a neighbor, and those behind its links.                *)
LEMMA NeighborIsWay ==
    ASSUME NEW w, NEW d, NEW i \in Heard(w)
    PROVE  /\ \A x \in w.neigh[i].addrs : IsWay(w, d, x, MetricOut(w.neigh[i]), i)
           /\ \A k \in DOMAIN w.neigh[i].links :
                LET two == w.neigh[i].links[k].two IN
                \A x \in DOMAIN two :
                  two[x] < Infinite => IsWay(w, d, x, MetricOut(w.neigh[i]) + two[x], i)
<1>1. ASSUME NEW x \in w.neigh[i].addrs
      PROVE  IsWay(w, d, x, MetricOut(w.neigh[i]), i)
  <2>1. [cost |-> MetricOut(w.neigh[i]), hop |-> i] \in AddrWays(w, x)
    BY DEF AddrWays
  <2> QED
    BY <2>1, WaysToValue DEF IsWay
<1>2. ASSUME NEW k \in DOMAIN w.neigh[i].links, NEW x \in DOMAIN w.neigh[i].links[k].two,
             w.neigh[i].links[k].two[x] < Infinite
      PROVE  IsWay(w, d, x, MetricOut(w.neigh[i]) + w.neigh[i].links[k].two[x], i)
  <2>1. w.neigh[i].links[k] \in Range(w.neigh[i].links)
    BY DEF Range
  <2>2. [cost |-> MetricOut(w.neigh[i]) + w.neigh[i].links[k].two[x], hop |-> i] \in LinkWays(w, x, i)
    BY <1>2, <2>1 DEF LinkWays
  <2>3. [cost |-> MetricOut(w.neigh[i]) + w.neigh[i].links[k].two[x], hop |-> i] \in TwoHopWays(w, x)
    BY <2>2 DEF TwoHopWays
  <2> QED
    BY <2>3, WaysToValue DEF IsWay
<1> QED
  BY <1>1, <1>2

-----------------------------------------------------------------------------
(* Handling a target.  What it reaches: its endpoints of one node get      *)
(* their entry at once, all else but the router itself goes to the queue.  *)
Alone(d) == {p \in Prefixes : \E n \in Nodes : d.end[p].nodes = {n}}
Singles(d, n) == {p \in Near(d, n) : n \in Nodes /\ d.end[p].nodes = {n}}
Beyond(w, d, n) ==
    {o \in Targets \ w.local :
       n \in Nodes /\ (o \in Open(w, d, n) \/ o \in Near(d, n) \ Singles(d, n))}
Step(d, n, o) == IF o \in Nodes THEN d.edge[n][o].cost ELSE d.att[n][o].cost
New(w, d, s, t) ==
    {o \in Beyond(w, d, t) \ (s.done \cup {t}) :
       o \in s.queue => s.way[t].cost + Step(d, t, o) < s.way[o].cost}
Handled(w, d, s, t, r) ==
    /\ IsRun(r) /\ r.local = s.local
    /\ r.queue = (s.queue \ {t}) \cup New(w, d, s, t)
    /\ r.done = s.done \cup {t} \cup Singles(d, t)
    /\ \A u \in Targets :
         IF u \in New(w, d, s, t)
         THEN r.way[u].cost = s.way[t].cost + Step(d, t, u) /\ r.way[u].hop = s.way[t].hop
         ELSE r.way[u] = s.way[u]
    /\ Honest(w, d, r.rt)
    /\ \A x \in Dests, c \in Nat : Covered(w, s.rt, x, c) => Covered(w, r.rt, x, c)
    /\ Covered(w, r.rt, t, s.way[t].cost)
    /\ \A p \in Singles(d, t) : Covered(w, r.rt, p, s.way[t].cost + d.att[t][p].cost)

(* What a target reaches lies at the end of an edge or an attachment, and  *)
(* a network of one node only is never put into the queue.                 *)
LEMMA BeyondValue ==
    ASSUME NEW w, NEW d \in DbType, Attached(d), NEW n \in Nodes
    PROVE  /\ \A o \in Beyond(w, d, n) : /\ o \in Targets /\ o \notin w.local /\ o \notin Alone(d)
                                         /\ Step(d, n, o) \in Nat
           /\ \A p \in Singles(d, n) : p \in Prefixes /\ p \in Alone(d) /\ d.att[n][p].cost \in Nat
<1>1. Nodes \cap Prefixes = {}
  BY SurroundingsAssumption
<1>2. \A o \in Open(w, d, n) : o \in Nodes
  BY DEF Open, RealEdges, EdgesOf
<1>3. \A p \in Near(d, n) : p \in Prefixes /\ d.att[n][p].present
  BY DEF Near, NetsOf
<1>4. \A p \in Near(d, n) : n \in d.end[p].nodes
  BY <1>3 DEF Attached
<1>5. ASSUME NEW o \in Beyond(w, d, n)
      PROVE  o \in Targets /\ o \notin w.local /\ o \notin Alone(d) /\ Step(d, n, o) \in Nat
  <2>1. o \in Nodes => o \notin Alone(d) /\ Step(d, n, o) \in Nat
    BY <1>1, Metrics DEF Alone, Step
  <2>2. o \in Near(d, n) \ Singles(d, n) => o \notin Alone(d) /\ Step(d, n, o) \in Nat
    BY <1>1, <1>3, <1>4, Metrics DEF Alone, Step, Singles
  <2> QED
    BY <1>2, <2>1, <2>2 DEF Beyond
<1>6. ASSUME NEW p \in Singles(d, n)
      PROVE  p \in Prefixes /\ p \in Alone(d) /\ d.att[n][p].cost \in Nat
  BY <1>3, Metrics DEF Singles, Alone
<1> QED
  BY <1>5, <1>6

(* What is queued has a way.                                               *)
Queued(w, d, s) ==
    \A t \in s.queue :
      /\ s.way[t].cost \in Nat /\ IsWay(w, d, t, s.way[t].cost, s.way[t].hop)
      /\ t \in Nodes => Reached(w, d, t, s.way[t].cost, s.way[t].hop, s.done)

(* The first thing that is done for a target: its entry.                   *)
LEMMA TargetEntry ==
    ASSUME NEW w, NEW d, NEW s, IsRun(s), s.queue \subseteq Targets,
           Honest(w, d, s.rt), Queued(w, d, s), NEW t \in s.queue
    PROVE  LET r == UpdateEntries(w, [s EXCEPT !.queue = @ \ {t}, !.done = @ \cup {t}],
                                  [x \in {t} |-> s.way[t]])
           IN  /\ IsRun(r) /\ r.queue = s.queue \ {t} /\ r.done = s.done \cup {t}
               /\ r.local = s.local /\ r.way = s.way /\ Honest(w, d, r.rt)
               /\ \A x \in Dests, c \in Nat : Covered(w, s.rt, x, c) => Covered(w, r.rt, x, c)
               /\ Covered(w, r.rt, t, s.way[t].cost)
<1> DEFINE h == [s EXCEPT !.queue = s.queue \ {t}, !.done = s.done \cup {t}]
           ways == [x \in {t} |-> s.way[t]]
           r == UpdateEntries(w, h, ways)
<1>1. h = RunOf(s.queue \ {t}, s.done \cup {t}, s.local, s.way, s.rt)
  BY RunWrites
<1>2. DOMAIN ways = {t} /\ ways[t] = s.way[t]
  OBVIOUS
<1>3. t \in Dests /\ s.way[t].cost \in Nat /\ IsWay(w, d, t, s.way[t].cost, s.way[t].hop)
  BY DEF Queued, Dests
<1> HIDE DEF h, ways
<1>4. /\ IsRun(h) /\ h.queue = s.queue \ {t} /\ h.done = s.done \cup {t} /\ h.local = s.local
      /\ h.way = s.way /\ h.rt = s.rt
  BY <1>1, RunFields
<1>5. AreWays(w, d, ways)
  BY <1>2, <1>3 DEF AreWays
<1>6. /\ IsRun(r) /\ r.queue = h.queue /\ r.done = h.done /\ r.local = h.local
      /\ r.way = h.way /\ Honest(w, d, r.rt)
      /\ \A x \in Dests, c \in Nat : Covered(w, h.rt, x, c) => Covered(w, r.rt, x, c)
      /\ \A x \in DOMAIN ways : Covered(w, r.rt, x, ways[x].cost)
  <2>1. Entered(w, d, h, ways, r)
    BY <1>4, <1>5, UpdateEntriesKeeps
  <2> QED
    BY <2>1 DEF Entered
<1>7. Covered(w, r.rt, t, s.way[t].cost)
  BY <1>2, <1>6
<1>8. r = UpdateEntries(w, [s EXCEPT !.queue = @ \ {t}, !.done = @ \cup {t}],
                        [x \in {t} |-> s.way[t]])
  BY DEF h, ways
<1> HIDE DEF r
<1> QED
  BY <1>4, <1>6, <1>7, <1>8

(* An attached network or prefix target has nothing beyond it.             *)
LEMMA PrefixHandled ==
    ASSUME NEW w, NEW d, NEW s, IsRun(s), s.queue \subseteq Targets,
           Honest(w, d, s.rt), Queued(w, d, s), NEW t \in s.queue, t \in Prefixes
    PROVE  Handled(w, d, s, t, Handle(w, d, s, t))
<1> DEFINE r == UpdateEntries(w, [s EXCEPT !.queue = @ \ {t}, !.done = @ \cup {t}],
                              [x \in {t} |-> s.way[t]])
<1>1. Handle(w, d, s, t) = r
  BY DEF Handle
<1>2. t \notin Nodes
  BY SurroundingsAssumption
<1>3. New(w, d, s, t) = {} /\ Singles(d, t) = {}
  BY <1>2 DEF New, Beyond, Singles
<1>4. /\ IsRun(r) /\ r.queue = s.queue \ {t} /\ r.done = s.done \cup {t}
      /\ r.local = s.local /\ r.way = s.way /\ Honest(w, d, r.rt)
      /\ \A x \in Dests, c \in Nat : Covered(w, s.rt, x, c) => Covered(w, r.rt, x, c)
      /\ Covered(w, r.rt, t, s.way[t].cost)
  BY TargetEntry
<1> HIDE DEF r
<1>5. \A u \in Targets :
         IF u \in New(w, d, s, t)
         THEN r.way[u].cost = s.way[t].cost + Step(d, t, u) /\ r.way[u].hop = s.way[t].hop
         ELSE r.way[u] = s.way[u]
  BY <1>3, <1>4
<1>6. r.queue = (s.queue \ {t}) \cup New(w, d, s, t) /\ r.done = s.done \cup {t} \cup Singles(d, t)
  BY <1>3, <1>4
<1> QED
  BY <1>1, <1>3, <1>4, <1>5, <1>6 DEF Handled

(* A node takes its neighbors and shared networks into the queue, and      *)
(* enters its own networks.                                                *)
LEMMA NodeHandled ==
    ASSUME NEW w, NEW d \in DbType, Attached(d), NEW s, IsRun(s),
           s.queue \subseteq Targets, s.local = w.local, Honest(w, d, s.rt), Queued(w, d, s),
           NEW t \in s.queue, t \in Nodes
    PROVE  Handled(w, d, s, t, Handle(w, d, s, t))
<1> DEFINE way == s.way[t]
           here == UpdateEntries(w, [s EXCEPT !.queue = @ \ {t}, !.done = @ \cup {t}],
                                 [x \in {t} |-> way])
           edges == {o \in RealEdges(d, t) : d.edge[t][o].cost < Infinite}
           nets == {p \in NetsOf(d, t) : d.att[t][p].cost < Infinite}
           single == {p \in nets : d.end[p].nodes = {t}}
           beyond == [o \in edges |-> Onward(way, d.edge[t][o].cost)]
           shared == [p \in nets \ single |-> Onward(way, d.att[t][p].cost)]
           alone == [p \in single |->
                       [Onward(way, d.att[t][p].cost) EXCEPT !.hops = (here.way[p].hops + 1) % 256]]
           first == Insert(here, beyond)
           inserted == Insert(first, shared)
           marked == [inserted EXCEPT !.done = @ \cup single]
           r == UpdateEntries(w, marked, alone)
<1>1. Handle(w, d, s, t) = r
  <2>1. t \notin Prefixes
    BY SurroundingsAssumption
  <2> QED
    BY <2>1 DEF Handle
<1>2. /\ IsRun(here) /\ here.queue = s.queue \ {t} /\ here.done = s.done \cup {t}
      /\ here.local = s.local /\ here.way = s.way /\ Honest(w, d, here.rt)
      /\ \A x \in Dests, c \in Nat : Covered(w, s.rt, x, c) => Covered(w, here.rt, x, c)
      /\ Covered(w, here.rt, t, s.way[t].cost)
  BY TargetEntry
<1>3. /\ edges \ w.local = Open(w, d, t) /\ nets = Near(d, t) /\ single = Singles(d, t)
      /\ edges \subseteq Nodes /\ nets \subseteq Prefixes
  BY DEF Open, Near, Singles, RealEdges, EdgesOf, NetsOf
<1>4. /\ DOMAIN beyond = edges
      /\ \A o \in edges : /\ beyond[o].cost = way.cost + d.edge[t][o].cost
                          /\ beyond[o].hop = way.hop
  BY DEF Onward
<1>5. /\ DOMAIN shared = nets \ single
      /\ \A p \in nets \ single : /\ shared[p].cost = way.cost + d.att[t][p].cost
                                  /\ shared[p].hop = way.hop
  BY DEF Onward
<1>6. /\ DOMAIN alone = single
      /\ \A p \in single : /\ alone[p].cost = way.cost + d.att[t][p].cost
                           /\ alone[p].hop = way.hop
  BY DEF Onward
<1>7. way.cost \in Nat /\ Reached(w, d, t, way.cost, way.hop, s.done)
  BY DEF Queued
<1> DEFINE W == way
<1>8. W = s.way[t]
  OBVIOUS
<1> HIDE DEF way, here, edges, nets, single, beyond, shared, alone, W
<1>9. /\ IsRun(first) /\ first.queue = here.queue \cup Shorter(here, beyond)
      /\ first.done = here.done /\ first.local = here.local /\ first.rt = here.rt
      /\ \A u \in Targets :
           first.way[u] = IF u \in Shorter(here, beyond) THEN beyond[u] ELSE here.way[u]
  BY <1>2, InsertValue
<1> HIDE DEF first
<1>10. /\ IsRun(inserted) /\ inserted.queue = first.queue \cup Shorter(first, shared)
       /\ inserted.done = first.done /\ inserted.local = first.local /\ inserted.rt = first.rt
       /\ \A u \in Targets :
            inserted.way[u] = IF u \in Shorter(first, shared) THEN shared[u] ELSE first.way[u]
  BY <1>9, InsertValue
<1> HIDE DEF inserted
<1>11. /\ IsRun(marked) /\ marked.queue = inserted.queue /\ marked.done = inserted.done \cup single
       /\ marked.local = inserted.local /\ marked.way = inserted.way /\ marked.rt = inserted.rt
  <2>1. marked = RunOf(inserted.queue, inserted.done \cup single, inserted.local,
                       inserted.way, inserted.rt)
    BY <1>10, RunWrites
  <2> HIDE DEF marked
  <2> QED
    BY <2>1, RunFields
<1> HIDE DEF marked
<1>12. AreWays(w, d, alone)
  <2>1. ASSUME NEW p \in single
        PROVE  p \in Near(d, t) /\ p \in Prefixes
    BY <1>3 DEF Singles
  <2>2. \A p \in single : d.att[t][p].cost \in Nat
    BY <2>1, Metrics
  <2>3. \A p \in single : IsWay(w, d, p, way.cost + d.att[t][p].cost, way.hop)
    BY <1>7, <2>1, NetIsWay
  <2> QED
    BY <1>6, <1>7, <2>1, <2>2, <2>3 DEF AreWays, Dests, Targets
<1>13. /\ IsRun(r) /\ r.queue = marked.queue /\ r.done = marked.done /\ r.local = marked.local
       /\ r.way = marked.way /\ Honest(w, d, r.rt)
       /\ \A x \in Dests, c \in Nat : Covered(w, marked.rt, x, c) => Covered(w, r.rt, x, c)
       /\ \A x \in DOMAIN alone : Covered(w, r.rt, x, alone[x].cost)
  <2>1. IsRun(marked) /\ Honest(w, d, marked.rt)
    BY <1>2, <1>9, <1>10, <1>11
  <2>2. Entered(w, d, marked, alone, r)
    BY <1>12, <2>1, UpdateEntriesKeeps
  <2> QED
    BY <2>2 DEF Entered
<1> HIDE DEF r
<1> DEFINE new1 == Shorter(here, beyond)
           new2 == Shorter(first, shared)
<1>14. new1 = {o \in edges \ (w.local \cup s.done \cup {t}) :
                 o \in s.queue => beyond[o].cost < s.way[o].cost}
  BY <1>2, <1>4 DEF Shorter
<1>15. new1 \subseteq Nodes /\ new1 \subseteq edges
  BY <1>3, <1>14
<1>16. new2 = {p \in nets \ (single \cup w.local \cup s.done \cup {t}) :
                 p \in s.queue => shared[p].cost < s.way[p].cost}
  <2>1. \A p \in nets : p \notin new1 /\ p \in Targets
    BY <1>3, <1>15, SurroundingsAssumption DEF Targets
  <2>2. \A p \in nets : /\ first.way[p] = s.way[p]
                        /\ p \in first.queue <=> p \in s.queue \ {t}
                        /\ p \in first.local \cup first.done <=> p \in w.local \cup s.done \cup {t}
    BY <1>2, <1>9, <2>1
  <2> QED
    BY <1>5, <2>2 DEF Shorter
<1>17. New(w, d, s, t) = new1 \cup new2
  <2>1. Beyond(w, d, t) = (edges \ w.local) \cup (nets \ (single \cup w.local))
    <3>1. \A p \in nets : p \in Targets
      BY <1>3 DEF Targets
    <3>2. \A o \in edges : o \in Targets
      BY <1>3 DEF Targets
    <3> QED
      BY <1>3, <3>1, <3>2 DEF Beyond
  <2>2. \A o \in edges : Step(d, t, o) = d.edge[t][o].cost
    BY <1>3 DEF Step
  <2>3. \A p \in nets : Step(d, t, p) = d.att[t][p].cost
    BY <1>3, SurroundingsAssumption DEF Step
  <2>4. \A o \in edges : beyond[o].cost = s.way[t].cost + Step(d, t, o)
    BY <1>4, <1>8, <2>2 DEF W
  <2>5. \A p \in nets \ single : shared[p].cost = s.way[t].cost + Step(d, t, p)
    BY <1>5, <1>8, <2>3 DEF W
  <2> HIDE DEF new1, new2
  <2> QED
    BY <1>14, <1>16, <2>1, <2>4, <2>5 DEF New
<1>18. \A u \in Targets :
         IF u \in New(w, d, s, t)
         THEN r.way[u].cost = s.way[t].cost + Step(d, t, u) /\ r.way[u].hop = s.way[t].hop
         ELSE r.way[u] = s.way[u]
  <2>1. new2 \subseteq nets \ single
    BY <1>16
  <2>2. \A u \in new1 : u \notin new2
    BY <1>3, <1>15, <2>1, SurroundingsAssumption
  <2>3. \A u \in Targets : r.way[u] = IF u \in new2 THEN shared[u]
                                      ELSE IF u \in new1 THEN beyond[u] ELSE s.way[u]
    BY <1>2, <1>9, <1>10, <1>11, <1>13
  <2>4. \A o \in edges : beyond[o].cost = s.way[t].cost + Step(d, t, o) /\ beyond[o].hop = s.way[t].hop
    BY <1>3, <1>4, <1>8 DEF W, Step
  <2>5. \A p \in nets \ single : /\ shared[p].cost = s.way[t].cost + Step(d, t, p)
                                 /\ shared[p].hop = s.way[t].hop
    BY <1>3, <1>5, <1>8, SurroundingsAssumption DEF W, Step
  <2> HIDE DEF new1, new2
  <2> QED
    BY <1>15, <1>17, <2>1, <2>2, <2>3, <2>4, <2>5
<1>19. r.queue = (s.queue \ {t}) \cup New(w, d, s, t) /\ r.done = s.done \cup {t} \cup Singles(d, t)
  BY <1>2, <1>3, <1>9, <1>10, <1>11, <1>13, <1>17
<1>20. /\ \A x \in Dests, c \in Nat : Covered(w, s.rt, x, c) => Covered(w, r.rt, x, c)
       /\ Covered(w, r.rt, t, s.way[t].cost)
  <2>1. marked.rt = here.rt
    BY <1>9, <1>10, <1>11
  <2>2. t \in Dests /\ s.way[t].cost \in Nat
    BY <1>7, <1>8 DEF W, Dests
  <2> QED
    BY <1>2, <1>13, <2>1, <2>2
<1>21. \A p \in Singles(d, t) : Covered(w, r.rt, p, s.way[t].cost + d.att[t][p].cost)
  BY <1>3, <1>6, <1>8, <1>13 DEF W
<1>22. IsRun(r) /\ r.local = s.local /\ Honest(w, d, r.rt)
  BY <1>2, <1>9, <1>10, <1>11, <1>13
<1> QED
  BY <1>1, <1>18, <1>19, <1>20, <1>21, <1>22 DEF Handled

(* More nodes known does not unmake a path.                                *)
LEMMA ReachedStill ==
    ASSUME NEW w, NEW d, NEW n, NEW c, NEW h, NEW D, NEW E, D \subseteq E, Reached(w, d, n, c, h, D)
    PROVE  Reached(w, d, n, c, h, E)
BY DEF Reached

(* The invariant of the working queue.  What a target of least cost has    *)
(* reached is queued or done at no higher cost; what is done has an entry, *)
(* and nothing that waits is nearer.                                       *)
Known(s, o, c) == o \in s.queue \cup s.done /\ s.way[o].cost <= c
Tree(w, d, s) ==
    /\ IsRun(s) /\ s.local = w.local /\ s.queue \cup s.done \subseteq Targets
    /\ \A t \in s.queue : t \notin s.done /\ t \notin Alone(d)
Seen(w, d, s) ==
    /\ \A i : UsableIn(w, d, i) /\ w.neigh[i].orig \in Present(w, d) =>
                Known(s, w.neigh[i].orig, MetricOut(w.neigh[i]))
    /\ \A n \in s.done \cap Nodes :
         /\ \A o \in Beyond(w, d, n) : Known(s, o, s.way[n].cost + Step(d, n, o))
         /\ \A p \in Singles(d, n) : Covered(w, s.rt, p, s.way[n].cost + d.att[n][p].cost)
Settled(w, d, s) ==
    \A t \in s.done \ Alone(d) :
      /\ s.way[t].cost \in Nat /\ Covered(w, s.rt, t, s.way[t].cost)
      /\ \A u \in s.queue : s.way[t].cost <= s.way[u].cost
Searching(w, d, s) ==
    Tree(w, d, s) /\ Honest(w, d, s.rt) /\ Queued(w, d, s) /\ Seen(w, d, s) /\ Settled(w, d, s)

(* Handling a target of least cost keeps it.                               *)
LEMMA HandledKeeps ==
    ASSUME NEW w \in Surroundings, NEW d \in DbType, Paired(d), Attached(d), NEW s, Searching(w, d, s),
           NEW t \in s.queue, \A u \in s.queue : s.way[t].cost <= s.way[u].cost,
           NEW r, Handled(w, d, s, t, r)
    PROVE  Searching(w, d, r)
<1> DEFINE new == New(w, d, s, t)
           c == s.way[t].cost
<1>1. /\ r.queue = (s.queue \ {t}) \cup new /\ r.done = s.done \cup {t} \cup Singles(d, t)
      /\ \A u \in Targets : IF u \in new
                            THEN r.way[u].cost = c + Step(d, t, u) /\ r.way[u].hop = s.way[t].hop
                            ELSE r.way[u] = s.way[u]
  BY DEF Handled
<1>2. /\ IsRun(r) /\ r.local = w.local /\ Honest(w, d, r.rt)
      /\ \A x \in Dests, e \in Nat : Covered(w, s.rt, x, e) => Covered(w, r.rt, x, e)
      /\ Covered(w, r.rt, t, c) /\ \A p \in Singles(d, t) : Covered(w, r.rt, p, c + d.att[t][p].cost)
  BY DEF Handled, Searching, Tree
<1>3. /\ s.queue \cup s.done \subseteq Targets /\ t \in Targets
      /\ \A u \in s.queue : u \notin s.done /\ u \notin Alone(d) /\ s.way[u].cost \in Nat
      /\ c \in Nat
  BY DEF Searching, Tree, Queued
<1>4. /\ \A o \in Beyond(w, d, t) : /\ o \in Targets /\ o \notin w.local /\ o \notin Alone(d)
                                    /\ Step(d, t, o) \in Nat
      /\ \A p \in Singles(d, t) : /\ p \in Targets /\ p \notin Nodes /\ p \in Alone(d)
                                  /\ d.att[t][p].cost \in Nat
  <2>1. CASE t \in Nodes
    BY <2>1, BeyondValue, SurroundingsAssumption DEF Targets
  <2>2. CASE t \notin Nodes
    BY <2>2 DEF Beyond, Singles
  <2> QED
    BY <2>1, <2>2
<1>5. \A o \in new : /\ o \in Beyond(w, d, t) /\ o \notin s.done /\ o /= t
                     /\ o \in s.queue => c + Step(d, t, o) < s.way[o].cost
  BY DEF New
<1>6. \A o \in Beyond(w, d, t) : o \notin new =>
        \/ o \in s.done \/ o = t
        \/ o \in s.queue /\ ~(c + Step(d, t, o) < s.way[o].cost)
  BY DEF New
<1>7. \A u \in s.done : u \notin Alone(d) => s.way[u].cost \in Nat /\ s.way[u].cost <= c
  BY DEF Searching, Settled
<1>8. \A u \in s.done \ Alone(d) : /\ s.way[u].cost \in Nat /\ Covered(w, s.rt, u, s.way[u].cost)
                                   /\ \A v \in s.queue : s.way[u].cost <= s.way[v].cost
  BY DEF Searching, Settled
<1> HIDE DEF new, c
<1>9. c = s.way[t].cost
  BY DEF c
<1>10. \A u \in s.done \cup {t} \cup Singles(d, t) : u \in Targets /\ u \notin new /\ r.way[u] = s.way[u]
  BY <1>1, <1>3, <1>4, <1>5
<1>11. Tree(w, d, r)
  <2>1. r.queue \cup r.done \subseteq Targets
    BY <1>1, <1>3, <1>4, <1>5
  <2>2. \A u \in r.queue : u \notin r.done /\ u \notin Alone(d)
    BY <1>1, <1>3, <1>4, <1>5
  <2> QED
    BY <1>2, <2>1, <2>2 DEF Tree
<1>12. ASSUME NEW o, NEW e \in Nat, Known(s, o, e)
       PROVE  Known(r, o, e)
  <2>1. o \in Targets /\ o \in r.queue \cup r.done
    BY <1>1, <1>3, <1>12 DEF Known
  <2>2. CASE o \in new
    <3>1. o \in s.queue /\ c + Step(d, t, o) < s.way[o].cost /\ Step(d, t, o) \in Nat
          /\ s.way[o].cost \in Nat
      BY <1>3, <1>4, <1>5, <1>12, <2>2 DEF Known
    <3>2. r.way[o].cost = c + Step(d, t, o) /\ s.way[o].cost <= e
      BY <1>1, <1>12, <2>1, <2>2 DEF Known
    <3> QED
      BY <1>3, <2>1, <3>1, <3>2 DEF Known
  <2>3. CASE o \notin new
    BY <1>1, <1>12, <2>1, <2>3 DEF Known
  <2> QED
    BY <2>2, <2>3
<1>13. Queued(w, d, r)
  <2> SUFFICES ASSUME NEW u \in r.queue
               PROVE  /\ r.way[u].cost \in Nat /\ IsWay(w, d, u, r.way[u].cost, r.way[u].hop)
                      /\ u \in Nodes => Reached(w, d, u, r.way[u].cost, r.way[u].hop, r.done)
    BY DEF Queued
  <2> DEFINE h == s.way[t].hop
  <2>1. CASE u \in new
    <3>1. /\ u \in Beyond(w, d, t) /\ u \notin s.done /\ u /= t /\ u \in Targets /\ u \notin w.local
          /\ Step(d, t, u) \in Nat
      BY <1>4, <1>5, <2>1
    <3>2. r.way[u].cost = c + Step(d, t, u) /\ r.way[u].hop = h
      BY <1>1, <2>1, <3>1
    <3>3. t \in Nodes /\ (u \in Open(w, d, t) \/ u \in Near(d, t))
      BY <3>1 DEF Beyond
    <3>4. Reached(w, d, t, c, h, s.done)
      BY <1>9, <3>3 DEF Searching, Queued
    <3> HIDE DEF h
    <3>5. CASE u \in Nodes
      <4>1. u \notin Near(d, t)
        BY <3>5, SurroundingsAssumption DEF Near, NetsOf
      <4>2. /\ u \in RealEdges(d, t) /\ d.edge[t][u].cost < Infinite
            /\ Step(d, t, u) = d.edge[t][u].cost
        BY <3>3, <3>5, <4>1 DEF Open, Step
      <4>3. Reached(w, d, u, c + d.edge[t][u].cost, h, s.done \cup {t})
        BY <1>3, <3>1, <3>3, <3>4, <3>5, <4>2, LongerPath
      <4>4. c + d.edge[t][u].cost \in Nat
        BY <1>3, <3>1, <4>2
      <4>5. IsWay(w, d, u, c + d.edge[t][u].cost, h)
        BY <3>5, <4>3, <4>4, NodeIsWay
      <4>6. Reached(w, d, u, c + d.edge[t][u].cost, h, r.done)
        <5>1. s.done \cup {t} \subseteq r.done
          BY <1>1
        <5> QED
          BY <4>3, <5>1, ReachedStill
      <4> QED
        BY <3>2, <4>2, <4>4, <4>5, <4>6
    <3>6. CASE u \notin Nodes
      <4>1. u \in Near(d, t)
        BY <3>3, <3>6 DEF Open, RealEdges, EdgesOf
      <4>2. Step(d, t, u) = d.att[t][u].cost
        BY <3>6 DEF Step
      <4>3. IsWay(w, d, u, c + d.att[t][u].cost, h)
        BY <1>3, <3>3, <3>4, <4>1, NetIsWay
      <4> QED
        BY <1>3, <3>1, <3>2, <3>6, <4>2, <4>3
    <3> QED
      BY <3>5, <3>6
  <2>2. CASE u \notin new
    <3>1. u \in s.queue /\ u \in Targets /\ r.way[u] = s.way[u]
      BY <1>1, <1>3, <2>2
    <3>2. /\ s.way[u].cost \in Nat /\ IsWay(w, d, u, s.way[u].cost, s.way[u].hop)
          /\ u \in Nodes => Reached(w, d, u, s.way[u].cost, s.way[u].hop, s.done)
      BY <3>1 DEF Searching, Queued
    <3>3. s.done \subseteq r.done
      BY <1>1
    <3>4. u \in Nodes => Reached(w, d, u, s.way[u].cost, s.way[u].hop, r.done)
      BY <3>2, <3>3, ReachedStill
    <3> QED
      BY <3>1, <3>2, <3>4
  <2> QED
    BY <2>1, <2>2
<1>14. Seen(w, d, r)
  <2>1. ASSUME NEW i, UsableIn(w, d, i), w.neigh[i].orig \in Present(w, d)
        PROVE  Known(r, w.neigh[i].orig, MetricOut(w.neigh[i]))
    <3>1. Known(s, w.neigh[i].orig, MetricOut(w.neigh[i]))
      BY <2>1 DEF Searching, Seen
    <3>2. MetricOut(w.neigh[i]) \in Nat
      BY <2>1, Surrounding DEF UsableIn
    <3> QED
      BY <1>12, <3>1, <3>2
  <2>2. ASSUME NEW n \in r.done \cap Nodes
        PROVE  n \in s.done \/ n = t
    BY <1>1, <1>4
  <2>3. ASSUME NEW n \in s.done \cap Nodes
        PROVE  /\ \A o \in Beyond(w, d, n) : Known(r, o, r.way[n].cost + Step(d, n, o))
               /\ \A p \in Singles(d, n) : Covered(w, r.rt, p, r.way[n].cost + d.att[n][p].cost)
    <3>1. /\ \A o \in Beyond(w, d, n) : Known(s, o, s.way[n].cost + Step(d, n, o))
          /\ \A p \in Singles(d, n) : Covered(w, s.rt, p, s.way[n].cost + d.att[n][p].cost)
      BY DEF Searching, Seen
    <3>2. n \notin Alone(d)
      BY SurroundingsAssumption DEF Alone
    <3>3. s.way[n].cost \in Nat /\ r.way[n] = s.way[n]
      BY <1>8, <1>10, <3>2
    <3>4. /\ \A o \in Beyond(w, d, n) : Step(d, n, o) \in Nat
          /\ \A p \in Singles(d, n) : p \in Prefixes /\ d.att[n][p].cost \in Nat
      BY BeyondValue
    <3>5. ASSUME NEW o \in Beyond(w, d, n)
          PROVE  Known(r, o, r.way[n].cost + Step(d, n, o))
      <4>1. s.way[n].cost + Step(d, n, o) \in Nat
        BY <3>3, <3>4
      <4> QED
        BY <1>12, <3>1, <3>3, <4>1
    <3>6. ASSUME NEW p \in Singles(d, n)
          PROVE  Covered(w, r.rt, p, r.way[n].cost + d.att[n][p].cost)
      <4>1. s.way[n].cost + d.att[n][p].cost \in Nat /\ p \in Dests
        BY <3>3, <3>4 DEF Dests, Targets
      <4> QED
        BY <1>2, <3>1, <3>3, <4>1
    <3> QED
      BY <3>5, <3>6
  <2>4. r.way[t] = s.way[t]
    BY <1>10
  <2>5. ASSUME NEW o \in Beyond(w, d, t)
        PROVE  Known(r, o, r.way[t].cost + Step(d, t, o))
    <3>1. r.way[t].cost = c /\ Step(d, t, o) \in Nat /\ o \in Targets /\ o \notin Alone(d)
      BY <1>4, <1>9, <2>4
    <3>2. CASE o \in new
      BY <1>1, <1>3, <3>1, <3>2 DEF Known
    <3>3. CASE o \in s.done
      <4>1. s.way[o].cost \in Nat /\ s.way[o].cost <= c /\ r.way[o] = s.way[o]
        BY <1>7, <1>10, <3>1, <3>3
      <4> QED
        BY <1>1, <1>3, <3>1, <3>3, <4>1 DEF Known
    <3>4. CASE o = t
      BY <1>1, <1>3, <3>1, <3>4 DEF Known
    <3>5. CASE o \notin new /\ o \in s.queue /\ o /= t
      BY <1>1, <1>3, <1>6, <3>1, <3>5 DEF Known
    <3> QED
      BY <1>6, <3>2, <3>3, <3>4, <3>5
  <2>6. \A p \in Singles(d, t) : Covered(w, r.rt, p, r.way[t].cost + d.att[t][p].cost)
    BY <1>2, <1>9, <2>4
  <2> QED
    BY <2>1, <2>2, <2>3, <2>5, <2>6 DEF Seen
<1>15. Settled(w, d, r)
  <2> SUFFICES ASSUME NEW u \in r.done, u \notin Alone(d)
               PROVE  /\ r.way[u].cost \in Nat /\ Covered(w, r.rt, u, r.way[u].cost)
                      /\ \A v \in r.queue : r.way[u].cost <= r.way[v].cost
    BY DEF Settled
  <2>1. ASSUME NEW v \in r.queue
        PROVE  c <= r.way[v].cost
    <3>1. CASE v \in new
      BY <1>1, <1>3, <1>4, <1>5, <3>1
    <3>2. CASE v \notin new
      BY <1>1, <1>3, <1>9, <3>2
    <3> QED
      BY <3>1, <3>2
  <2>2. \A v \in r.queue : r.way[v].cost \in Nat
    BY <1>13 DEF Queued
  <2>3. CASE u = t
    BY <1>2, <1>3, <1>9, <1>10, <2>1, <2>3
  <2>4. CASE u \in s.done
    <3>1. /\ s.way[u].cost \in Nat /\ Covered(w, s.rt, u, s.way[u].cost) /\ r.way[u] = s.way[u]
          /\ s.way[u].cost <= c /\ u \in Dests
      BY <1>7, <1>8, <1>10, <2>4 DEF Dests
    <3> QED
      BY <1>2, <1>3, <2>1, <2>2, <3>1
  <2> QED
    BY <1>1, <1>4, <2>3, <2>4
<1> QED
  BY <1>2, <1>11, <1>13, <1>14, <1>15 DEF Searching

-----------------------------------------------------------------------------
(* _prepare_nodes and _add_one_hop_nodes begin the search.                 *)
LEMMA StartSearches ==
    ASSUME NEW w \in Surroundings, NEW d \in DbType
    PROVE  Searching(w, d, Start(w, d)) /\ Start(w, d).done = {}
<1> DEFINE usable == UsableNeighbors(w, d)
           index(t) == CHOOSE i \in usable : w.neigh[i].orig = t
           empty == [queue |-> {}, done |-> {}, local |-> w.local,
                     way |-> [t \in Targets |-> [cost |-> Infinite, hops |-> 255]],
                     rt |-> [x \in Dests |-> NoRoute]]
           ways == [t \in {w.neigh[i].orig : i \in usable} |->
                      [cost |-> MetricOut(w.neigh[index(t)]), hops |-> 1,
                       hop |-> index(t), single |-> TRUE]]
           r == Insert(empty, ways)
<1>1. Start(w, d) = r
  BY DEF Start
<1>2. IsRun(empty) /\ empty.queue = {} /\ empty.done = {} /\ empty.local = w.local
  BY DEF IsRun, RunOf
<1>3. \A x \in Dests : empty.rt[x].set = FALSE
  BY DEF NoRoute
<1>4. \A i : i \in usable => UsableIn(w, d, i) /\ w.neigh[i].orig \in Nodes /\ d.node[w.neigh[i].orig].present
  BY DEF UsableNeighbors, UsableIn
<1>5. \A i : UsableIn(w, d, i) /\ w.neigh[i].orig \in Present(w, d) => i \in usable
  BY DEF UsableNeighbors, UsableIn, Present
<1> HIDE DEF usable
<1>6. ASSUME NEW i \in usable
      PROVE  /\ w.neigh[i].orig \in DOMAIN ways
             /\ ways[w.neigh[i].orig].cost = MetricOut(w.neigh[i]) /\ ways[w.neigh[i].orig].hop = i
  <2>1. \A j \in usable : w.neigh[j].orig = w.neigh[i].orig => j = i
    BY <1>4, Surrounding DEF UsableIn
  <2>2. index(w.neigh[i].orig) = i
    BY <2>1
  <2> HIDE DEF index
  <2> QED
    BY <2>2
<1>7. ASSUME NEW t \in DOMAIN ways
      PROVE  \E i \in usable : w.neigh[i].orig = t
  OBVIOUS
<1> HIDE DEF empty, ways, index
<1>8. /\ IsRun(r) /\ r.queue = empty.queue \cup Shorter(empty, ways)
      /\ r.done = empty.done /\ r.local = empty.local /\ r.rt = empty.rt
      /\ \A t \in Targets :
           r.way[t] = IF t \in Shorter(empty, ways) THEN ways[t] ELSE empty.way[t]
  BY <1>2, InsertValue
<1> HIDE DEF r
<1>9. r.queue = DOMAIN ways \ w.local /\ r.queue = Shorter(empty, ways)
  BY <1>2, <1>8 DEF Shorter
<1>10. ASSUME NEW t \in r.queue
       PROVE  \E i : /\ i \in usable /\ w.neigh[i].orig = t /\ t \in Present(w, d) /\ UsableIn(w, d, i)
                     /\ r.way[t].cost = MetricOut(w.neigh[i]) /\ r.way[t].hop = i
  <2>1. PICK i \in usable : w.neigh[i].orig = t
    BY <1>7, <1>9
  <2>2. t \in Present(w, d) /\ UsableIn(w, d, i) /\ t \in Targets
    BY <1>4, <1>9, <2>1 DEF Present, Targets
  <2>3. r.way[t] = ways[t]
    BY <1>8, <1>9, <2>2
  <2> QED
    BY <1>6, <2>1, <2>2, <2>3
<1>11. Tree(w, d, r)
  <2>1. ASSUME NEW t \in r.queue
        PROVE  t \in Nodes
    BY <1>10 DEF Present
  <2>2. \A t \in r.queue : t \in Targets /\ t \notin Alone(d)
    BY <2>1, SurroundingsAssumption DEF Targets, Alone
  <2> QED
    BY <1>2, <1>8, <2>2 DEF Tree
<1>12. Honest(w, d, r.rt)
  BY <1>3, <1>8 DEF Honest
<1>13. Queued(w, d, r)
  <2> SUFFICES ASSUME NEW t \in r.queue
               PROVE  /\ r.way[t].cost \in Nat /\ IsWay(w, d, t, r.way[t].cost, r.way[t].hop)
                      /\ Reached(w, d, t, r.way[t].cost, r.way[t].hop, r.done)
    BY DEF Queued
  <2>1. PICK i : /\ i \in usable /\ w.neigh[i].orig = t /\ t \in Present(w, d) /\ UsableIn(w, d, i)
                 /\ r.way[t].cost = MetricOut(w.neigh[i]) /\ r.way[t].hop = i
    BY <1>10
  <2>2. MetricOut(w.neigh[i]) \in Nat
    BY <2>1, Surrounding DEF UsableIn
  <2>3. Reached(w, d, t, MetricOut(w.neigh[i]), i, r.done)
    BY <2>1, FirstPath
  <2>4. t \in Nodes
    BY <2>1 DEF Present
  <2>5. IsWay(w, d, t, MetricOut(w.neigh[i]), i)
    BY <2>2, <2>3, <2>4, NodeIsWay
  <2> QED
    BY <2>1, <2>2, <2>3, <2>5
<1>14. Seen(w, d, r)
  <2>1. ASSUME NEW i, UsableIn(w, d, i), w.neigh[i].orig \in Present(w, d)
        PROVE  Known(r, w.neigh[i].orig, MetricOut(w.neigh[i]))
    <3> DEFINE t == w.neigh[i].orig
    <3>1. i \in usable
      BY <1>5, <2>1
    <3>2. t \in DOMAIN ways /\ ways[t].cost = MetricOut(w.neigh[i]) /\ t \notin w.local /\ t \in Targets
      BY <1>6, <2>1, <3>1 DEF Present, Targets
    <3>3. t \in r.queue /\ r.way[t].cost = MetricOut(w.neigh[i])
      BY <1>8, <1>9, <3>2
    <3>4. MetricOut(w.neigh[i]) \in Nat
      BY <2>1, Surrounding DEF UsableIn
    <3> QED
      BY <3>3, <3>4 DEF Known
  <2> QED
    BY <1>2, <1>8, <2>1 DEF Seen
<1>15. Settled(w, d, r)
  BY <1>2, <1>8 DEF Settled
<1> QED
  BY <1>1, <1>2, <1>8, <1>11, <1>12, <1>13, <1>14, <1>15 DEF Searching

(* One turn of the loop of _run_dijkstra.                                  *)
Nearest(s) == CHOOSE t \in s.queue : \A u \in s.queue : s.way[t].cost <= s.way[u].cost
Turn(w, d, s) == IF s.queue = {} THEN s ELSE Handle(w, d, s, Nearest(s))

(* A turn keeps the invariant, and is done with one target more.           *)
LEMMA TurnKeeps ==
    ASSUME NEW w \in Surroundings, NEW d \in DbType, Paired(d), Attached(d), NEW s, Searching(w, d, s)
    PROVE  /\ Searching(w, d, Turn(w, d, s))
           /\ s.queue = {} => Turn(w, d, s) = s
           /\ s.queue /= {} => \E t \in Targets \ s.done : s.done \cup {t} \subseteq Turn(w, d, s).done
<1>1. CASE s.queue = {}
  BY <1>1 DEF Turn
<1>2. CASE s.queue /= {}
  <2> DEFINE t == Nearest(s)
             costs == {s.way[u].cost : u \in s.queue}
             r == Handle(w, d, s, t)
  <2>1. costs \subseteq Nat /\ costs /= {}
    BY <1>2 DEF Searching, Queued
  <2>2. PICK c \in costs : \A e \in costs : c <= e
    <3> HIDE DEF costs
    <3> QED
      BY <2>1, HasMinimum
  <2>3. \E u \in s.queue : \A v \in s.queue : s.way[u].cost <= s.way[v].cost
    BY <2>2
  <2>4. t \in s.queue /\ \A v \in s.queue : s.way[t].cost <= s.way[v].cost
    BY <2>3 DEF Nearest
  <2> HIDE DEF t
  <2>5. /\ IsRun(s) /\ s.queue \subseteq Targets /\ s.local = w.local /\ Honest(w, d, s.rt)
        /\ Queued(w, d, s) /\ t \in Targets /\ t \notin s.done
    BY <2>4 DEF Searching, Tree
  <2>6. Handled(w, d, s, t, r)
    <3>1. CASE t \in Prefixes
      BY <2>4, <2>5, <3>1, PrefixHandled
    <3>2. CASE t \in Nodes
      BY <2>4, <2>5, <3>2, NodeHandled
    <3> QED
      BY <2>5, <3>1, <3>2 DEF Targets
  <2>7. Turn(w, d, s) = r
    BY <1>2 DEF Turn, t
  <2> HIDE DEF r
  <2>8. Searching(w, d, r)
    BY <2>4, <2>6, HandledKeeps
  <2>9. s.done \cup {t} \subseteq r.done
    BY <2>6 DEF Handled
  <2> QED
    BY <1>2, <2>5, <2>7, <2>8, <2>9
<1> QED
  BY <1>1, <1>2

(* The loop of _run_dijkstra.                                              *)
IsSearch(w, d, N, f) == \A k \in 0 .. N : f[k] = IF k = 0 THEN Start(w, d) ELSE Turn(w, d, f[k - 1])

(* There is such a loop, of any length.                                    *)
LEMMA SearchRuns ==
    ASSUME NEW w, NEW d
    PROVE  \A N \in Nat : \E f : IsSearch(w, d, N, [k \in 0 .. N |-> f[k]])
<1> DEFINE P == {n \in Nat : \E f : IsSearch(w, d, n, [k \in 0 .. n |-> f[k]])}
<1>1. 0 \in P
  <2> DEFINE f == [k \in 0 .. 0 |-> Start(w, d)]
  <2>1. IsSearch(w, d, 0, [k \in 0 .. 0 |-> f[k]])
    BY DEF IsSearch
  <2> QED
    BY <2>1
<1>2. ASSUME NEW n \in Nat, n \in P
      PROVE  n + 1 \in P
  <2>1. PICK f : IsSearch(w, d, n, [k \in 0 .. n |-> f[k]])
    BY <1>2
  <2>2. \A k \in 0 .. n : f[k] = IF k = 0 THEN Start(w, d) ELSE Turn(w, d, f[k - 1])
    <3> DEFINE e == [k \in 0 .. n |-> f[k]]
    <3>1. \A k \in 0 .. n : e[k] = IF k = 0 THEN Start(w, d) ELSE Turn(w, d, e[k - 1])
      BY <2>1 DEF IsSearch
    <3>2. \A k \in 0 .. n : e[k] = f[k] /\ (k /= 0 => k - 1 \in 0 .. n)
      OBVIOUS
    <3>3. \A k \in 0 .. n : e[k] = f[k]
      BY <3>2
    <3> HIDE DEF e
    <3>4. \A k \in 0 .. n : k /= 0 => e[k - 1] = f[k - 1]
      BY <3>2
    <3> QED
      BY <3>1, <3>3, <3>4
  <2> DEFINE g == [k \in 0 .. n + 1 |-> IF k <= n THEN f[k] ELSE Turn(w, d, f[n])]
  <2>3. ASSUME NEW k \in 0 .. n + 1
        PROVE  g[k] = IF k = 0 THEN Start(w, d) ELSE Turn(w, d, g[k - 1])
    <3>1. CASE k <= n
      BY <2>2, <3>1
    <3>2. CASE k = n + 1
      BY <3>2
    <3> QED
      BY <3>1, <3>2
  <2>4. [k \in 0 .. n + 1 |-> g[k]] = g
    OBVIOUS
  <2> HIDE DEF g
  <2>5. IsSearch(w, d, n + 1, [k \in 0 .. n + 1 |-> g[k]])
    BY <2>3, <2>4 DEF IsSearch
  <2> QED
    BY <2>5
<1>3. Nat \subseteq P
  <2> HIDE DEF P
  <2> QED
    BY <1>1, <1>2, Induction
<1> QED
  BY <1>3

(* It computes what the turns compute.                                     *)
LEMMA RunDijkstraValue ==
    ASSUME NEW w, NEW d
    PROVE  \E f : /\ IsSearch(w, d, Cardinality(Targets), f)
                  /\ RunDijkstra(w, d) = f[Cardinality(Targets)]
<1> DEFINE N == Cardinality(Targets)
           run == CHOOSE f : f = [k \in 0 .. N |-> IF k = 0 THEN Start(w, d) ELSE Turn(w, d, f[k - 1])]
<1>1. RunDijkstra(w, d) = run[N]
  BY DEF RunDijkstra, Turn, Nearest
<1>2. N \in Nat
  <2>1. IsFiniteSet(Targets)
    BY SurroundingsAssumption, FS_Union DEF Targets
  <2> QED
    BY <2>1, FS_CardinalityType
<1> HIDE DEF N
<1>3. PICK g : IsSearch(w, d, N, [k \in 0 .. N |-> g[k]])
  BY <1>2, SearchRuns
<1> DEFINE f == [k \in 0 .. N |-> g[k]]
<1>4. \A k \in 0 .. N : f[k] = IF k = 0 THEN Start(w, d) ELSE Turn(w, d, f[k - 1])
  BY <1>3 DEF IsSearch
<1>5. f = [k \in 0 .. N |-> f[k]]
  OBVIOUS
<1> HIDE DEF f
<1>6. f = [k \in 0 .. N |-> IF k = 0 THEN Start(w, d) ELSE Turn(w, d, f[k - 1])]
  BY <1>4, <1>5
<1>7. run = [k \in 0 .. N |-> IF k = 0 THEN Start(w, d) ELSE Turn(w, d, run[k - 1])]
  BY <1>6
<1> HIDE DEF run
<1>8. IsSearch(w, d, N, run)
  BY <1>7 DEF IsSearch
<1> QED
  BY <1>1, <1>8 DEF N

(* It ends: every turn is done with one target more.                       *)
LEMMA DijkstraRuns ==
    ASSUME NEW w \in Surroundings, NEW d \in DbType, Paired(d), Attached(d)
    PROVE  Searching(w, d, RunDijkstra(w, d)) /\ RunDijkstra(w, d).queue = {}
<1> DEFINE N == Cardinality(Targets)
<1>1. IsFiniteSet(Targets) /\ N \in Nat
  <2>1. IsFiniteSet(Targets)
    BY SurroundingsAssumption, FS_Union DEF Targets
  <2> QED
    BY <2>1, FS_CardinalityType
<1>2. PICK f : IsSearch(w, d, N, f) /\ RunDijkstra(w, d) = f[N]
  BY RunDijkstraValue
<1>3. \A S \in SUBSET Targets : /\ IsFiniteSet(S) /\ Cardinality(S) \in Nat /\ Cardinality(S) <= N
                                /\ Cardinality(S) = N => S = Targets
  BY <1>1, FS_Subset, FS_CardinalityType
<1> HIDE DEF N
<1> DEFINE Good(k, s) == /\ Searching(w, d, s)
                         /\ s.queue = {} \/ Cardinality(s.done) >= k
           P == {k \in Nat : k <= N => Good(k, f[k])}
<1>4. 0 \in P
  <2>1. f[0] = Start(w, d)
    BY <1>1, <1>2 DEF IsSearch
  <2>2. Searching(w, d, f[0]) /\ f[0].done = {}
    BY <2>1, StartSearches
  <2>3. Cardinality(f[0].done) >= 0
    BY <2>2, FS_EmptySet
  <2> QED
    BY <2>2, <2>3
<1>5. ASSUME NEW k \in Nat, k \in P
      PROVE  k + 1 \in P
  <2> SUFFICES ASSUME k + 1 <= N
               PROVE  Good(k + 1, f[k + 1])
    OBVIOUS
  <2>1. f[k + 1] = Turn(w, d, f[k])
    <3>1. k + 1 \in 0 .. N /\ k + 1 /= 0 /\ (k + 1) - 1 = k
      BY <1>1
    <3> QED
      BY <1>2, <3>1 DEF IsSearch
  <2>2. Good(k, f[k])
    BY <1>1, <1>5
  <2> DEFINE s == f[k]
             r == f[k + 1]
  <2>3. /\ Searching(w, d, r)
        /\ s.queue = {} => r = s
        /\ s.queue /= {} => \E t \in Targets \ s.done : s.done \cup {t} \subseteq r.done
    BY <2>1, <2>2, TurnKeeps
  <2> HIDE DEF s, r
  <2>4. s.done \subseteq Targets /\ r.done \subseteq Targets
    BY <2>2, <2>3 DEF Searching, Tree, s
  <2>5. CASE s.queue = {}
    BY <2>3, <2>5 DEF s, r
  <2>6. CASE s.queue /= {}
    <3>1. PICK t \in Targets \ s.done : s.done \cup {t} \subseteq r.done
      BY <2>3, <2>6
    <3>2. Cardinality(s.done \cup {t}) = Cardinality(s.done) + 1
      BY <1>3, <2>4, <3>1, FS_AddElement
    <3>3. Cardinality(s.done \cup {t}) <= Cardinality(r.done)
      BY <1>3, <2>4, <3>1, FS_Subset
    <3>4. Cardinality(s.done) >= k /\ Cardinality(s.done) \in Nat /\ Cardinality(r.done) \in Nat
      BY <1>3, <2>2, <2>4, <2>6 DEF s
    <3> QED
      BY <2>3, <3>2, <3>3, <3>4 DEF r
  <2> QED
    BY <2>5, <2>6
<1>6. Nat \subseteq P
  <2> HIDE DEF P
  <2> QED
    BY <1>4, <1>5, Induction
<1>7. Good(N, f[N])
  <2>1. N \in P
    <3> HIDE DEF P
    <3> QED
      BY <1>1, <1>6
  <2> QED
    BY <1>1, <2>1
<1> DEFINE s == f[N]
<1>8. s.queue \cup s.done \subseteq Targets /\ \A t \in s.queue : t \notin s.done
  BY <1>7 DEF Searching, Tree
<1>9. s.queue = {}
  <2> SUFFICES ASSUME s.queue /= {}
               PROVE  FALSE
    OBVIOUS
  <2>1. Cardinality(s.done) >= N
    BY <1>7
  <2> HIDE DEF s
  <2>2. s.done = Targets
    BY <1>1, <1>3, <1>8, <2>1
  <2> QED
    BY <1>8, <2>2
<1> QED
  BY <1>2, <1>7, <1>9

(* When the queue is empty, every path has been seen: its end and the      *)
(* networks of its end have entries that are as good.                      *)
LEMMA SearchCovers ==
    ASSUME NEW w \in Surroundings, NEW d \in DbType, Paired(d), Attached(d), NEW s,
           Searching(w, d, s), s.queue = {}, NEW p, IsPath(w, d, p)
    PROVE  /\ p[Len(p)] \in Nodes /\ PathWay(w, d, p).cost \in Nat
           /\ Covered(w, s.rt, p[Len(p)], PathWay(w, d, p).cost)
           /\ \A x \in Near(d, p[Len(p)]) :
                Covered(w, s.rt, x, PathWay(w, d, p).cost + d.att[p[Len(p)]][x].cost)
<1> DEFINE n == p[Len(p)]
           c == PathWay(w, d, p).cost
           D == s.done \cap Nodes
           cost == [t \in D |-> s.way[t].cost]
<1>1. \A t \in s.done : t \notin Alone(d) => s.way[t].cost \in Nat /\ Covered(w, s.rt, t, s.way[t].cost)
  BY DEF Searching, Settled
<1>2. \A t \in D : t \notin Alone(d) /\ t \in s.done
  BY SurroundingsAssumption DEF Alone
<1>3. \A t \in D : cost[t] \in Nat /\ cost[t] = s.way[t].cost
  BY <1>1, <1>2
<1>4. \A i : UsableIn(w, d, i) /\ w.neigh[i].orig \in Present(w, d) =>
               w.neigh[i].orig \in D /\ cost[w.neigh[i].orig] <= MetricOut(w.neigh[i])
  <2>1. \A i : UsableIn(w, d, i) /\ w.neigh[i].orig \in Present(w, d) =>
                 Known(s, w.neigh[i].orig, MetricOut(w.neigh[i]))
    BY DEF Searching, Seen
  <2>2. Present(w, d) \subseteq Nodes
    BY DEF Present
  <2> HIDE DEF cost
  <2> QED
    BY <1>3, <2>1, <2>2 DEF Known
<1>5. \A m \in D : /\ \A o \in Beyond(w, d, m) : Known(s, o, s.way[m].cost + Step(d, m, o))
                   /\ \A x \in Singles(d, m) : Covered(w, s.rt, x, s.way[m].cost + d.att[m][x].cost)
  BY DEF Searching, Seen
<1> HIDE DEF cost
<1>6. \A m \in D \cap Nodes : \A o \in Open(w, d, m) : o \in D /\ cost[o] <= cost[m] + d.edge[m][o].cost
  <2> SUFFICES ASSUME NEW m \in D, NEW o \in Open(w, d, m)
               PROVE  o \in D /\ cost[o] <= cost[m] + d.edge[m][o].cost
    OBVIOUS
  <2>1. o \in Nodes /\ o \notin w.local
    BY DEF Open, RealEdges, EdgesOf
  <2>2. o \in Beyond(w, d, m) /\ Step(d, m, o) = d.edge[m][o].cost
    BY <2>1 DEF Beyond, Step, Targets
  <2>3. o \in s.done /\ s.way[o].cost <= s.way[m].cost + d.edge[m][o].cost
    BY <1>5, <2>2 DEF Known
  <2> QED
    BY <1>3, <2>1, <2>3
<1>7. PICK f : /\ IsCost(w, d, p, f) /\ \A k \in 1 .. Len(p) : f[k] \in Nat
               /\ PathWay(w, d, p) = [cost |-> f[Len(p)], hop |-> First(w, p)]
  BY PathWayValue
<1>8. n \in Nodes /\ c \in Nat
  <2>1. Cardinality(Nodes) \in Nat
    BY SurroundingsAssumption, FS_CardinalityType
  <2>2. Len(p) \in 1 .. Cardinality(Nodes) /\ p \in [1 .. Len(p) -> Present(w, d)]
    BY DEF IsPath
  <2>3. Len(p) \in 1 .. Len(p)
    BY <2>1, <2>2
  <2> QED
    BY <1>7, <2>2, <2>3 DEF Present
<1>9. n \in D /\ cost[n] <= c
  <2> HIDE DEF D
  <2> QED
    BY <1>3, <1>4, <1>6, NoShorterPath
<1> HIDE DEF n, c
<1>10. Covered(w, s.rt, n, c)
  <2>1. \A x \in Dests : s.rt[x].set => s.rt[x].cost \in Nat
    BY DEF Searching, Honest
  <2>2. n \in Dests /\ Covered(w, s.rt, n, s.way[n].cost) /\ s.way[n].cost \in Nat /\ s.way[n].cost <= c
    BY <1>1, <1>2, <1>3, <1>8, <1>9 DEF Dests, Targets
  <2> QED
    BY <1>8, <2>1, <2>2, CoveredLonger
<1>11. ASSUME NEW x \in Near(d, n)
       PROVE  Covered(w, s.rt, x, c + d.att[n][x].cost)
  <2>1. x \in Prefixes /\ x \in Dests /\ d.att[n][x].cost \in Nat /\ x \notin Nodes
    BY <1>8, Metrics, SurroundingsAssumption DEF Near, NetsOf, Dests, Targets
  <2>2. s.way[n].cost \in Nat /\ s.way[n].cost <= c
    BY <1>3, <1>9
  <2>3. s.rt[x].set => s.rt[x].cost \in Nat
    BY <2>1 DEF Searching, Honest
  <2> DEFINE e == s.way[n].cost + d.att[n][x].cost
  <2>4. e \in Nat /\ c + d.att[n][x].cost \in Nat /\ e <= c + d.att[n][x].cost
    BY <1>8, <2>1, <2>2
  <2>5. Covered(w, s.rt, x, e)
    <3>1. CASE x \in Singles(d, n)
      BY <1>5, <1>9, <3>1
    <3>2. CASE x \in w.local
      BY <2>1, <3>2, Surrounding DEF Covered, Barred
    <3>3. CASE x \notin Singles(d, n) /\ x \notin w.local
      <4>1. x \in Beyond(w, d, n)
        BY <1>8, <2>1, <3>3 DEF Beyond, Targets
      <4>2. Step(d, n, x) = d.att[n][x].cost /\ x \notin Alone(d)
        BY <1>8, <2>1, <4>1, BeyondValue DEF Step
      <4>3. x \in s.done /\ s.way[x].cost <= e
        BY <1>5, <1>9, <4>1, <4>2 DEF Known
      <4>4. s.way[x].cost \in Nat /\ Covered(w, s.rt, x, s.way[x].cost)
        BY <1>1, <4>2, <4>3
      <4> HIDE DEF e
      <4> QED
        BY <2>1, <2>3, <2>4, <4>3, <4>4, CoveredLonger
    <3> QED
      BY <3>1, <3>2, <3>3
  <2> HIDE DEF e
  <2> QED
    BY <2>1, <2>3, <2>4, <2>5, CoveredLonger
<1> QED
  BY <1>8, <1>10, <1>11 DEF n, c

-----------------------------------------------------------------------------
(* Entries that are added, and none lost.                                  *)
Adds(w, d, s, r) ==
    /\ IsRun(r) /\ r.queue = s.queue /\ Honest(w, d, r.rt)
    /\ \A x \in Dests, c \in Nat : Covered(w, s.rt, x, c) => Covered(w, r.rt, x, c)

(* _handle_nhdp_routes for the addresses behind the links of neighbor i.   *)
Behind(w, i, l) ==
    [x \in {y \in DOMAIN l.two : l.two[y] < Infinite} |->
       Onward([cost |-> MetricOut(w.neigh[i]), hops |-> 1, hop |-> i, single |-> TRUE], l.two[x])]
OwnAddresses(w, i) ==
    [x \in w.neigh[i].addrs |-> [cost |-> MetricOut(w.neigh[i]), hops |-> 1, hop |-> i, single |-> TRUE]]
IsEntering(w, s, i, N, f) ==
    \A k \in 0 .. N : f[k] = IF k = 0 THEN UpdateEntries(w, s, OwnAddresses(w, i))
                             ELSE UpdateEntries(w, f[k - 1], Behind(w, i, w.neigh[i].links[k]))

(* There is such a loop, of any length.                                    *)
LEMMA EnteringRuns ==
    ASSUME NEW w, NEW s, NEW i
    PROVE  \A N \in Nat : \E f : IsEntering(w, s, i, N, [k \in 0 .. N |-> f[k]])
<1> DEFINE B == UpdateEntries(w, s, OwnAddresses(w, i))
           S(k, x) == UpdateEntries(w, x, Behind(w, i, w.neigh[i].links[k]))
           P == {n \in Nat : \E f : IsEntering(w, s, i, n, [k \in 0 .. n |-> f[k]])}
<1>1. 0 \in P
  <2> DEFINE f == [k \in 0 .. 0 |-> B]
  <2>1. IsEntering(w, s, i, 0, [k \in 0 .. 0 |-> f[k]])
    BY DEF IsEntering
  <2> QED
    BY <2>1
<1>2. ASSUME NEW n \in Nat, n \in P
      PROVE  n + 1 \in P
  <2>1. PICK f : IsEntering(w, s, i, n, [k \in 0 .. n |-> f[k]])
    BY <1>2
  <2>2. \A k \in 0 .. n : f[k] = IF k = 0 THEN B ELSE S(k, f[k - 1])
    <3> DEFINE e == [k \in 0 .. n |-> f[k]]
    <3>1. \A k \in 0 .. n : e[k] = IF k = 0 THEN B ELSE S(k, e[k - 1])
      BY <2>1 DEF IsEntering
    <3>2. \A k \in 0 .. n : e[k] = f[k] /\ (k /= 0 => k - 1 \in 0 .. n)
      OBVIOUS
    <3> HIDE DEF e, B, S
    <3>3. \A k \in 0 .. n : k /= 0 => e[k - 1] = f[k - 1]
      BY <3>2
    <3> QED
      BY <3>1, <3>2, <3>3
  <2> DEFINE g == [k \in 0 .. n + 1 |-> IF k <= n THEN f[k] ELSE S(n + 1, f[n])]
  <2>3. ASSUME NEW k \in 0 .. n + 1
        PROVE  g[k] = IF k = 0 THEN B ELSE S(k, g[k - 1])
    <3> HIDE DEF B, S
    <3>1. CASE k <= n
      BY <2>2, <3>1
    <3>2. CASE k = n + 1
      BY <3>2
    <3> QED
      BY <3>1, <3>2
  <2>4. [k \in 0 .. n + 1 |-> g[k]] = g
    OBVIOUS
  <2> HIDE DEF g
  <2>5. IsEntering(w, s, i, n + 1, [k \in 0 .. n + 1 |-> g[k]])
    BY <2>3, <2>4 DEF IsEntering
  <2> QED
    BY <2>5
<1>3. Nat \subseteq P
  <2> HIDE DEF P
  <2> QED
    BY <1>1, <1>2, Induction
<1> QED
  BY <1>3

(* It computes what its turns compute.                                     *)
LEMMA NeighborEntriesValue ==
    ASSUME NEW w, NEW s, NEW i, Symmetric(w.neigh[i]), ~(MetricOut(w.neigh[i]) >= Infinite),
           Len(w.neigh[i].links) \in Nat
    PROVE  \E f : /\ IsEntering(w, s, i, Len(w.neigh[i].links), f)
                  /\ NeighborEntries(w, s, i) = f[Len(w.neigh[i].links)]
<1> DEFINE N == Len(w.neigh[i].links)
           B == UpdateEntries(w, s, OwnAddresses(w, i))
           S(k, x) == UpdateEntries(w, x, Behind(w, i, w.neigh[i].links[k]))
           run == CHOOSE f : f = [k \in 0 .. N |-> IF k = 0 THEN B ELSE S(k, f[k - 1])]
<1>1. NeighborEntries(w, s, i) = run[N]
  BY DEF NeighborEntries, OwnAddresses, Behind
<1> HIDE DEF N
<1>2. N \in Nat
  BY DEF N
<1>3. PICK g : IsEntering(w, s, i, N, [k \in 0 .. N |-> g[k]])
  BY <1>2, EnteringRuns
<1> DEFINE f == [k \in 0 .. N |-> g[k]]
<1>4. \A k \in 0 .. N : f[k] = IF k = 0 THEN B ELSE S(k, f[k - 1])
  BY <1>3 DEF IsEntering
<1>5. f = [k \in 0 .. N |-> f[k]]
  OBVIOUS
<1> HIDE DEF f, B, S
<1>6. f = [k \in 0 .. N |-> IF k = 0 THEN B ELSE S(k, f[k - 1])]
  BY <1>4, <1>5
<1>7. run = [k \in 0 .. N |-> IF k = 0 THEN B ELSE S(k, run[k - 1])]
  BY <1>6
<1> HIDE DEF run
<1>8. IsEntering(w, s, i, N, run)
  BY <1>7 DEF IsEntering, B, S
<1> QED
  BY <1>1, <1>8 DEF N

(* What a neighbor has to offer is entered.                                *)
LinkCovered(w, rt, i, k) ==
    LET two == w.neigh[i].links[k].two
    IN  \A x \in DOMAIN two : two[x] < Infinite => Covered(w, rt, x, MetricOut(w.neigh[i]) + two[x])
OwnCovered(w, rt, i) == \A x \in w.neigh[i].addrs : Covered(w, rt, x, MetricOut(w.neigh[i]))
NeighborCovered(w, rt, i) ==
    OwnCovered(w, rt, i) /\ \A k \in DOMAIN w.neigh[i].links : LinkCovered(w, rt, i, k)

(* What is entered stays entered.                                          *)
LEMMA AddsKeeps ==
    ASSUME NEW w \in Surroundings, NEW d, NEW s, NEW r, Adds(w, d, s, r), NEW i \in Heard(w)
    PROVE  /\ OwnCovered(w, s.rt, i) => OwnCovered(w, r.rt, i)
           /\ \A k \in DOMAIN w.neigh[i].links : LinkCovered(w, s.rt, i, k) => LinkCovered(w, r.rt, i, k)
<1> DEFINE n == w.neigh[i]
           M == MetricOut(n)
<1>1. /\ n.addrs \subseteq Dests /\ M \in Nat
      /\ \A k \in DOMAIN n.links : /\ DOMAIN n.links[k].two \subseteq Dests
                                   /\ \A x \in DOMAIN n.links[k].two : n.links[k].two[x] \in Nat
  BY Surrounding DEF Heard
<1>2. \A x \in Dests, c \in Nat : Covered(w, s.rt, x, c) => Covered(w, r.rt, x, c)
  BY DEF Adds
<1>3. OwnCovered(w, s.rt, i) => OwnCovered(w, r.rt, i)
  BY <1>1, <1>2 DEF OwnCovered
<1>4. ASSUME NEW k \in DOMAIN n.links, LinkCovered(w, s.rt, i, k)
      PROVE  LinkCovered(w, r.rt, i, k)
  <2> DEFINE two == n.links[k].two
  <2>1. \A x \in DOMAIN two : two[x] < Infinite => Covered(w, s.rt, x, M + two[x])
    BY <1>4 DEF LinkCovered
  <2>2. \A x \in DOMAIN two : x \in Dests /\ M + two[x] \in Nat
    BY <1>1
  <2>3. \A x \in DOMAIN two : two[x] < Infinite => Covered(w, r.rt, x, M + two[x])
    <3> HIDE DEF two, M
    <3> QED
      BY <1>2, <2>1, <2>2
  <2> QED
    BY <2>3 DEF LinkCovered
<1> QED
  BY <1>3, <1>4

(* Entries added to entries added.                                         *)
LEMMA AddsTransitive ==
    ASSUME NEW w, NEW d, NEW s, NEW r, NEW q, Adds(w, d, s, r), Adds(w, d, r, q)
    PROVE  Adds(w, d, s, q)
BY DEF Adds

(* One call of _update_routing_entry for a link.                           *)
LEMMA LinkEntered ==
    ASSUME NEW w \in Surroundings, NEW d, NEW s, IsRun(s), Honest(w, d, s.rt),
           NEW i \in Heard(w), NEW k \in DOMAIN w.neigh[i].links
    PROVE  LET r == UpdateEntries(w, s, Behind(w, i, w.neigh[i].links[k]))
           IN  Adds(w, d, s, r) /\ LinkCovered(w, r.rt, i, k)
<1> DEFINE n == w.neigh[i]
           M == MetricOut(n)
           l == n.links[k]
           ways == Behind(w, i, l)
           r == UpdateEntries(w, s, ways)
<1>1. M \in Nat /\ DOMAIN l.two \subseteq Dests /\ \A x \in DOMAIN l.two : l.two[x] \in Nat
  BY Surrounding DEF Heard
<1>2. \A x \in DOMAIN l.two : l.two[x] < Infinite => IsWay(w, d, x, M + l.two[x], i)
  BY NeighborIsWay
<1>3. /\ DOMAIN ways = {x \in DOMAIN l.two : l.two[x] < Infinite}
      /\ \A x \in DOMAIN ways : ways[x].cost = M + l.two[x] /\ ways[x].hop = i
  BY DEF Behind, Onward
<1> HIDE DEF ways, M, l
<1>4. AreWays(w, d, ways)
  BY <1>1, <1>2, <1>3 DEF AreWays
<1>5. /\ IsRun(r) /\ r.queue = s.queue /\ Honest(w, d, r.rt)
      /\ \A x \in Dests, c \in Nat : Covered(w, s.rt, x, c) => Covered(w, r.rt, x, c)
      /\ \A x \in DOMAIN ways : Covered(w, r.rt, x, ways[x].cost)
  <2>1. Entered(w, d, s, ways, r)
    BY <1>4, UpdateEntriesKeeps
  <2> QED
    BY <2>1 DEF Entered
<1> HIDE DEF r
<1>6. \A x \in DOMAIN l.two : l.two[x] < Infinite => Covered(w, r.rt, x, M + l.two[x])
  BY <1>3, <1>5
<1>7. LinkCovered(w, r.rt, i, k)
  BY <1>6 DEF LinkCovered, M, l
<1>8. Adds(w, d, s, r)
  BY <1>5 DEF Adds
<1> QED
  BY <1>7, <1>8 DEF r, ways, l

(* And the one for the neighbor itself.                                    *)
LEMMA OwnEntered ==
    ASSUME NEW w \in Surroundings, NEW d, NEW s, IsRun(s), Honest(w, d, s.rt), NEW i \in Heard(w)
    PROVE  LET r == UpdateEntries(w, s, OwnAddresses(w, i))
           IN  Adds(w, d, s, r) /\ OwnCovered(w, r.rt, i)
<1> DEFINE n == w.neigh[i]
           M == MetricOut(n)
           ways == OwnAddresses(w, i)
           r == UpdateEntries(w, s, ways)
<1>1. M \in Nat /\ n.addrs \subseteq Dests
  BY Surrounding DEF Heard
<1>2. \A x \in n.addrs : IsWay(w, d, x, M, i)
  BY NeighborIsWay
<1>3. DOMAIN ways = n.addrs /\ \A x \in DOMAIN ways : ways[x].cost = M /\ ways[x].hop = i
  BY DEF OwnAddresses
<1> HIDE DEF ways, M, n
<1>4. AreWays(w, d, ways)
  BY <1>1, <1>2, <1>3 DEF AreWays
<1>5. /\ IsRun(r) /\ r.queue = s.queue /\ Honest(w, d, r.rt)
      /\ \A x \in Dests, c \in Nat : Covered(w, s.rt, x, c) => Covered(w, r.rt, x, c)
      /\ \A x \in DOMAIN ways : Covered(w, r.rt, x, ways[x].cost)
  <2>1. Entered(w, d, s, ways, r)
    BY <1>4, UpdateEntriesKeeps
  <2> QED
    BY <2>1 DEF Entered
<1> HIDE DEF r
<1>6. \A x \in n.addrs : Covered(w, r.rt, x, M)
  BY <1>3, <1>5
<1>7. OwnCovered(w, r.rt, i)
  BY <1>6 DEF OwnCovered, M, n
<1>8. Adds(w, d, s, r)
  BY <1>5 DEF Adds
<1> QED
  BY <1>7, <1>8 DEF r, ways

(* _handle_nhdp_routes for one neighbor.                                   *)
LEMMA NeighborEntered ==
    ASSUME NEW w \in Surroundings, NEW d, NEW s, IsRun(s), Honest(w, d, s.rt), NEW i \in DOMAIN w.neigh
    PROVE  LET r == NeighborEntries(w, s, i)
           IN  Adds(w, d, s, r) /\ (i \in Heard(w) => NeighborCovered(w, r.rt, i))
<1>1. Adds(w, d, s, s)
  BY DEF Adds
<1>2. CASE ~Symmetric(w.neigh[i]) \/ MetricOut(w.neigh[i]) >= Infinite
  <2>1. NeighborEntries(w, s, i) = s
    BY <1>2 DEF NeighborEntries
  <2>2. i \notin Heard(w)
    BY <1>2, Surrounding DEF Heard, Infinite
  <2> QED
    BY <1>1, <2>1, <2>2
<1>3. CASE Symmetric(w.neigh[i]) /\ ~(MetricOut(w.neigh[i]) >= Infinite)
  <2> DEFINE N == Len(w.neigh[i].links)
  <2>1. i \in Heard(w) /\ N \in Nat /\ DOMAIN w.neigh[i].links = 1 .. N
    BY <1>3, Surrounding DEF Heard, Infinite
  <2>2. PICK f : IsEntering(w, s, i, N, f) /\ NeighborEntries(w, s, i) = f[N]
    BY <1>3, <2>1, NeighborEntriesValue
  <2> HIDE DEF N
  <2> DEFINE Good(k, r) == /\ Adds(w, d, s, r) /\ OwnCovered(w, r.rt, i)
                           /\ \A j \in 1 .. k : LinkCovered(w, r.rt, i, j)
             P == {k \in Nat : k <= N => Good(k, f[k])}
  <2>3. 0 \in P
    <3>1. f[0] = UpdateEntries(w, s, OwnAddresses(w, i))
      BY <2>1, <2>2 DEF IsEntering
    <3>2. Adds(w, d, s, f[0]) /\ OwnCovered(w, f[0].rt, i)
      BY <2>1, <3>1, OwnEntered
    <3> QED
      BY <3>2
  <2>4. ASSUME NEW k \in Nat, k \in P
        PROVE  k + 1 \in P
    <3> SUFFICES ASSUME k + 1 <= N
                 PROVE  Good(k + 1, f[k + 1])
      OBVIOUS
    <3> DEFINE j == k + 1
               e == f[k]
               r == f[j]
    <3>1. j \in 0 .. N /\ j /= 0 /\ j - 1 = k /\ j \in 1 .. N /\ k <= N
      BY <2>1
    <3>2. Good(k, e)
      BY <2>4, <3>1
    <3> HIDE DEF j, e, r
    <3>3. r = UpdateEntries(w, e, Behind(w, i, w.neigh[i].links[j]))
      BY <2>2, <3>1 DEF IsEntering, e, r
    <3>4. Adds(w, d, e, r) /\ LinkCovered(w, r.rt, i, j)
      <4>1. IsRun(e) /\ Honest(w, d, e.rt) /\ j \in DOMAIN w.neigh[i].links
        BY <2>1, <3>1, <3>2 DEF Adds
      <4> QED
        BY <2>1, <3>3, <4>1, LinkEntered
    <3>5. Adds(w, d, s, r)
      BY <3>2, <3>4, AddsTransitive
    <3>6. OwnCovered(w, r.rt, i)
      BY <2>1, <3>2, <3>4, AddsKeeps
    <3>7. ASSUME NEW m \in 1 .. k + 1
          PROVE  LinkCovered(w, r.rt, i, m)
      <4>1. CASE m = j
        BY <3>4, <4>1
      <4>2. CASE m /= j
        <5>1. m \in 1 .. k /\ m \in DOMAIN w.neigh[i].links
          BY <2>1, <3>1, <4>2 DEF j
        <5>2. LinkCovered(w, e.rt, i, m)
          BY <3>2, <5>1
        <5> QED
          BY <2>1, <3>4, <5>1, <5>2, AddsKeeps
      <4> QED
        BY <4>1, <4>2
    <3> QED
      BY <3>5, <3>6, <3>7 DEF r, j
  <2>5. Nat \subseteq P
    <3> HIDE DEF P
    <3> QED
      BY <2>3, <2>4, Induction
  <2>6. N \in P
    <3> HIDE DEF P
    <3> QED
      BY <2>1, <2>5
  <2>7. Good(N, f[N])
    BY <2>1, <2>6
  <2> QED
    BY <2>1, <2>2, <2>7 DEF NeighborCovered
<1> QED
  BY <1>2, <1>3

-----------------------------------------------------------------------------
(* The loop of olsrv2_routing_force_update over the neighbors.             *)
IsForcing(w, d, N, f) ==
    \A k \in 0 .. N : f[k] = IF k = 0 THEN RunDijkstra(w, d) ELSE NeighborEntries(w, f[k - 1], k)

(* There is such a loop, of any length.                                    *)
LEMMA ForcingRuns ==
    ASSUME NEW w, NEW d
    PROVE  \A N \in Nat : \E f : IsForcing(w, d, N, [k \in 0 .. N |-> f[k]])
<1> DEFINE B == RunDijkstra(w, d)
           S(k, x) == NeighborEntries(w, x, k)
           P == {n \in Nat : \E f : IsForcing(w, d, n, [k \in 0 .. n |-> f[k]])}
<1>1. 0 \in P
  <2> DEFINE f == [k \in 0 .. 0 |-> B]
  <2>1. IsForcing(w, d, 0, [k \in 0 .. 0 |-> f[k]])
    BY DEF IsForcing
  <2> QED
    BY <2>1
<1>2. ASSUME NEW n \in Nat, n \in P
      PROVE  n + 1 \in P
  <2>1. PICK f : IsForcing(w, d, n, [k \in 0 .. n |-> f[k]])
    BY <1>2
  <2>2. \A k \in 0 .. n : f[k] = IF k = 0 THEN B ELSE S(k, f[k - 1])
    <3> DEFINE e == [k \in 0 .. n |-> f[k]]
    <3>1. \A k \in 0 .. n : e[k] = IF k = 0 THEN B ELSE S(k, e[k - 1])
      BY <2>1 DEF IsForcing
    <3>2. \A k \in 0 .. n : e[k] = f[k] /\ (k /= 0 => k - 1 \in 0 .. n)
      OBVIOUS
    <3> HIDE DEF e, B, S
    <3>3. \A k \in 0 .. n : k /= 0 => e[k - 1] = f[k - 1]
      BY <3>2
    <3> QED
      BY <3>1, <3>2, <3>3
  <2> DEFINE g == [k \in 0 .. n + 1 |-> IF k <= n THEN f[k] ELSE S(n + 1, f[n])]
  <2>3. ASSUME NEW k \in 0 .. n + 1
        PROVE  g[k] = IF k = 0 THEN B ELSE S(k, g[k - 1])
    <3> HIDE DEF B, S
    <3>1. CASE k <= n
      BY <2>2, <3>1
    <3>2. CASE k = n + 1
      BY <3>2
    <3> QED
      BY <3>1, <3>2
  <2>4. [k \in 0 .. n + 1 |-> g[k]] = g
    OBVIOUS
  <2> HIDE DEF g
  <2>5. IsForcing(w, d, n + 1, [k \in 0 .. n + 1 |-> g[k]])
    BY <2>3, <2>4 DEF IsForcing
  <2> QED
    BY <2>5
<1>3. Nat \subseteq P
  <2> HIDE DEF P
  <2> QED
    BY <1>1, <1>2, Induction
<1> QED
  BY <1>3

(* It computes what its turns compute.                                     *)
LEMMA ForceUpdateValue ==
    ASSUME NEW w, NEW d, Len(w.neigh) \in Nat
    PROVE  \E f : IsForcing(w, d, Len(w.neigh), f) /\ ForceUpdate(w, d) = f[Len(w.neigh)]
<1> DEFINE N == Len(w.neigh)
           B == RunDijkstra(w, d)
           S(k, x) == NeighborEntries(w, x, k)
           run == CHOOSE f : f = [k \in 0 .. N |-> IF k = 0 THEN B ELSE S(k, f[k - 1])]
<1>1. ForceUpdate(w, d) = run[N]
  BY DEF ForceUpdate
<1> HIDE DEF N
<1>2. N \in Nat
  BY DEF N
<1>3. PICK g : IsForcing(w, d, N, [k \in 0 .. N |-> g[k]])
  BY <1>2, ForcingRuns
<1> DEFINE f == [k \in 0 .. N |-> g[k]]
<1>4. \A k \in 0 .. N : f[k] = IF k = 0 THEN B ELSE S(k, f[k - 1])
  BY <1>3 DEF IsForcing
<1>5. f = [k \in 0 .. N |-> f[k]]
  OBVIOUS
<1> HIDE DEF f, B, S
<1>6. f = [k \in 0 .. N |-> IF k = 0 THEN B ELSE S(k, f[k - 1])]
  BY <1>4, <1>5
<1>7. run = [k \in 0 .. N |-> IF k = 0 THEN B ELSE S(k, run[k - 1])]
  BY <1>6
<1> HIDE DEF run
<1>8. IsForcing(w, d, N, run)
  BY <1>7 DEF IsForcing, B, S
<1> QED
  BY <1>1, <1>8 DEF N

(* The working queue is empty, no entry is made up, and whatever way there *)
(* is to a destination, its entry is as good.                              *)
LEMMA Forced ==
    ASSUME NEW w \in Surroundings, NEW d \in DbType, Paired(d), Attached(d)
    PROVE  LET s == ForceUpdate(w, d)
           IN  /\ s.queue = {} /\ Honest(w, d, s.rt)
               /\ \A x \in Dests : \A v \in WaysTo(w, d, NodePaths(w, d), x) :
                    v.cost \in Nat /\ Covered(w, s.rt, x, v.cost)
<1> DEFINE N == Len(w.neigh)
           s == RunDijkstra(w, d)
<1>1. N \in Nat /\ DOMAIN w.neigh = 1 .. N
  BY Surrounding
<1>2. Searching(w, d, s) /\ s.queue = {}
  BY DijkstraRuns
<1>3. PICK f : IsForcing(w, d, N, f) /\ ForceUpdate(w, d) = f[N]
  BY <1>1, ForceUpdateValue
<1>4. f[0] = s
  BY <1>1, <1>3 DEF IsForcing
<1> HIDE DEF N, s
<1> DEFINE Good(k, r) == /\ Adds(w, d, s, r)
                         /\ \A j \in 1 .. k : j \in Heard(w) => NeighborCovered(w, r.rt, j)
           P == {k \in Nat : k <= N => Good(k, f[k])}
<1>5. 0 \in P
  <2>1. Adds(w, d, s, f[0])
    BY <1>2, <1>4 DEF Adds, Searching, Tree
  <2> QED
    BY <2>1
<1>6. ASSUME NEW k \in Nat, k \in P
      PROVE  k + 1 \in P
  <2> SUFFICES ASSUME k + 1 <= N
               PROVE  Good(k + 1, f[k + 1])
    OBVIOUS
  <2> DEFINE j == k + 1
             e == f[k]
             r == f[j]
  <2>1. j \in 0 .. N /\ j /= 0 /\ j - 1 = k /\ j \in 1 .. N /\ k <= N
    BY <1>1
  <2>2. Good(k, e)
    BY <1>6, <2>1
  <2> HIDE DEF j, e, r
  <2>3. r = NeighborEntries(w, e, j)
    BY <1>3, <2>1 DEF IsForcing, e, r
  <2>4. Adds(w, d, e, r) /\ (j \in Heard(w) => NeighborCovered(w, r.rt, j))
    <3>1. IsRun(e) /\ Honest(w, d, e.rt) /\ j \in DOMAIN w.neigh
      BY <1>1, <2>1, <2>2 DEF Adds
    <3> QED
      BY <2>3, <3>1, NeighborEntered
  <2>5. Adds(w, d, s, r)
    BY <2>2, <2>4, AddsTransitive
  <2>6. ASSUME NEW m \in 1 .. k + 1, m \in Heard(w)
        PROVE  NeighborCovered(w, r.rt, m)
    <3>1. CASE m = j
      BY <2>4, <2>6, <3>1
    <3>2. CASE m /= j
      <4>1. m \in 1 .. k
        BY <2>1, <3>2 DEF j
      <4>2. NeighborCovered(w, e.rt, m)
        BY <2>2, <2>6, <4>1
      <4> QED
        BY <2>4, <2>6, <4>2, AddsKeeps DEF NeighborCovered
    <3> QED
      BY <3>1, <3>2
  <2> QED
    BY <2>5, <2>6 DEF r, j
<1>7. Nat \subseteq P
  <2> HIDE DEF P
  <2> QED
    BY <1>5, <1>6, Induction
<1>8. N \in P
  <2> HIDE DEF P
  <2> QED
    BY <1>1, <1>7
<1> DEFINE r == f[N]
<1>9. Good(N, r)
  BY <1>1, <1>8
<1> HIDE DEF r
<1>10. r.queue = {} /\ Honest(w, d, r.rt)
  BY <1>2, <1>9 DEF Adds
<1>11. ASSUME NEW x \in Dests, NEW v \in WaysTo(w, d, NodePaths(w, d), x)
       PROVE  v.cost \in Nat /\ Covered(w, r.rt, x, v.cost)
  <2>1. ASSUME NEW n, NEW a \in Nat, v \in PathWays(w, d, n, a)
        PROVE  \E p : IsPath(w, d, p) /\ p[Len(p)] = n /\ v.cost = PathWay(w, d, p).cost + a
    <3>1. PICK p \in NodePaths(w, d) : p[Len(p)] = n /\ v = [PathWay(w, d, p) EXCEPT !.cost = @ + a]
      BY <2>1 DEF PathWays
    <3>2. IsPath(w, d, p)
      BY <3>1, Paths
    <3>3. PICK g : PathWay(w, d, p) = [cost |-> g[Len(p)], hop |-> First(w, p)]
      BY <3>2, PathWayValue
    <3> QED
      BY <3>1, <3>2, <3>3
  <2>2. \A c \in Nat : Covered(w, s.rt, x, c) => Covered(w, r.rt, x, c)
    BY <1>9 DEF Adds
  <2>3. CASE x \in Nodes /\ v \in PathWays(w, d, x, 0)
    <3>1. PICK p : IsPath(w, d, p) /\ p[Len(p)] = x /\ v.cost = PathWay(w, d, p).cost + 0
      BY <2>1, <2>3
    <3>2. PathWay(w, d, p).cost \in Nat /\ Covered(w, s.rt, x, PathWay(w, d, p).cost)
      BY <1>2, <3>1, SearchCovers
    <3> QED
      BY <2>2, <3>1, <3>2
  <2>4. CASE v \in NetWays(w, d, x)
    <3>1. PICK n \in Nodes : /\ x \in NetsOf(d, n) /\ d.att[n][x].cost < Infinite
                             /\ v \in PathWays(w, d, n, d.att[n][x].cost)
      BY <2>4 DEF NetWays
    <3>2. x \in Near(d, n) /\ d.att[n][x].cost \in Nat
      BY <3>1, Metrics DEF Near, NetsOf
    <3>3. PICK p : /\ IsPath(w, d, p) /\ p[Len(p)] = n
                   /\ v.cost = PathWay(w, d, p).cost + d.att[n][x].cost
      BY <2>1, <3>1, <3>2
    <3>4. /\ PathWay(w, d, p).cost \in Nat
          /\ Covered(w, s.rt, x, PathWay(w, d, p).cost + d.att[n][x].cost)
      BY <1>2, <3>2, <3>3, SearchCovers
    <3> QED
      BY <2>2, <3>2, <3>3, <3>4
  <2>5. ASSUME NEW i \in Heard(w)
        PROVE  /\ NeighborCovered(w, r.rt, i) /\ MetricOut(w.neigh[i]) \in Nat
               /\ \A k \in DOMAIN w.neigh[i].links : \A y \in DOMAIN w.neigh[i].links[k].two :
                    w.neigh[i].links[k].two[y] \in Nat
    BY <1>1, <1>9, Surrounding DEF Heard
  <2>6. CASE v \in AddrWays(w, x)
    <3>1. PICK i \in Heard(w) : x \in w.neigh[i].addrs /\ v = [cost |-> MetricOut(w.neigh[i]), hop |-> i]
      BY <2>6 DEF AddrWays
    <3> QED
      BY <2>5, <3>1 DEF NeighborCovered, OwnCovered
  <2>7. CASE v \in TwoHopWays(w, x)
    <3>1. PICK i \in Heard(w) : v \in LinkWays(w, x, i)
      BY <2>7 DEF TwoHopWays
    <3>2. PICK l \in Range(w.neigh[i].links) :
            /\ x \in DOMAIN l.two /\ l.two[x] < Infinite
            /\ v = [cost |-> MetricOut(w.neigh[i]) + l.two[x], hop |-> i]
      BY <3>1 DEF LinkWays
    <3>3. PICK k \in DOMAIN w.neigh[i].links : l = w.neigh[i].links[k]
      BY DEF Range
    <3>4. LinkCovered(w, r.rt, i, k) /\ l.two[x] \in Nat
      BY <2>5, <3>2, <3>3 DEF NeighborCovered
    <3>5. Covered(w, r.rt, x, MetricOut(w.neigh[i]) + l.two[x])
      BY <3>2, <3>3, <3>4 DEF LinkCovered
    <3> QED
      BY <2>5, <3>2, <3>4, <3>5
  <2> QED
    BY <2>3, <2>4, <2>6, <2>7, WaysToValue
<1> QED
  BY <1>3, <1>10, <1>11 DEF r

(* Whatever the database and the surroundings are, the routes that         *)
(* olsrv2_routing_force_update computes are the shortest ones.             *)
LEMMA ForcedShortest ==
    ASSUME NEW w \in Surroundings, NEW d \in DbType, Paired(d), Attached(d)
    PROVE  LET s == ForceUpdate(w, d)
               paths == NodePaths(w, d)
           IN  /\ s.queue = {}
               /\ \A x \in Dests :
                    LET ways == {v \in WaysTo(w, d, paths, x) : ~Refused(w, x, v)}
                    IN  IF ways = {} THEN ~s.rt[x].set
                        ELSE /\ s.rt[x].set
                             /\ [cost |-> s.rt[x].cost, hop |-> s.rt[x].hop] \in ways
                             /\ \A v \in ways : s.rt[x].cost <= v.cost
<1> DEFINE s == ForceUpdate(w, d)
           all(x) == WaysTo(w, d, NodePaths(w, d), x)
           ways(x) == {v \in all(x) : ~Refused(w, x, v)}
<1>1. /\ s.queue = {} /\ Honest(w, d, s.rt)
      /\ \A x \in Dests : \A v \in all(x) : v.cost \in Nat /\ Covered(w, s.rt, x, v.cost)
  BY Forced
<1>2. \A x, v : Refused(w, x, v) <=> Barred(w, x, v.cost)
  BY DEF Refused, Barred
<1>3. ASSUME NEW x \in Dests
      PROVE  IF ways(x) = {} THEN ~s.rt[x].set
             ELSE /\ s.rt[x].set
                  /\ [cost |-> s.rt[x].cost, hop |-> s.rt[x].hop] \in ways(x)
                  /\ \A v \in ways(x) : s.rt[x].cost <= v.cost
  <2> DEFINE mine == [cost |-> s.rt[x].cost, hop |-> s.rt[x].hop]
  <2>1. s.rt[x].set => mine \in all(x) /\ ~Barred(w, x, mine.cost)
    BY <1>1 DEF Honest, IsWay
  <2>2. s.rt[x].set => mine \in ways(x)
    <3> HIDE DEF mine
    <3> QED
      BY <1>2, <2>1
  <2>3. ASSUME NEW v \in ways(x)
        PROVE  s.rt[x].set /\ s.rt[x].cost <= v.cost
    BY <1>1, <1>2 DEF Covered
  <2> HIDE DEF ways, s
  <2> QED
    BY <2>2, <2>3
<1> QED
  BY <1>1, <1>3

(* Every destination with a way has a route of the least cost, by a        *)
(* neighbor such a way begins with, and no other destination has one.      *)
THEOREM RoutesAlwaysShortest == Spec => []RoutesShortest
<1>1. Inv => RoutesShortest
  <2> SUFFICES ASSUME Inv
               PROVE  RoutesShortest
    OBVIOUS
  <2>1. db \in DbType /\ Paired(db) /\ Attached(db)
    BY DEF Inv, Sound
  <2> QED
    BY <2>1, ForcedShortest DEF RoutesShortest
<1> QED
  BY <1>1, Invariant, PTL
=============================================================================
