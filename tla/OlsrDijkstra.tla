---------------------------- MODULE OlsrDijkstra ----------------------------
(***************************************************************************)
(* What olsrv2_routing.c computes from the topology database of OlsrTc and *)
(* from what NHDP knows around the router: _run_dijkstra and               *)
(* _handle_nhdp_routes for one domain and one address family, without      *)
(* source-specific prefixes.  OlsrRouting takes it from there.             *)
(*                                                                         *)
(* A surrounding w of the router is                                        *)
(*   neigh   its neighbors: [orig, addrs, links], each link with the       *)
(*           address of its other end, its metrics in and out, its status, *)
(*           and the metrics of the two-hop addresses behind it,           *)
(*   local   its originators, former ones included,                        *)
(*   own     its present originator and interface addresses,               *)
(*   lan     its attached networks that are active, with their metric.     *)
(* A way to a target is [cost, hops, hop, single]: path_cost, path_hops,   *)
(* the neighbor first_hop (its index), single_hop.                         *)
(***************************************************************************)
EXTENDS OlsrTc, Sequences, Functions

CONSTANTS
    Surroundings,  \* what NHDP, originator and LAN sets may hold
    Addresses,     \* addresses of interfaces, nodes and prefixes among them
    Routable       \* destinations that olsrv2_get_routable accepts

Targets == Nodes \cup Prefixes
Dests == Targets \cup Addresses
NoRoute == [set |-> FALSE]
Direct == "direct"

(* Node and prefix targets are told apart; nobody attaches what was an     *)
(* originator of the router and is not its own any more; NHDP keeps        *)
(* originators of neighbors unique.                                        *)
ASSUME SurroundingsAssumption ==
    /\ IsFiniteSet(Nodes) /\ IsFiniteSet(Prefixes) /\ Nodes \cap Prefixes = {}
    /\ Routable \subseteq Dests
    /\ \A w \in Surroundings :
         /\ w.own \subseteq Dests /\ w.local \cap Prefixes \subseteq w.own
         /\ DOMAIN w.lan \subseteq Dests /\ \A x \in DOMAIN w.lan : w.lan[x] \in Metric
         /\ Len(w.neigh) \in Nat /\ DOMAIN w.neigh = 1 .. Len(w.neigh)
         /\ \A i, j \in DOMAIN w.neigh : w.neigh[i].orig = w.neigh[j].orig => i = j
         /\ \A i \in DOMAIN w.neigh :
              LET n == w.neigh[i] IN
              /\ n.addrs \subseteq Addresses
              /\ Len(n.links) \in Nat /\ DOMAIN n.links = 1 .. Len(n.links)
              /\ \A l \in DOMAIN n.links :
                   /\ n.links[l].in \in Metric /\ n.links[l].out \in Metric
                   /\ n.links[l].symmetric \in BOOLEAN
                   /\ DOMAIN n.links[l].two \subseteq Addresses
                   /\ \A x \in DOMAIN n.links[l].two : n.links[l].two[x] \in Metric
-----------------------------------------------------------------------------
(* neigh->symmetric, and _recalculate_neighbor_metric of nhdp_domain.c: the *)
(* metrics are the least of all links, symmetric or not; the best link is  *)
(* the first of those with the least outgoing metric.                      *)
Symmetric(n) == \E l \in DOMAIN n.links : n.links[l].symmetric
Least(S) == CHOOSE m \in S : \A x \in S : m <= x
MetricIn(n) == Least({n.links[l].in : l \in DOMAIN n.links})
MetricOut(n) == Least({n.links[l].out : l \in DOMAIN n.links})
BestLink(n) ==
    n.links[Least({l \in DOMAIN n.links : n.links[l].out = MetricOut(n)})]

(* The gateway of a route: none for the other end of the best link.        *)
Gateway(w, x, way) ==
    LET addr == BestLink(w.neigh[way.hop]).addr
    IN  IF way.single /\ x = addr THEN Direct ELSE addr

(* Mutant: the first way to a target that waits is kept.                   *)
ShorterFirst(s, ways) == {t \in DOMAIN ways : t \notin s.local \cup s.done \cup s.queue}

(* The targets among those of ways for which _insert_into_working_tree     *)
(* takes the way: neither local nor done, and if in the working tree with  *)
(* a longer way.                                                           *)
Shorter(s, ways) ==
    {t \in DOMAIN ways : /\ t \notin s.local \cup s.done
                         /\ t \in s.queue => ways[t].cost < s.way[t].cost}
Insert(s, ways) ==
    LET new == Shorter(s, ways)
    IN  [s EXCEPT !.queue = @ \cup new,
                  !.way = [t \in Targets |-> IF t \in new THEN ways[t] ELSE @[t]]]

(* _update_routing_entry for the destinations of ways: not for ourselves,  *)
(* not for what our own attached network reaches cheaper or what is not    *)
(* routable, and not if the entry has a shorter way.                       *)
Refused(w, x, way) ==
    \/ x \in w.own
    \/ x \in DOMAIN w.lan /\ w.lan[x] < way.cost
    \/ x \notin Routable
UpdateEntries(w, s, ways) ==
    [s EXCEPT !.rt =
       [x \in Dests |->
          IF \/ x \notin DOMAIN ways \/ Refused(w, x, ways[x])
             \/ @[x].set /\ @[x].cost < ways[x].cost
          THEN @[x]
          ELSE [set |-> TRUE, cost |-> ways[x].cost, hops |-> ways[x].hops,
                hop |-> ways[x].hop, gw |-> Gateway(w, x, ways[x])]]]

(* A way that goes on from one of cost, hops and first hop.                *)
Onward(way, cost) ==
    [cost |-> way.cost + cost, hops |-> (way.hops + 1) % 256,
     hop |-> way.hop, single |-> FALSE]

(* _prepare_routes, _prepare_nodes and _add_one_hop_nodes.                 *)
UsableNeighbors(w, d) ==
    {i \in DOMAIN w.neigh :
       /\ Symmetric(w.neigh[i])
       /\ w.neigh[i].orig \in {n \in Nodes : d.node[n].present}
       /\ MetricIn(w.neigh[i]) < Infinite /\ MetricOut(w.neigh[i]) < Infinite}
Start(w, d) ==
    LET usable == UsableNeighbors(w, d)
        index(t) == CHOOSE i \in usable : w.neigh[i].orig = t
        empty == [queue |-> {}, done |-> {}, local |-> w.local,
                  way |-> [t \in Targets |-> [cost |-> Infinite, hops |-> 255]],
                  rt |-> [x \in Dests |-> NoRoute]]
    IN  Insert(empty, [t \in {w.neigh[i].orig : i \in usable} |->
                 [cost |-> MetricOut(w.neigh[index(t)]), hops |-> 1,
                  hop |-> index(t), single |-> TRUE]])

(* _handle_working_queue for a target t of least cost.  An endpoint of one *)
(* node gets its route at once, with path_hops as _prepare_nodes left it.  *)
Handle(w, d, s, t) ==
    LET way == s.way[t]
        here == UpdateEntries(w, [s EXCEPT !.queue = @ \ {t}, !.done = @ \cup {t}],
                              [x \in {t} |-> way])
        edges == {o \in RealEdges(d, t) : d.edge[t][o].cost < Infinite}
        nets == {p \in NetsOf(d, t) : d.att[t][p].cost < Infinite}
        single == {p \in nets : d.end[p].nodes = {t}}
        beyond == [o \in edges |-> Onward(way, d.edge[t][o].cost)]
        shared == [p \in nets \ single |-> Onward(way, d.att[t][p].cost)]
        alone == [p \in single |->
                    [Onward(way, d.att[t][p].cost) EXCEPT !.hops = (here.way[p].hops + 1) % 256]]
        inserted == Insert(Insert(here, beyond), shared)
    IN  IF t \in Prefixes THEN here
        ELSE UpdateEntries(w, [inserted EXCEPT !.done = @ \cup single], alone)

(* The loop of _run_dijkstra.  Among targets of the same cost the tree     *)
(* decides; here any.                                                      *)
RunDijkstra(w, d) ==
    LET step(s) ==
          IF s.queue = {} THEN s
          ELSE Handle(w, d, s, CHOOSE t \in s.queue :
                                 \A u \in s.queue : s.way[t].cost <= s.way[u].cost)
        run[k \in 0 .. Cardinality(Targets)] ==
          IF k = 0 THEN Start(w, d) ELSE step(run[k - 1])
    IN  run[Cardinality(Targets)]

(* _handle_nhdp_routes for neighbor i: its own addresses, then the two-hop *)
(* addresses behind each of its links.                                     *)
NeighborEntries(w, s, i) ==
    LET n == w.neigh[i]
        direct == [cost |-> MetricOut(n), hops |-> 1, hop |-> i, single |-> TRUE]
        behind(l) == [x \in {y \in DOMAIN l.two : l.two[y] < Infinite} |->
                        Onward(direct, l.two[x])]
        entered[k \in 0 .. Len(n.links)] ==
          IF k = 0 THEN UpdateEntries(w, s, [x \in n.addrs |-> direct])
          ELSE UpdateEntries(w, entered[k - 1], behind(n.links[k]))
    IN  IF ~Symmetric(n) \/ MetricOut(n) >= Infinite THEN s
        ELSE entered[Len(n.links)]

(* The entries when olsrv2_routing_force_update has computed a domain.     *)
ForceUpdate(w, d) ==
    LET entered[k \in 0 .. Len(w.neigh)] ==
          IF k = 0 THEN RunDijkstra(w, d) ELSE NeighborEntries(w, entered[k - 1], k)
    IN  entered[Len(w.neigh)]
-----------------------------------------------------------------------------
(* The reference: every way through the topology without a loop, from a     *)
(* symmetric neighbor with metrics both ways, on edges that the router at  *)
(* their beginning advertises.                                             *)
NodePaths(w, d) ==
    {p \in UNION {[1 .. k -> {n \in Nodes : d.node[n].present} \ w.local] :
                    k \in 1 .. Cardinality(Nodes)} :
       /\ \E i \in DOMAIN w.neigh :
            /\ w.neigh[i].orig = p[1] /\ Symmetric(w.neigh[i])
            /\ MetricIn(w.neigh[i]) < Infinite /\ MetricOut(w.neigh[i]) < Infinite
       /\ IsInjective(p)
       /\ \A k \in 2 .. Len(p) :
            p[k] \in RealEdges(d, p[k - 1]) /\ d.edge[p[k - 1]][p[k]].cost < Infinite}
PathWay(w, d, p) ==
    LET i == CHOOSE j \in DOMAIN w.neigh : w.neigh[j].orig = p[1]
        cost[k \in 1 .. Len(p)] ==
          IF k = 1 THEN MetricOut(w.neigh[i])
          ELSE cost[k - 1] + d.edge[p[k - 1]][p[k]].cost
    IN  [cost |-> cost[Len(p)], hop |-> i]

WaysTo(w, d, paths, x) ==
    LET reach(n, more) ==
          {[PathWay(w, d, p) EXCEPT !.cost = @ + more] : p \in {q \in paths : q[Len(q)] = n}}
        heard == {i \in DOMAIN w.neigh :
                    Symmetric(w.neigh[i]) /\ MetricOut(w.neigh[i]) < Infinite}
    IN  (IF x \in Nodes THEN reach(x, 0) ELSE {})
        \cup (UNION {reach(n, d.att[n][x].cost) :
                       n \in {m \in Nodes : x \in NetsOf(d, m) /\ d.att[m][x].cost < Infinite}})
        \cup {[cost |-> MetricOut(w.neigh[i]), hop |-> i] :
                i \in {j \in heard : x \in w.neigh[j].addrs}}
        \cup (UNION {{[cost |-> MetricOut(w.neigh[i]) + l.two[x], hop |-> i] :
                        l \in {k \in Range(w.neigh[i].links) :
                                 x \in DOMAIN k.two /\ k.two[x] < Infinite}} : i \in heard})

(* Whatever order TCs and timeouts have left the database in, virtual      *)
(* nodes, edges of one direction and endpoints of several routers          *)
(* included: the working queue runs dry, every destination with a way has  *)
(* a route of the least cost, with a neighbor such a way begins with, and  *)
(* no other destination has a route.  Of its own originators a router has  *)
(* no TCs.                                                                 *)
RoutesShortest ==
    \A w \in {v \in Surroundings : \A n \in v.local \cap Nodes : IsVirtual(db, n)} :
      LET s == ForceUpdate(w, db)
          paths == NodePaths(w, db)
      IN  /\ s.queue = {}
          /\ \A x \in Dests :
               LET ways == {v \in WaysTo(w, db, paths, x) : ~Refused(w, x, v)}
               IN  IF ways = {} THEN ~s.rt[x].set
                   ELSE /\ s.rt[x].set
                        /\ [cost |-> s.rt[x].cost, hop |-> s.rt[x].hop] \in ways
                        /\ \A v \in ways : s.rt[x].cost <= v.cost
=============================================================================
