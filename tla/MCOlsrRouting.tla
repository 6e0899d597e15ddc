---------------------------- MODULE MCOlsrRouting ----------------------------
(* Small topologies around the router: g and d are neighbors or reached    *)
(* through each other.                                                     *)
EXTENDS OlsrRouting

TwoDests == <<"d", "g">>

(* A gateway of a Dijkstra result is a neighbor, with a direct route or,   *)
(* when its address is not routable, with none (olsrv2_routing.c, 566).    *)
AllTopologies ==
    {w \in [Dests -> Hops \cup {NoRoute}] :
        \A d \in Dests : w[d] \in Gateways => w[d] # d /\ w[w[d]] \notin Gateways}

(* Enough for a route to appear, to move and to vanish.                    *)
FewTopologies ==
    {w \in AllTopologies : w["g"] \in {Direct, NoRoute} /\ w["d"] \in {"g", NoRoute}}
==============================================================================
