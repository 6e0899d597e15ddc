---------------------------- MODULE MprSelection ----------------------------
(***************************************************************************)
(* The MPR plugin: neighbor-graph-flooding.c gathers the neighbors and the *)
(* two-hop addresses of one interface, neighbor-graph.c has the sets, and  *)
(* selection-rfc7181.c chooses flooding MPRs among the neighbors.          *)
(*                                                                         *)
(* The functions are operators of a neighbor graph g:                      *)
(*   g.n1      the allowed neighbors, numbers in the order of the tree,    *)
(*   g.will    their flooding willingness,                                 *)
(*   g.d1      d1(x), the outgoing metric of the link to x,                *)
(*   g.d2      d2(x,y), the outgoing metric x tells of address y,          *)
(*   g.direct  d1(y), the outgoing metric to a neighbor that owns y.       *)
(* A metric that is not defined is Infinite.  Sums are not capped, as in   *)
(* the code, where two 24 bit metrics fit into the 32 bits of their sum.   *)
(***************************************************************************)
EXTENDS Integers, FiniteSets, FiniteSetsExt

CONSTANTS
    Infinite,      \* RFC7181_METRIC_INFINITE
    WillAlways     \* RFC7181_WILLINGNESS_ALWAYS

(* calculate_d_x_y *)
Dist(g, x, y) == g.d1[x] + g.d2[x][y]

(* set_n2, _calculate_n2 *)
TwoHop(g) == {y \in DOMAIN g.direct : \E x \in g.n1 : g.d2[x][y] /= Infinite}

(* set_n, _calculate_n: two-hop addresses that have no direct way, or that *)
(* are nearer through another neighbor.                                    *)
Needing(g) ==
    {y \in TwoHop(g) : \/ g.direct[y] = Infinite
                       \/ \E x \in g.n1 : Dist(g, x, y) < g.direct[y]}

(* mpr_calculate_minimal_d_z_y *)
MinDist(g, y) == Min({Infinite} \cup {Dist(g, z, y) : z \in g.n1})

(* Is y reached over an MPR as well as over any neighbor?                  *)
CoveredBy(g, mprs, y) ==
    \E z \in mprs : Dist(g, z, y) = MinDist(g, y)

(* Mutant: every address a neighbor reaches counts, at whatever price.     *)
GainAnyPrice(g, mprs, x) ==
    IF x \in mprs THEN 0
    ELSE Cardinality({y \in Needing(g) : ~CoveredBy(g, mprs, y)})

(* _calculate_r: the addresses x would newly cover.                        *)
Gain(g, mprs, x) ==
    IF x \in mprs THEN 0
    ELSE Cardinality({y \in Needing(g) : /\ Dist(g, x, y) <= MinDist(g, y)
                                         /\ ~CoveredBy(g, mprs, y)})

(* _select_greatest_by_property: of the candidates, or of all neighbors    *)
(* when there is none yet, those that gain something and have the greatest *)
(* value.                                                                  *)
Greatest(g, mprs, candidates, value) ==
    LET subset == IF candidates = {} THEN g.n1 ELSE candidates
        useful == {x \in subset : Gain(g, mprs, x) > 0}
    IN  {x \in useful : \A z \in useful : value[z] <= value[x]}

(* _process_will_always *)
AlwaysWilling(g) == {x \in g.n1 : g.will[x] = WillAlways}

(* _process_unique_mprs *)
OnlyRelays(g) ==
    {x \in g.n1 : \E y \in Needing(g) : {z \in g.n1 : g.d2[z][y] /= Infinite} = {x}}

(* One round of _process_remaining: the best neighbors are sought among    *)
(* the candidates of the round before, the first of them becomes MPR, and  *)
(* a single one, or none, ends the loop.                                   *)
Round(g, s) ==
    LET gain == [x \in g.n1 |-> Gain(g, s.mprs, x)]
        willing == Greatest(g, s.mprs, s.candidates, g.will)
        best == IF Cardinality(willing) > 1
                THEN Greatest(g, s.mprs, willing, gain) ELSE willing
    IN  [mprs |-> IF best = {} THEN s.mprs ELSE s.mprs \cup {Min(best)},
         candidates |-> best,
         done |-> Cardinality(best) <= 1]

(* _process_remaining: every round but the last finds a new MPR.           *)
Remaining(g, chosen) ==
    LET run[k \in 0 .. Cardinality(g.n1)] ==
          IF k = 0 THEN [mprs |-> chosen, candidates |-> {}, done |-> FALSE]
          ELSE IF run[k - 1].done THEN run[k - 1] ELSE Round(g, run[k - 1])
    IN  run[Cardinality(g.n1)].mprs

(* mpr_calculate_mpr_rfc7181 *)
MprsRfc7181(g) == Remaining(g, AlwaysWilling(g) \cup OnlyRelays(g))
=============================================================================
