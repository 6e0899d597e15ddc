---------------------------- MODULE NhdpMprProofs ----------------------------
(***************************************************************************)
(* For any number of neighbors, two-hop addresses and HELLOs: the marks of *)
(* the flooding MPRs are what the selection says of the present links      *)
(* unless the last calculation has not seen a dropped HELLO, an interface  *)
(* without addresses or a late status; nhdp_domain_node_is_mpr answers     *)
(* what the links say, dropped HELLOs apart; and a neighbor bears the mark *)
(* for a reason.                                                           *)
(*                                                                         *)
(* TypeOK, SelectorsKnown, StaleOnlyIfUnseen and WillingOnly are          *)
(* inductive together.  The argument for the marks is that the neighbor    *)
(* graph does not look at them, so that setting them does not change what  *)
(* the selection says; the reasons follow the rounds of _process_remaining *)
(* by induction (RoundReason, LoopInvariant).                              *)
(***************************************************************************)
EXTENDS NhdpMpr, FiniteSetTheorems, WellFoundedInduction, TLAPS

Links == [Neighbors -> Link \cup {NoLink}]
Accurate(l) == \A n \in Present(l) : l[n].flooding <=> n \in Mprs(l)
Selected(l) == \E n \in Present(l) : l[n].selector

Inv == TypeOK /\ SelectorsKnown /\ StaleOnlyIfUnseen /\ WillingOnly
-----------------------------------------------------------------------------
(* The fields of a link, one way and the other.                            *)
LEMMA LinkFields ==
    ASSUME NEW lnk \in Link
    PROVE  /\ lnk.present = TRUE /\ lnk \notin {NoLink}
           /\ lnk.symmetric \in BOOLEAN /\ lnk.symtime \in BOOLEAN
           /\ lnk.will \in 0 .. WillAlways /\ lnk.out \in Metric
           /\ lnk.two \in [TwoHops -> Metric]
           /\ lnk.flooding \in BOOLEAN /\ lnk.selector \in BOOLEAN
<1>1. lnk.present = TRUE
  BY DEF Link
<1>2. NoLink.present = FALSE
  BY DEF NoLink
<1>3. QED
  BY <1>1, <1>2 DEF Link

(* A present link is a Link, the others are NoLink.                        *)
LEMMA PresentLinks ==
    ASSUME NEW l \in Links, NEW n \in Neighbors
    PROVE  /\ n \in Present(l) <=> l[n] \in Link
           /\ n \notin Present(l) <=> l[n] = NoLink
           /\ l[n].present \in BOOLEAN
           /\ n \in Present(l) <=> l[n].present
<1>1. l[n] \in Link \/ l[n] = NoLink
  BY DEF Links
<1>2. CASE l[n] \in Link
  BY <1>2, LinkFields DEF Present
<1>3. CASE l[n] = NoLink
  <2>1. l[n].present = FALSE
    BY <1>3 DEF NoLink
  <2>2. l[n] \notin Link
    BY <2>1, LinkFields
  <2>3. QED
    BY <1>3, <2>1, <2>2 DEF Present
<1>4. QED
  BY <1>1, <1>2, <1>3

(* Setting the marks touches nothing but the marks.                        *)
LEMMA UpdateMprsLink ==
    ASSUME NEW l \in Links, NEW n \in Neighbors
    PROVE  /\ UpdateMprs(l)[n] \in Link \cup {NoLink}
           /\ n \in Present(l) =>
                /\ UpdateMprs(l)[n] = [l[n] EXCEPT !.flooding = n \in Mprs(l)]
                /\ UpdateMprs(l)[n].present = TRUE
                /\ UpdateMprs(l)[n].symmetric = l[n].symmetric
                /\ UpdateMprs(l)[n].symtime = l[n].symtime
                /\ UpdateMprs(l)[n].will = l[n].will
                /\ UpdateMprs(l)[n].out = l[n].out
                /\ UpdateMprs(l)[n].two = l[n].two
                /\ UpdateMprs(l)[n].selector = l[n].selector
                /\ UpdateMprs(l)[n].flooding <=> n \in Mprs(l)
           /\ n \notin Present(l) => UpdateMprs(l)[n] = NoLink
<1> DEFINE b == n \in Mprs(l)
<1>1. CASE n \in Present(l)
  <2>1. l[n] \in Link /\ l[n].present
    BY <1>1, PresentLinks
  <2>2. UpdateMprs(l)[n] = [l[n] EXCEPT !.flooding = b]
    BY <2>1 DEF UpdateMprs
  <2>3. b \in BOOLEAN
    OBVIOUS
  <2> HIDE DEF b
  <2>4. /\ [l[n] EXCEPT !.flooding = b] \in Link
        /\ [l[n] EXCEPT !.flooding = b].flooding = b
        /\ [l[n] EXCEPT !.flooding = b].present = TRUE
        /\ [l[n] EXCEPT !.flooding = b].symmetric = l[n].symmetric
        /\ [l[n] EXCEPT !.flooding = b].symtime = l[n].symtime
        /\ [l[n] EXCEPT !.flooding = b].will = l[n].will
        /\ [l[n] EXCEPT !.flooding = b].out = l[n].out
        /\ [l[n] EXCEPT !.flooding = b].two = l[n].two
        /\ [l[n] EXCEPT !.flooding = b].selector = l[n].selector
    BY <2>1, <2>3 DEF Link
  <2>5. QED
    BY <1>1, <2>2, <2>4 DEF b
<1>2. CASE n \notin Present(l)
  <2>1. l[n] = NoLink /\ ~l[n].present
    BY <1>2, PresentLinks
  <2>2. QED
    BY <1>2, <2>1 DEF UpdateMprs
<1>3. QED
  BY <1>1, <1>2

(* The marked links are links, with the same neighbors and selectors.      *)
LEMMA UpdateMprsLinks ==
    ASSUME NEW l \in Links
    PROVE  /\ UpdateMprs(l) \in Links
           /\ Present(UpdateMprs(l)) = Present(l)
           /\ Selected(UpdateMprs(l)) <=> Selected(l)
<1>1. UpdateMprs(l) \in Links
  <2>1. UpdateMprs(l) = [n \in Neighbors |-> UpdateMprs(l)[n]]
    BY DEF UpdateMprs
  <2>2. QED
    BY <2>1, UpdateMprsLink DEF Links
<1>2. ASSUME NEW n \in Neighbors
      PROVE  n \in Present(UpdateMprs(l)) <=> n \in Present(l)
  <2>1. /\ n \in Present(UpdateMprs(l)) <=> UpdateMprs(l)[n].present
        /\ n \notin Present(UpdateMprs(l)) <=> UpdateMprs(l)[n] = NoLink
    BY <1>1, <1>2, PresentLinks
  <2>2. CASE n \in Present(l)
    BY <1>2, <2>1, <2>2, UpdateMprsLink
  <2>3. CASE n \notin Present(l)
    BY <1>2, <2>1, <2>3, UpdateMprsLink
  <2>4. QED
    BY <2>2, <2>3
<1>3. Present(UpdateMprs(l)) = Present(l)
  BY <1>2 DEF Present
<1>4. ASSUME NEW n \in Present(l)
      PROVE  UpdateMprs(l)[n].selector = l[n].selector
  BY UpdateMprsLink DEF Present
<1>5. Selected(UpdateMprs(l)) <=> Selected(l)
  BY <1>3, <1>4 DEF Selected
<1>6. QED
  BY <1>1, <1>3, <1>5

(* The neighbor graph does not look at the marks.                          *)
LEMMA GraphIgnoresMarks ==
    ASSUME NEW l \in Links
    PROVE  Graph(UpdateMprs(l)) = Graph(l)
<1>1. Allowed(UpdateMprs(l)) = Allowed(l)
  BY UpdateMprsLinks, UpdateMprsLink DEF Allowed, Present
<1>2. \A n \in Allowed(l) : n \in Neighbors /\ n \in Present(l)
  BY DEF Allowed, Present
<1>3. /\ [n \in Allowed(l) |-> UpdateMprs(l)[n].will] = [n \in Allowed(l) |-> l[n].will]
      /\ [n \in Allowed(l) |-> UpdateMprs(l)[n].out] = [n \in Allowed(l) |-> l[n].out]
      /\ [n \in Allowed(l) |-> UpdateMprs(l)[n].two] = [n \in Allowed(l) |-> l[n].two]
  BY <1>2, UpdateMprsLink
<1>4. [y \in TwoHops |-> IF y \in Allowed(l) THEN UpdateMprs(l)[y].out ELSE Infinite]
        = [y \in TwoHops |-> IF y \in Allowed(l) THEN l[y].out ELSE Infinite]
  BY <1>2, UpdateMprsLink
<1>5. QED
  BY <1>1, <1>3, <1>4 DEF Graph

(* After _update_flooding_mpr the marks are what the selection says.       *)
LEMMA UpdateMprsAccurate ==
    ASSUME NEW l \in Links
    PROVE  Accurate(UpdateMprs(l))
<1>1. Mprs(UpdateMprs(l)) = Mprs(l)
  BY GraphIgnoresMarks DEF Mprs
<1>2. QED
  BY <1>1, UpdateMprsLinks, UpdateMprsLink DEF Accurate, Present
-----------------------------------------------------------------------------
(* Every set of natural numbers has a least element.                       *)
LEMMA HasMinimum ==
    ASSUME NEW S, S \subseteq Nat, S /= {}
    PROVE  \E x \in S : \A y \in S : x <= y
<1> DEFINE R == OpToRel(<, Nat)
<1>1. IsWellFoundedOn(R, Nat)
  BY NatLessThanWellFounded
<1>2. \A x \in Nat : \A y \in Nat : y < x => <<y, x>> \in R
  BY DEF OpToRel
<1> HIDE DEF R
<1>3. PICK x \in S : \A y \in S : ~ (<<y, x>> \in R)
  BY <1>1, WFMin
<1>4. \A y \in S : ~(y < x)
  BY <1>2, <1>3
<1> QED
  BY <1>4

(* So what holds of zero and of every successor holds of every number.     *)
LEMMA Induction ==
    ASSUME NEW S, 0 \in S, \A n \in Nat : n \in S => n + 1 \in S
    PROVE  Nat \subseteq S
<1> SUFFICES ASSUME Nat \ S /= {} PROVE FALSE
  OBVIOUS
<1>1. PICK x \in Nat \ S : \A y \in Nat \ S : x <= y
  BY HasMinimum
<1> QED
  BY <1>1

(* A loop of the code is a function of the number of its steps; it exists  *)
(* for every number of them.                                               *)
Loop(f, b, N, step) == \A k \in 0 .. N : f[k] = IF k = 0 THEN b ELSE step[k][f[k - 1]]

(* Every loop has a function of its rounds, whatever its body does.        *)
LEMMA LoopRuns ==
    ASSUME NEW S, NEW b \in S, NEW N \in Nat, NEW step \in [Nat -> [S -> S]]
    PROVE  \E f \in [0 .. N -> S] : Loop(f, b, N, step)
<1> DEFINE P == {n \in Nat : \E f \in [0 .. n -> S] :
                   \A k \in 0 .. n : f[k] = IF k = 0 THEN b ELSE step[k][f[k - 1]]}
<1>1. 0 \in P
  <2> DEFINE f == [k \in 0 .. 0 |-> b]
  <2>1. /\ f \in [0 .. 0 -> S]
        /\ \A k \in 0 .. 0 : f[k] = IF k = 0 THEN b ELSE step[k][f[k - 1]]
    OBVIOUS
  <2> QED
    BY <2>1
<1>2. ASSUME NEW n \in Nat, n \in P
      PROVE  n + 1 \in P
  <2>1. PICK f \in [0 .. n -> S] :
          \A k \in 0 .. n : f[k] = IF k = 0 THEN b ELSE step[k][f[k - 1]]
    BY <1>2
  <2> DEFINE g == [k \in 0 .. n + 1 |-> IF k <= n THEN f[k] ELSE step[n + 1][f[n]]]
  <2>2. f[n] \in S
    OBVIOUS
  <2>3. g \in [0 .. n + 1 -> S]
    BY <2>2
  <2>4. ASSUME NEW k \in 0 .. n + 1
        PROVE  g[k] = IF k = 0 THEN b ELSE step[k][g[k - 1]]
    <3>1. CASE k <= n
      BY <2>1, <3>1
    <3>2. CASE k = n + 1
      BY <2>1, <3>2
    <3> QED
      BY <3>1, <3>2
  <2> HIDE DEF g
  <2>5. \A k \in 0 .. n + 1 : g[k] = IF k = 0 THEN b ELSE step[k][g[k - 1]]
    BY <2>4
  <2> QED
    BY <2>3, <2>5
<1>3. N \in P
  <2> HIDE DEF P
  <2> QED
    BY <1>1, <1>2, Induction
<1> QED
  BY <1>3 DEF Loop

(* What every step of a loop preserves holds all along.                    *)
LEMMA LoopInvariant ==
    ASSUME NEW S, NEW N \in Nat, NEW f, f[0] \in S,
           \A k \in 1 .. N : f[k - 1] \in S => f[k] \in S
    PROVE  \A k \in 0 .. N : f[k] \in S
<1> DEFINE P == {n \in Nat : n <= N => f[n] \in S}
<1>1. 0 \in P
  OBVIOUS
<1>2. ASSUME NEW n \in Nat, n \in P
      PROVE  n + 1 \in P
  <2> SUFFICES ASSUME n + 1 <= N
               PROVE  f[n + 1] \in S
    OBVIOUS
  <2>1. f[n] \in S /\ n + 1 \in 1 .. N /\ (n + 1) - 1 = n
    BY <1>2
  <2> QED
    BY <2>1
<1>3. Nat \subseteq P
  <2> HIDE DEF P
  <2> QED
    BY <1>1, <1>2, Induction
<1> QED
  BY <1>3

-----------------------------------------------------------------------------
(* A neighbor graph that mpr_calculate_neighbor_graph_flooding can build.  *)
NeighborGraph(g) ==
    /\ g.n1 \subseteq Nat /\ IsFiniteSet(g.n1)
    /\ g.d1 \in [g.n1 -> Nat]
    /\ g.d2 \in [g.n1 -> [DOMAIN g.direct -> Nat]]

(* x is on a shortest way to an address that needs an MPR.                 *)
Shortest(g, x) == \E y \in Needing(g) : Dist(g, x, y) = MinDist(g, y)

(* mpr_calculate_minimal_d_z_y finds the smallest distance.                *)
LEMMA MinDistValue ==
    ASSUME NEW g, NeighborGraph(g), NEW y \in DOMAIN g.direct, NEW x \in g.n1
    PROVE  MinDist(g, y) \in Nat /\ Dist(g, x, y) \in Nat /\ MinDist(g, y) <= Dist(g, x, y)
<1> DEFINE S == {Infinite} \cup {Dist(g, z, y) : z \in g.n1}
<1>1. \A z \in g.n1 : Dist(g, z, y) \in Nat
  BY DEF NeighborGraph, Dist
<1>2. S \subseteq Nat /\ S /= {} /\ Dist(g, x, y) \in S
  BY <1>1, MprAssumption
<1>3. \E m \in S : \A d \in S : m <= d
  <2> HIDE DEF S
  <2> QED
    BY <1>2, HasMinimum
<1>4. Min(S) \in S /\ \A d \in S : Min(S) <= d
  <2> HIDE DEF S
  <2> QED
    BY <1>3 DEF Min
<1>5. MinDist(g, y) = Min(S)
  BY DEF MinDist
<1> HIDE DEF S
<1> QED
  BY <1>1, <1>2, <1>4, <1>5

(* Who would gain a two-hop address is on a shortest way to it.            *)
LEMMA GainReason ==
    ASSUME NEW g, NeighborGraph(g), NEW mprs, NEW x \in g.n1, Gain(g, mprs, x) > 0
    PROVE  Shortest(g, x)
<1> DEFINE G == {y \in Needing(g) : Dist(g, x, y) <= MinDist(g, y) /\ ~CoveredBy(g, mprs, y)}
<1>1. Cardinality(G) > 0
  <2>1. x \notin mprs
    BY DEF Gain
  <2> QED
    BY <2>1 DEF Gain
<1>2. G /= {}
  <2> HIDE DEF G
  <2> QED
    BY <1>1, FS_EmptySet
<1>3. PICK y \in Needing(g) : Dist(g, x, y) <= MinDist(g, y)
  BY <1>2
<1>4. y \in DOMAIN g.direct
  BY DEF Needing, TwoHop
<1>5. Dist(g, x, y) = MinDist(g, y)
  BY <1>3, <1>4, MinDistValue
<1> QED
  BY <1>5 DEF Shortest

(* The MPRs and candidates that _process_remaining may have.               *)
Chosen(g, chosen) ==
    [mprs : {M \in SUBSET g.n1 : \A x \in M : x \in chosen \/ Shortest(g, x)},
     candidates : SUBSET g.n1, done : BOOLEAN]

(* _select_greatest_by_property takes neighbors that gain something.       *)
LEMMA GreatestReason ==
    ASSUME NEW g, NeighborGraph(g), NEW mprs, NEW candidates \in SUBSET g.n1, NEW value
    PROVE  /\ Greatest(g, mprs, candidates, value) \subseteq g.n1
           /\ \A x \in Greatest(g, mprs, candidates, value) : Shortest(g, x)
<1>1. \A x \in Greatest(g, mprs, candidates, value) : x \in g.n1 /\ Gain(g, mprs, x) > 0
  BY DEF Greatest
<1> QED
  BY <1>1, GainReason

(* A round adds an MPR that is on a shortest way, or none.                 *)
LEMMA RoundReason ==
    ASSUME NEW g, NeighborGraph(g), NEW chosen, NEW s \in Chosen(g, chosen)
    PROVE  Round(g, s) \in Chosen(g, chosen)
<1> DEFINE gain == [x \in g.n1 |-> Gain(g, s.mprs, x)]
           willing == Greatest(g, s.mprs, s.candidates, g.will)
           best == IF Cardinality(willing) > 1
                   THEN Greatest(g, s.mprs, willing, gain) ELSE willing
           mprs == IF best = {} THEN s.mprs ELSE s.mprs \cup {Min(best)}
           done == Cardinality(best) <= 1
<1>1. s.candidates \in SUBSET g.n1 /\ s.mprs \in SUBSET g.n1
      /\ \A x \in s.mprs : x \in chosen \/ Shortest(g, x)
  BY DEF Chosen
<1>2. willing \in SUBSET g.n1 /\ \A x \in willing : Shortest(g, x)
  BY <1>1, GreatestReason
<1>3. best \in SUBSET g.n1 /\ \A x \in best : Shortest(g, x)
  <2> HIDE DEF willing, gain
  <2>1. /\ Greatest(g, s.mprs, willing, gain) \subseteq g.n1
        /\ \A x \in Greatest(g, s.mprs, willing, gain) : Shortest(g, x)
    BY <1>2, GreatestReason
  <2> QED
    BY <1>2, <2>1
<1>4. Round(g, s) = [mprs |-> mprs, candidates |-> best, done |-> done]
  BY DEF Round
<1> HIDE DEF best
<1>5. best /= {} => Min(best) \in best
  <2>1. SUFFICES ASSUME best /= {} PROVE Min(best) \in best
    OBVIOUS
  <2>2. best \subseteq Nat
    BY <1>3 DEF NeighborGraph
  <2>3. \E x \in best : \A y \in best : x <= y
    BY <2>1, <2>2, HasMinimum
  <2> QED
    BY <2>3 DEF Min
<1>6. mprs \in SUBSET g.n1 /\ \A x \in mprs : x \in chosen \/ Shortest(g, x)
  BY <1>1, <1>3, <1>5
<1>7. done \in BOOLEAN
  OBVIOUS
<1> HIDE DEF mprs, done
<1> QED
  BY <1>3, <1>4, <1>6, <1>7 DEF Chosen

(* _process_remaining keeps the MPRs it was given and adds no others.      *)
LEMMA RemainingReason ==
    ASSUME NEW g, NeighborGraph(g), NEW chosen \in SUBSET g.n1
    PROVE  /\ Remaining(g, chosen) \subseteq g.n1
           /\ \A x \in Remaining(g, chosen) : x \in chosen \/ Shortest(g, x)
<1> DEFINE N == Cardinality(g.n1)
           S == Chosen(g, chosen)
           b == [mprs |-> chosen, candidates |-> {}, done |-> FALSE]
           G(s) == IF s.done THEN s ELSE Round(g, s)
           step == [k \in Nat |-> [s \in S |-> G(s)]]
           h == CHOOSE f : f = [k \in 0 .. N |-> IF k = 0 THEN b ELSE G(f[k - 1])]
<1>1. N \in Nat /\ b \in S
  <2>1. N \in Nat
    BY FS_CardinalityType DEF NeighborGraph
  <2>2. b \in S
    BY DEF Chosen
  <2> QED
    BY <2>1, <2>2
<1>2. ASSUME NEW s \in S
      PROVE  G(s) \in S
  BY RoundReason
<1>3. Remaining(g, chosen) = h[N].mprs
  BY DEF Remaining
<1> HIDE DEF G, S, N, b
<1>4. step \in [Nat -> [S -> S]]
  BY <1>2
<1>5. PICK f \in [0 .. N -> S] : Loop(f, b, N, step)
  <2> HIDE DEF step
  <2> QED
    BY <1>1, <1>4, LoopRuns
<1>6. \A k \in 0 .. N : f[k] = IF k = 0 THEN b ELSE G(f[k - 1])
  <2>1. ASSUME NEW k \in 0 .. N, k /= 0
        PROVE  step[k][f[k - 1]] = G(f[k - 1])
    <3>1. f[k - 1] \in S /\ k \in Nat
      BY <1>1, <1>5, <2>1
    <3> QED
      BY <3>1
  <2> QED
    BY <1>5, <2>1 DEF Loop
<1>7. f = [k \in 0 .. N |-> IF k = 0 THEN b ELSE G(f[k - 1])]
  BY <1>6
<1>8. h = [k \in 0 .. N |-> IF k = 0 THEN b ELSE G(h[k - 1])]
  BY <1>7
<1> HIDE DEF h
<1>9. h[0] = b /\ \A k \in 1 .. N : h[k] = G(h[k - 1])
  BY <1>1, <1>8
<1>10. \A k \in 0 .. N : h[k] \in S
  BY <1>1, <1>2, <1>9, LoopInvariant
<1>11. h[N] \in S
  BY <1>1, <1>10
<1> QED
  BY <1>3, <1>11 DEF S, Chosen

(* Every MPR of the selection is a neighbor with a reason.                 *)
LEMMA MprsReason ==
    ASSUME NEW g, NeighborGraph(g)
    PROVE  /\ MprsRfc7181(g) \subseteq g.n1
           /\ \A x \in MprsRfc7181(g) :
                x \in AlwaysWilling(g) \cup OnlyRelays(g) \/ Shortest(g, x)
<1>1. AlwaysWilling(g) \cup OnlyRelays(g) \in SUBSET g.n1
  BY DEF AlwaysWilling, OnlyRelays
<1> QED
  BY <1>1, RemainingReason DEF MprsRfc7181

(* The graph of the links is one.                                          *)
LEMMA GraphOfLinks ==
    ASSUME NEW l \in Links
    PROVE  NeighborGraph(Graph(l)) /\ Graph(l).n1 = Allowed(l)
<1>1. /\ Graph(l).n1 = Allowed(l)
      /\ Graph(l).d1 = [n \in Allowed(l) |-> l[n].out]
      /\ Graph(l).d2 = [n \in Allowed(l) |-> l[n].two]
      /\ DOMAIN Graph(l).direct = TwoHops
  BY DEF Graph
<1>2. Allowed(l) \subseteq Neighbors /\ IsFiniteSet(Neighbors)
  BY MprAssumption DEF Allowed, Present
<1>3. Allowed(l) \subseteq Nat /\ IsFiniteSet(Allowed(l))
  BY <1>2, MprAssumption, FS_Subset
<1>4. ASSUME NEW n \in Allowed(l)
      PROVE  l[n].out \in Nat /\ l[n].two \in [TwoHops -> Nat]
  <2>1. l[n] \in Link
    BY PresentLinks, <1>2 DEF Allowed
  <2>2. Metric \subseteq Nat
    BY MprAssumption DEF Metric
  <2>3. l[n].out \in Metric /\ l[n].two \in [TwoHops -> Metric]
    BY <2>1, LinkFields
  <2> QED
    BY <2>2, <2>3
<1> QED
  BY <1>1, <1>3, <1>4 DEF NeighborGraph

(* Setting the marks gives them to willing neighbors only.                 *)
LEMMA UpdateMprsWilling ==
    ASSUME NEW l \in Links, NEW n \in Marked(UpdateMprs(l))
    PROVE  UpdateMprs(l)[n].will > 0
<1>1. n \in Neighbors /\ n \in Present(l) /\ UpdateMprs(l)[n].flooding
  BY UpdateMprsLinks DEF Marked, Present
<1>2. n \in Mprs(l)
  BY <1>1, UpdateMprsLink
<1>3. n \in Allowed(l)
  BY <1>2, GraphOfLinks, MprsReason DEF Mprs
<1> QED
  BY <1>1, <1>3, UpdateMprsLink DEF Allowed

-----------------------------------------------------------------------------
(* NeighborChanged on well-typed links makes marks and answer true.        *)
LEMMA NeighborChangedKeeps ==
    ASSUME NEW l \in Links, NeighborChanged(l),
           says' \in [Neighbors -> Hello \cup {Silent}], changes' \in 0 .. MaxChanges
    PROVE  Inv'
<1>1. link' = UpdateMprs(l) /\ nodeIsMpr' = Selected(l) /\ unseen' = {}
  BY DEF NeighborChanged, Selected
<1>2. TypeOK'
  BY <1>1, UpdateMprsLinks DEF TypeOK, Links, Selected
<1>3. SelectorsKnown'
  <2>1. Selected(link') <=> Selected(l)
    BY <1>1, UpdateMprsLinks
  <2>2. nodeIsMpr' = Selected(link')
    BY <1>1, <2>1 DEF Selected
  <2>3. QED
    BY <2>2 DEF SelectorsKnown, Selected
<1>4. StaleOnlyIfUnseen'
  <2>1. Accurate(link')
    BY <1>1, UpdateMprsAccurate
  <2>2. QED
    BY <2>1 DEF StaleOnlyIfUnseen, UpToDate, Accurate
<1>5. WillingOnly'
  BY <1>1, UpdateMprsWilling DEF WillingOnly
<1>6. QED
  BY <1>2, <1>3, <1>4, <1>5 DEF Inv

(* Updating the status of a link only touches symmetric and two.           *)
LEMMA UpdateStatusLink ==
    ASSUME NEW lnk \in Link
    PROVE  /\ UpdateStatus(lnk) \in Link
           /\ UpdateStatus(lnk).selector = lnk.selector
           /\ UpdateStatus(lnk).flooding = lnk.flooding
           /\ UpdateStatus(lnk).will = lnk.will
           /\ UpdateStatus(lnk).symmetric = lnk.symtime
           /\ UpdateStatus(lnk).symtime = lnk.symtime
           /\ lnk.symmetric = lnk.symtime => UpdateStatus(lnk) = lnk
<1>1. NoTwoHops \in [TwoHops -> Metric]
  BY MprAssumption DEF NoTwoHops, Metric
<1> DEFINE t == IF lnk.symmetric /\ ~lnk.symtime THEN NoTwoHops ELSE lnk.two
<1>2. t \in [TwoHops -> Metric] /\ lnk.symtime \in BOOLEAN
  BY <1>1, LinkFields
<1>3. UpdateStatus(lnk) = [lnk EXCEPT !.symmetric = lnk.symtime, !.two = t]
  BY DEF UpdateStatus, Link
<1>4. ASSUME lnk.symmetric = lnk.symtime
      PROVE  t = lnk.two
  BY <1>4, LinkFields
<1> HIDE DEF t
<1>5. /\ [lnk EXCEPT !.symmetric = lnk.symtime, !.two = t] \in Link
      /\ [lnk EXCEPT !.symmetric = lnk.symtime, !.two = t].selector = lnk.selector
      /\ [lnk EXCEPT !.symmetric = lnk.symtime, !.two = t].flooding = lnk.flooding
      /\ [lnk EXCEPT !.symmetric = lnk.symtime, !.two = t].will = lnk.will
      /\ [lnk EXCEPT !.symmetric = lnk.symtime, !.two = t].symmetric = lnk.symtime
      /\ [lnk EXCEPT !.symmetric = lnk.symtime, !.two = t].symtime = lnk.symtime
  BY <1>2 DEF Link
<1>6. ASSUME lnk.symmetric = lnk.symtime
      PROVE  [lnk EXCEPT !.symmetric = lnk.symtime, !.two = t] = lnk
  BY <1>4, <1>6 DEF Link
<1>7. QED
  BY <1>3, <1>5, <1>6

(* A HELLO leaves a link.                                                  *)
LEMMA AfterAddressesLink ==
    ASSUME NEW lnk \in Link, NEW h \in Hello
    PROVE  AfterAddresses(lnk, h) \in Link
<1> DEFINE sel == IF h.us = "none" THEN lnk.selector ELSE h.mpr
           out == IF h.us = "none" THEN lnk.out ELSE h.out
           two == [y \in TwoHops |-> IF h.two[y] = NotListed THEN lnk.two[y] ELSE h.two[y]]
           sym == IF h.us = "heard" THEN TRUE ELSE IF h.us = "lost" THEN FALSE ELSE lnk.symtime
<1>1. /\ h.mpr \in BOOLEAN /\ h.out \in Metric /\ h.will \in 0 .. WillAlways
      /\ h.two \in [TwoHops -> {NotListed} \cup Metric]
  BY DEF Hello
<1>2. /\ sel \in BOOLEAN /\ out \in Metric /\ sym \in BOOLEAN
  BY <1>1, LinkFields
<1>3. two \in [TwoHops -> Metric]
  BY <1>1, LinkFields
<1>4. AfterAddresses(lnk, h) =
        [lnk EXCEPT !.selector = sel, !.out = out, !.two = two, !.symtime = sym, !.will = h.will]
  BY DEF AfterAddresses, Link
<1> HIDE DEF sel, out, two, sym
<1>5. QED
  BY <1>1, <1>2, <1>3, <1>4 DEF Link

(* A new link of nhdp_db_link_add is a link.                               *)
LEMMA NewLinkType == NewLink \in Link
BY MprAssumption DEF NewLink, Link, NoTwoHops, Metric

(* A HELLO: the marks are true for the links before the last status update *)
(* and stay so when that changes nothing, as after a HELLO that is heard.  *)
LEMMA ReceiveHelloKeeps ==
    ASSUME Inv, NEW n \in Neighbors, ReceiveHello(n)
    PROVE  Inv'
<1> DEFINE old == IF link[n].present THEN link[n] ELSE NewLink
           timed == AfterAddresses(old, says[n])
           new == IF says[n].us = "heard" THEN UpdateStatus(timed) ELSE timed
           l == [link EXCEPT ![n] = new]
           calculated == UpdateMprs(l)
<1>1. link \in Links
  BY DEF Inv, TypeOK, Links
<1>2. says[n] \in Hello
  BY DEF Inv, TypeOK, ReceiveHello
<1>3. old \in Link
  BY <1>1, PresentLinks, NewLinkType
<1>4. new \in Link
  BY <1>2, <1>3, AfterAddressesLink, UpdateStatusLink
<1>5. /\ link' = [calculated EXCEPT ![n] = UpdateStatus(@)]
      /\ nodeIsMpr' = Selected(calculated)
      /\ unseen' = IF new.symmetric /= new.symtime THEN {"status"} ELSE {}
      /\ says' = says /\ changes' = changes
  BY DEF ReceiveHello, Selected
<1> HIDE DEF old, timed, new
<1>6. l \in Links /\ l[n] = new
  BY <1>1, <1>4 DEF Links
<1>7. n \in Present(l)
  BY <1>4, <1>6, PresentLinks
<1> HIDE DEF l
<1>8. calculated \in Links /\ n \in Present(calculated) /\ calculated[n] \in Link
  BY <1>6, <1>7, UpdateMprsLinks, PresentLinks
<1>9. calculated[n].symmetric = new.symmetric /\ calculated[n].symtime = new.symtime
  BY <1>6, <1>7, UpdateMprsLink
<1>10. Accurate(calculated)
  BY <1>6, UpdateMprsAccurate
<1> HIDE DEF calculated
<1>11. /\ link'[n] = UpdateStatus(calculated[n])
       /\ \A m \in Neighbors : m /= n => link'[m] = calculated[m]
       /\ link'[n] \in Link /\ link' \in Links
       /\ link'[n].selector = calculated[n].selector
       /\ link'[n].flooding = calculated[n].flooding
       /\ link'[n].will = calculated[n].will
  BY <1>5, <1>8, UpdateStatusLink DEF Links
<1>12. TypeOK'
  BY <1>5, <1>11 DEF Inv, TypeOK, Links, Selected, Unseen
<1>12a. Present(link') = Present(calculated)
  <2>1. \A m \in Neighbors : m \in Present(link') <=> m \in Present(calculated)
    BY <1>8, <1>11, PresentLinks DEF Present
  <2> QED
    BY <2>1 DEF Present
<1>12b. WillingOnly'
  <2>1. SUFFICES ASSUME NEW m \in Marked(link') PROVE link'[m].will > 0
    BY DEF WillingOnly
  <2>2. m \in Marked(calculated) /\ link'[m].will = calculated[m].will
    BY <1>11, <1>12a, <2>1 DEF Marked, Present
  <2> QED
    BY <1>6, <2>2, UpdateMprsWilling DEF calculated
<1>13. SelectorsKnown'
  <2>3. \A m \in Present(calculated) : link'[m].selector = calculated[m].selector
    BY <1>11 DEF Present
  <2>4. Selected(link') <=> Selected(calculated)
    BY <1>12a, <2>3 DEF Selected
  <2>5. nodeIsMpr' = Selected(link')
    BY <1>5, <2>4 DEF Selected
  <2>6. QED
    BY <2>5 DEF SelectorsKnown, Selected
<1>14. StaleOnlyIfUnseen'
  <2>1. SUFFICES ASSUME unseen' = {} PROVE UpToDate'
    BY DEF StaleOnlyIfUnseen
  <2>2. calculated[n].symmetric = calculated[n].symtime
    BY <1>5, <1>9, <2>1
  <2>3. link'[n] = calculated[n]
    BY <1>8, <1>11, <2>2, UpdateStatusLink
  <2>4. link' = calculated
    BY <1>8, <1>11, <2>3 DEF Links
  <2>5. QED
    BY <1>10, <2>4 DEF UpToDate, Accurate
<1>15. QED
  BY <1>12, <1>13, <1>14, <1>12b DEF Inv

(* What changes links without a calculation keeps the marks and remembers  *)
(* it.                                                                     *)
LEMMA UnseenKeeps ==
    ASSUME Inv, link' \in Links, nodeIsMpr' = nodeIsMpr, says' = says, changes' = changes,
           NEW reason \in Unseen, unseen' = unseen \cup {reason},
           \A n \in Present(link') :
               /\ n \in Present(link) /\ link'[n].flooding = link[n].flooding
               /\ link'[n].will = link[n].will /\ link'[n].selector = link[n].selector,
           reason = "dropped" \/ Present(link) \subseteq Present(link')
    PROVE  Inv'
<1>1. TypeOK'
  BY DEF Inv, TypeOK, Links
<1>2. SelectorsKnown'
  <2>1. Selected(link') => Selected(link)
    BY DEF Selected
  <2>2. reason = "dropped" \/ (Selected(link) => Selected(link'))
    BY DEF Selected
  <2>3. /\ Selected(link) => nodeIsMpr
        /\ nodeIsMpr /\ ~Selected(link) => "dropped" \in unseen
    BY DEF Inv, SelectorsKnown, Selected
  <2>4. /\ Selected(link') => nodeIsMpr'
        /\ nodeIsMpr' /\ ~Selected(link') => "dropped" \in unseen'
    BY <2>1, <2>2, <2>3
  <2>5. QED
    BY <2>4 DEF SelectorsKnown, Selected
<1>3. StaleOnlyIfUnseen'
  BY DEF StaleOnlyIfUnseen
<1>4. WillingOnly'
  BY DEF Inv, WillingOnly, Marked
<1>5. QED
  BY <1>1, <1>2, <1>3, <1>4 DEF Inv

(* A dropped HELLO takes link and neighbor away.                           *)
LEMMA DropHelloKeeps ==
    ASSUME Inv, NEW n \in Neighbors, DropHello(n)
    PROVE  Inv'
<1>1. link \in Links
  BY DEF Inv, TypeOK, Links
<1>2. /\ link' = [link EXCEPT ![n] = NoLink] /\ unseen' = unseen \cup {"dropped"}
      /\ nodeIsMpr' = nodeIsMpr /\ says' = says /\ changes' = changes
  BY DEF DropHello
<1>3. link' \in Links /\ link'[n] = NoLink
  BY <1>1, <1>2 DEF Links
<1>4. \A m \in Present(link') : m \in Present(link) /\ link'[m] = link[m]
  <2>1. n \notin Present(link')
    BY <1>3, PresentLinks
  <2>2. QED
    BY <1>1, <1>2, <2>1 DEF Present, Links
<1>5. "dropped" \in Unseen
  BY DEF Unseen
<1>6. QED
  BY <1>2, <1>3, <1>4, <1>5, UnseenKeeps

(* The links of an interface without addresses keep all but their timer    *)
(* and their two-hop addresses.                                            *)
LEMMA InterfaceDownKeeps ==
    ASSUME Inv, InterfaceDown
    PROVE  Inv'
<1> DEFINE down(lnk) == [lnk EXCEPT !.symtime = FALSE, !.two = NoTwoHops]
<1>1. link \in Links
  BY DEF Inv, TypeOK, Links
<1>2. /\ link' = [n \in Neighbors |-> IF link[n].present THEN down(link[n]) ELSE link[n]]
      /\ unseen' = unseen \cup {"interface"}
      /\ nodeIsMpr' = nodeIsMpr /\ says' = says /\ changes' = changes
  BY DEF InterfaceDown
<1>3. ASSUME NEW lnk \in Link
      PROVE  /\ down(lnk) \in Link /\ down(lnk).flooding = lnk.flooding
             /\ down(lnk).will = lnk.will /\ down(lnk).selector = lnk.selector
  <2>1. NoTwoHops \in [TwoHops -> Metric]
    BY MprAssumption DEF NoTwoHops, Metric
  <2>2. QED
    BY <2>1 DEF Link
<1> HIDE DEF down
<1>4. ASSUME NEW n \in Neighbors
      PROVE  /\ link[n].present => link'[n] = down(link[n]) /\ link[n] \in Link
             /\ ~link[n].present => link'[n] = link[n] /\ link[n] = NoLink
  BY <1>1, <1>2, PresentLinks
<1>5. link' \in Links
  <2>1. \A n \in Neighbors : link'[n] \in Link \cup {NoLink}
    BY <1>3, <1>4
  <2>2. QED
    BY <1>2, <2>1 DEF Links
<1>6. \A n \in Neighbors : n \in Present(link') <=> n \in Present(link)
  BY <1>1, <1>3, <1>4, <1>5, PresentLinks
<1>7. Present(link') = Present(link)
  BY <1>6 DEF Present
<1>8. \A n \in Present(link) : n \in Neighbors /\ link[n].present
  BY DEF Present
<1>9. "interface" \in Unseen
  BY DEF Unseen
<1>10. QED
  BY <1>2, <1>3, <1>4, <1>5, <1>7, <1>8, <1>9, UnseenKeeps

(* _cb_link_heard updates a status and tells nobody.                       *)
LEMMA HeardTimeoutKeeps ==
    ASSUME Inv, NEW n \in Neighbors, HeardTimeout(n)
    PROVE  Inv'
<1>1. link \in Links
  BY DEF Inv, TypeOK, Links
<1>2. /\ link' = [link EXCEPT ![n] = UpdateStatus(@)] /\ unseen' = unseen \cup {"status"}
      /\ nodeIsMpr' = nodeIsMpr /\ says' = says /\ changes' = changes
      /\ link[n].present
  BY DEF HeardTimeout
<1>3. link[n] \in Link
  BY <1>1, <1>2, PresentLinks
<1>4. UpdateStatus(link[n]) \in Link
  BY <1>3, UpdateStatusLink
<1>5. /\ link' \in Links /\ link'[n] = UpdateStatus(link[n])
      /\ \A m \in Neighbors : m /= n => link'[m] = link[m]
  BY <1>1, <1>2, <1>4 DEF Links
<1>6. n \in Present(link') /\ n \in Present(link)
  BY <1>1, <1>3, <1>4, <1>5, PresentLinks
<1>7. Present(link') = Present(link)
  BY <1>5, <1>6 DEF Present
<1>8. \A m \in Present(link) :
        /\ link'[m].flooding = link[m].flooding
        /\ link'[m].will = link[m].will /\ link'[m].selector = link[m].selector
  BY <1>3, <1>5, UpdateStatusLink DEF Present
<1>9. "status" \in Unseen
  BY DEF Unseen
<1>10. QED
  BY <1>2, <1>5, <1>7, <1>8, <1>9, UnseenKeeps

(* The timers end a link, its symmetry or a two-hop address.               *)
LEMMA TimeoutKeeps ==
    ASSUME Inv, NEW n \in Neighbors, Timeout(n)
    PROVE  Inv'
<1>1. /\ link \in Links /\ says \in [Neighbors -> Hello \cup {Silent}]
      /\ changes \in 0 .. MaxChanges
  BY DEF Inv, TypeOK, Links
<1>2. link[n].present => link[n] \in Link
  BY <1>1, PresentLinks
<1>3. CASE SymTimeout(n)
  <2>1. link[n] \in Link
    BY <1>2, <1>3 DEF SymTimeout
  <2>2. [link[n] EXCEPT !.symtime = FALSE] \in Link
    BY <2>1 DEF Link
  <2>3. UpdateStatus([link[n] EXCEPT !.symtime = FALSE]) \in Link
    BY <2>2, UpdateStatusLink
  <2> DEFINE l == [link EXCEPT ![n] = UpdateStatus([@ EXCEPT !.symtime = FALSE])]
  <2>4. l \in Links
    BY <1>1, <2>3 DEF Links
  <2>5. NeighborChanged(l) /\ says' = says /\ changes' = changes
    BY <1>3 DEF SymTimeout
  <2> HIDE DEF l
  <2>6. QED
    BY <1>1, <2>4, <2>5, NeighborChangedKeeps
<1>4. CASE LinkTimeout(n)
  <2> DEFINE l == [link EXCEPT ![n] = NoLink]
  <2>1. l \in Links
    BY <1>1 DEF Links
  <2>2. NeighborChanged(l) /\ says' = says /\ changes' = changes
    BY <1>4 DEF LinkTimeout
  <2> HIDE DEF l
  <2>3. QED
    BY <1>1, <2>1, <2>2, NeighborChangedKeeps
<1>5. ASSUME NEW y \in TwoHops, TwoHopTimeout(n, y)
      PROVE  Inv'
  <2>1. link[n] \in Link
    BY <1>2, <1>5 DEF TwoHopTimeout
  <2>2. [link[n].two EXCEPT ![y] = Infinite] \in [TwoHops -> Metric]
    <3>1. Infinite \in Metric
      BY MprAssumption DEF Metric
    <3>2. QED
      BY <2>1, <3>1, LinkFields
  <2>3. [link[n] EXCEPT !.two = [link[n].two EXCEPT ![y] = Infinite]] \in Link
    BY <2>1, <2>2 DEF Link
  <2> DEFINE l == [link EXCEPT ![n].two[y] = Infinite]
  <2>4. l \in Links
    BY <1>1, <2>3 DEF Links
  <2>5. NeighborChanged(l) /\ says' = says /\ changes' = changes
    BY <1>5 DEF TwoHopTimeout
  <2> HIDE DEF l
  <2>6. QED
    BY <1>1, <2>4, <2>5, NeighborChangedKeeps
<1>6. QED
  BY <1>3, <1>4, <1>5, HeardTimeoutKeeps DEF Timeout
-----------------------------------------------------------------------------
(* At the start there are no links.                                        *)
LEMMA InitInv == Init => Inv
<1> SUFFICES ASSUME Init PROVE Inv
  OBVIOUS
<1>1. link \in Links /\ \A n \in Neighbors : link[n] = NoLink
  BY DEF Init, Links
<1>2. Present(link) = {}
  BY <1>1, PresentLinks DEF Present
<1>3. TypeOK
  <2>1. changes \in 0 .. MaxChanges
    BY MprAssumption DEF Init
  <2>2. QED
    BY <1>1, <2>1 DEF Init, TypeOK, Links
<1>4. QED
  BY <1>2, <1>3 DEF Init, Inv, SelectorsKnown, StaleOnlyIfUnseen, UpToDate, WillingOnly, Marked

(* Every step keeps them.                                                  *)
LEMMA NextInv == Inv /\ [Next]_vars => Inv'
<1> SUFFICES ASSUME Inv, [Next]_vars PROVE Inv'
  OBVIOUS
<1>1. ASSUME NEW n \in Neighbors, NEW h \in Hellos \cup {Silent}, Change(n, h)
      PROVE  Inv'
  <2>1. TypeOK'
    BY <1>1, MprAssumption DEF Inv, TypeOK, Change
  <2>2. SelectorsKnown' /\ StaleOnlyIfUnseen' /\ WillingOnly'
    BY <1>1 DEF Inv, Change, SelectorsKnown, StaleOnlyIfUnseen, UpToDate, WillingOnly
  <2>3. QED
    BY <2>1, <2>2 DEF Inv
<1>2. CASE UNCHANGED vars
  BY <1>2 DEF vars, Inv, TypeOK, SelectorsKnown, StaleOnlyIfUnseen, UpToDate, WillingOnly
<1>3. QED
  BY <1>1, <1>2, ReceiveHelloKeeps, DropHelloKeeps, InterfaceDownKeeps, TimeoutKeeps DEF Next

(* The data of the links keep their types.                                 *)
THEOREM TypeCorrect == Spec => []TypeOK
<1>1. Inv => TypeOK
  BY DEF Inv
<1>2. QED
  BY InitInv, NextInv, <1>1, PTL DEF Spec

(* A router that a present neighbor has chosen always knows it, so that    *)
(* TCs are sent when they are needed; it believes so without reason only   *)
(* between a dropped HELLO and the next calculation.                       *)
THEOREM SelectorsAlwaysKnown == Spec => []SelectorsKnown
<1>1. Inv => SelectorsKnown
  BY DEF Inv
<1>2. QED
  BY InitInv, NextInv, <1>1, PTL DEF Spec

(* The marks of the flooding MPRs are stale only if the last calculation   *)
(* has not seen a dropped HELLO, an interface that lost its addresses, or  *)
(* a status that was updated without it: every other change recalculates.  *)
THEOREM MarksFollowLinks == Spec => []StaleOnlyIfUnseen
<1>1. Inv => StaleOnlyIfUnseen
  BY DEF Inv
<1>2. QED
  BY InitInv, NextInv, <1>1, PTL DEF Spec

(* Marks that are up to date have a reason: WILL_ALWAYS, the only relay,   *)
(* or a place on a shortest way to an address that needs an MPR.           *)
LEMMA MarksHaveReason == ASSUME Inv PROVE ChosenForReason
<1>1. link \in Links
  BY DEF Inv, TypeOK, Links
<1> DEFINE g == Graph(link)
<1>2. NeighborGraph(g)
  BY <1>1, GraphOfLinks
<1>3. SUFFICES ASSUME UpToDate, NEW x \in Marked(link)
               PROVE  x \in AlwaysWilling(g) \cup OnlyRelays(g) \/ Shortest(g, x)
  BY DEF ChosenForReason, Shortest
<1>4. x \in MprsRfc7181(g)
  BY <1>3 DEF UpToDate, Marked, Mprs
<1> HIDE DEF g
<1> QED
  BY <1>2, <1>4, MprsReason

(* No neighbor is asked to relay without being willing, not even by marks  *)
(* that are stale; and the selection makes nobody an MPR without a reason. *)
THEOREM MarksAlwaysJustified == Spec => []MarksJustified
<1>1. Inv => MarksJustified
  BY MarksHaveReason DEF Inv, MarksJustified
<1>2. QED
  BY InitInv, NextInv, <1>1, PTL DEF Spec
=============================================================================
