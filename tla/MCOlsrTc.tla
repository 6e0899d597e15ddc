------------------------------ MODULE MCOlsrTc ------------------------------
(***************************************************************************)
(* Routers a and b advertise each other, c advertises nothing or is only   *)
(* advertised; the content of a TC follows from originator and ANSN.  One  *)
(* of them is marked as incomplete.  The routes are computed for a router  *)
(* next to a and b, one with a link to a that is not symmetric, and one    *)
(* that has c as its former originator and an attached network.            *)
(***************************************************************************)
EXTENDS OlsrDijkstra, TLC

E(out, in) == [out |-> out, in |-> in]
N(mesh, cost) == [mesh |-> mesh, cost |-> cost]
None == [x \in {} |-> 0]
Tc(o, s, e, n, v) ==
    [orig |-> o, ansn |-> s, complete |-> TRUE, vtime |-> v, edges |-> e, nets |-> n]

MCTcs ==
    { Tc("a", 0, "b" :> E(1, 2), "p" :> N(TRUE, 3), 1),
      Tc("a", 1, "b" :> E(2, 1) @@ "c" :> E(4, Infinite), None, 2),
      Tc("a", 2, "c" :> E(Infinite, 5), "p" :> N(TRUE, Infinite), 1),
      Tc("a", 3, None, "p" :> N(FALSE, 2) @@ "q" :> N(FALSE, 1), 2),
      Tc("b", 0, "a" :> E(3, 4), "p" :> N(FALSE, 2), 2),
      [Tc("b", 1, "c" :> E(1, 1), None, 1) EXCEPT !.complete = FALSE],
      Tc("c", 0, "b" :> E(2, 6), None, 1) }
BadTc == {Tc("b", 0, None, "q" :> N(FALSE, 1), 1)}

MCAddresses == {"a1", "a2", "b1", "p"}
MCRoutable == {"a", "b", "c", "p", "q", "a1", "b1"}
Link(addr, in, out, sym, two) ==
    [addr |-> addr, in |-> in, out |-> out, symmetric |-> sym, two |-> two]
Neigh(orig, addrs, links) == [orig |-> orig, addrs |-> addrs, links |-> links]
Around(neigh, local, own, lan) ==
    [neigh |-> neigh, local |-> local, own |-> own, lan |-> lan]

MCSurroundings ==
    { Around(<<Neigh("a", {"a1", "p"}, <<Link("a1", 2, 6, TRUE, "b1" :> 2)>>),
               Neigh("b", {"b1"}, <<Link("b1", 1, 2, TRUE, "a1" :> 1 @@ "p" :> Infinite)>>)>>,
             {}, {}, None),
      Around(<<Neigh("a", {"a1", "a2"},
                     <<Link("a2", 1, 1, FALSE, None), Link("a1", 1, 4, TRUE, "p" :> 3)>>),
               Neigh("c", {"b1"}, <<Link("b1", Infinite, 1, TRUE, "a1" :> 5)>>)>>,
             {}, {}, "q" :> 3),
      Around(<<Neigh("b", {"b1"}, <<Link("b1", 3, 1, TRUE, "a1" :> 3)>>)>>,
             {"c"}, {"a1"}, "p" :> 4 @@ "q" :> Infinite) }
=============================================================================
