----------------------------- MODULE TcBroadcast -----------------------------
(***************************************************************************)
(* What flooding promises the topology database of OLSRv2: a TC is handed  *)
(* to a router at most once, only if some router made it, and never to the *)
(* router that made it.  It says nothing of radio, duplicates, relays and  *)
(* order; OlsrFlood implements it.                                         *)
(***************************************************************************)
CONSTANTS
    Routers,       \* the routers of the mesh
    Tcs            \* all TCs that may ever be made; maker is their router

VARIABLES
    made,          \* the TCs that were made
    got            \* router -> the TCs its database was offered

vars == <<made, got>>

Init ==
    /\ made = {}
    /\ got = [r \in Routers |-> {}]

(* A router makes a TC.                                                    *)
Make(m) ==
    /\ m \in Tcs \ made
    /\ made' = made \cup {m}
    /\ UNCHANGED got

(* A TC reaches the database of another router, for the first time.        *)
Deliver(r, m) ==
    /\ m \in made \ got[r]
    /\ m.maker /= r
    /\ got' = [got EXCEPT ![r] = @ \cup {m}]
    /\ UNCHANGED made

Next == \E m \in Tcs : Make(m) \/ \E r \in Routers : Deliver(r, m)

Spec == Init /\ [][Next]_vars
=============================================================================
