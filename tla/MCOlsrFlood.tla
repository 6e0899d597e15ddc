---------------------------- MODULE MCOlsrFlood ----------------------------
(***************************************************************************)
(* OlsrFlood for TLC: four routers in a ring and in a line, and three that *)
(* are not all heard both ways.                                            *)
(***************************************************************************)
EXTENDS OlsrFlood

MCRouters == 1 .. 4
MCAddressesOf == <<{"a", "b"}, {"c"}, {"d"}, {"e"}>>
MCPriority == [x \in {"a", "b", "c", "d", "e"} |-> IF x = "b" THEN 2 ELSE 4]

Ring == <<{2, 3}, {1, 4}, {1, 4}, {2, 3}>>
Line == <<{2}, {1, 3}, {2, 4}, {3}>>
Triangle == <<{2, 3}, {1, 3}, {1, 2}, {}>>
OneWay == <<{2}, {1}, {}, {}>>

Mesh(hears, sym, mpr, lossy, moving, changing) ==
    [hears |-> hears, sym |-> sym, mpr |-> mpr,
     lossy |-> lossy, moving |-> moving, changing |-> changing]

(* In the ring one neighbor or both may be chosen.                         *)
MCMeshes ==
    {Mesh(Ring, Ring, <<m, {1, 4}, {1, 4}, {2, 3}>>, {}, {}, {}) : m \in {{2}, {2, 3}}}
    \cup {Mesh(Ring, Ring, Ring, {3}, {}, {1}),
          Mesh(Line, Line, Line, {}, {1}, {}),
          Mesh(Triangle, OneWay, OneWay, {}, {}, {1})}
=============================================================================
