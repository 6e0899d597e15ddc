----------------------------- MODULE MCNhdpMpr ------------------------------
(***************************************************************************)
(* NhdpMpr for TLC: three neighbors and three addresses behind them, one   *)
(* of which is a neighbor itself.                                          *)
(***************************************************************************)
EXTENDS NhdpMpr, TLC

Says(us, will, out, mpr, two) ==
    [us |-> us, will |-> will, out |-> out, mpr |-> mpr, two |-> two]
Two(a, b, c) == (3 :> a) @@ (4 :> b) @@ (5 :> c)

(* Addresses 4 and 5 are behind neighbors, 3 is a neighbor that others     *)
(* hear as well, nearer than this router or not.                           *)
MCHellos ==
    {Says("heard", 7, 1, FALSE, Two(0, 1, 1)),
     Says("heard", 7, 1, TRUE, Two(2, 1, 0)),
     Says("heard", 8, 1, FALSE, Two(9, 0, 1)),
     Says("heard", 0, 1, FALSE, Two(1, 1, 1)),
     Says("heard", 15, 8, TRUE, Two(0, 0, 0)),
     Says("lost", 15, 2, TRUE, Two(0, 1, 9)),
     Says("none", 7, 9, FALSE, Two(0, 0, 1))}
=============================================================================
