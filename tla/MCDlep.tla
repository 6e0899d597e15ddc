------------------------------- MODULE MCDlep --------------------------------
(***************************************************************************)
(* Dlep for TLC: one neighbor of the radio with two values of its metrics; *)
(* signals of one neighbor already interleave with heartbeats, the         *)
(* handshake, the termination and each other.                              *)
(***************************************************************************)
EXTENDS Dlep
=============================================================================
