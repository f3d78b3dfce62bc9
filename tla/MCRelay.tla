------------------------------- MODULE MCRelay -------------------------------
(***************************************************************************)
(* Small instances of Relay for TLC.                                       *)
(***************************************************************************)
EXTENDS Relay, TLC

CONSTANTS p1, p2, p3, b1, b2, k1

ConnSymmetry == Permutations(Conns)
=============================================================================
