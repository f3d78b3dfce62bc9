------------------------------ MODULE MCHandshake ------------------------------
(***************************************************************************)
(* A small instance of SnapshotHandshake for TLC: an owner and two guests   *)
(* that join after it.                                                     *)
(***************************************************************************)
EXTENDS SnapshotHandshake, TLC

CONSTANTS n1, n2

NewcomerSymmetry == Permutations(Newcomers)
=============================================================================
