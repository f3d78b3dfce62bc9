------------------------------- MODULE MCCollab -------------------------------
(***************************************************************************)
(* A board shared by an owner and two guests for TLC.                      *)
(***************************************************************************)
EXTENDS Collab, TLC

CONSTANTS owner, g1, g2

GuestSymmetry == Permutations(Guests)
=============================================================================
