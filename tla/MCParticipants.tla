---------------------------- MODULE MCParticipants ----------------------------
(***************************************************************************)
(* The participant panels of an owner and two guests for TLC.              *)
(***************************************************************************)
EXTENDS Participants, TLC

CONSTANTS owner, g1, g2

GuestSymmetry == Permutations(Guests)
=============================================================================
