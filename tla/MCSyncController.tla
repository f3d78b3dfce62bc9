-------------------------- MODULE MCSyncController --------------------------
(***************************************************************************)
(* Small instances of SyncController for TLC.                              *)
(***************************************************************************)
EXTENDS SyncController
=============================================================================
