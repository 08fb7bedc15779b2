------------------------------- MODULE MCRoom -------------------------------
(***************************************************************************)
(* Small instances of RoomLeader for TLC.                                  *)
(***************************************************************************)
EXTENDS RoomLeader
=============================================================================
