----------------------------- MODULE MCChannel -----------------------------
(***************************************************************************)
(* Small instances of RoomChannel for TLC.                                 *)
(***************************************************************************)
EXTENDS RoomChannel

\* The transport leaves reconnecting to the channel, or does it itself.
Either == {[auto |-> FALSE, replay |-> TRUE], [auto |-> TRUE, replay |-> FALSE]}
=============================================================================
