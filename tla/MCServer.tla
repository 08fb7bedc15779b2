------------------------------ MODULE MCServer ------------------------------
(***************************************************************************)
(* Small instances of SignalingServer for TLC.                             *)
(***************************************************************************)
EXTENDS SignalingServer, TLC

CONSTANTS s1, s2, alice, bob, r1

At(p, r) == [peer |-> p, room |-> r]

\* Each socket has one identity of its own.
OwnClaims == s1 :> {At(alice, r1)} @@ s2 :> {At(bob, r1)}

\* One chat per second, presence unlimited.
ChatLimited == [chat |-> 1, presence |-> 0]
=============================================================================
