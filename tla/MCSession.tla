----------------------------- MODULE MCSession -----------------------------
(***************************************************************************)
(* Small instances of Session for TLC.                                     *)
(***************************************************************************)
EXTENDS SessionProperties, TLC

CONSTANTS s1, s2, s3, alice, bob, carol, r1, r2, audio

NoLimits == [chat |-> 0, presence |-> 0]
PresenceLimited == [chat |-> 0, presence |-> 1]

At(p, r) == [peer |-> p, room |-> r]

\* Three peers come to r1 over two sockets; s1 changes identity, s2 rooms and identity, and
\* alice has a tab in each room.
RoamingClaims == s1 :> {At(alice, r1), At(carol, r1)}
              @@ s2 :> {At(alice, r2), At(bob, r1)}

\* One room: s1 changes identity, s2 is a second tab of alice.
SharedClaims == s1 :> {At(alice, r1), At(bob, r1)}
             @@ s2 :> {At(alice, r1)}
             @@ s3 :> {At(carol, r1)}
=============================================================================
