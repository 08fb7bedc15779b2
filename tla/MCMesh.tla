------------------------------- MODULE MCMesh -------------------------------
(***************************************************************************)
(* Small instances of Mesh for TLC.                                        *)
(***************************************************************************)
EXTENDS Mesh

Environment(auto, auth, ice, prompt) ==
    [auto |-> auto, auth |-> auth, ice |-> ice, prompt |-> prompt]

\* The transport leaves reconnecting to the client, with messages slower or faster than
\* retries; it does it itself; `auth` may fail; peer connections may fail.
Each == {Environment(FALSE, FALSE, FALSE, FALSE), Environment(FALSE, FALSE, FALSE, TRUE),
         Environment(TRUE, FALSE, FALSE, TRUE), Environment(FALSE, TRUE, FALSE, TRUE),
         Environment(FALSE, FALSE, TRUE, TRUE)}
Ice == {Environment(FALSE, FALSE, TRUE, TRUE)}
=============================================================================
