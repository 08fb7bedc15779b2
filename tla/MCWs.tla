-------------------------------- MODULE MCWs --------------------------------
(***************************************************************************)
(* Small instances of WsTransport for TLC.                                 *)
(***************************************************************************)
EXTENDS WsTransport

\* connect() is called once, as the SDK does outside its retry loop.
Once == {"idle"}

\* The retry loop and the application call connect() again: while a retry is
\* pending, and after disconnect().
Again == {"idle", "reconnecting", "closed"}

\* Every combination with a heartbeat, and the plainest use without one.
EveryUse == [auth: BOOLEAN, reconnect: BOOLEAN, beats: {TRUE}, connectIn: {Once, Again}]
            \cup [auth: {FALSE}, reconnect: {TRUE}, beats: {FALSE}, connectIn: {Once}]
=============================================================================
