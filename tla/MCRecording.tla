---------------------------- MODULE MCRecording ----------------------------
(***************************************************************************)
(* Model-checking instances of Recording: four chunks, the third twice as  *)
(* large; two or three fit the uploader's queue and the fourth overflows   *)
(* the recorder's buffer.                                                  *)
(***************************************************************************)
EXTENDS Recording

FourChunks == <<1, 1, 2, 1>>
ThreeChunks == <<1, 2, 1>>
=============================================================================
