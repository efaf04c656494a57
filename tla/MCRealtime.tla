----------------------------- MODULE MCRealtime -----------------------------
(***************************************************************************)
(* Instances of Realtime for TLC.                                          *)
(***************************************************************************)
EXTENDS Realtime, TLC

\* WebSocket objects are interchangeable (safety runs only)
Symmetry == Permutations(Sockets)
=============================================================================
