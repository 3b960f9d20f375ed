---------------------------- MODULE MCBroadcast ----------------------------
(* TLC instance of Broadcast. *)
EXTENDS Broadcast
=============================================================================
