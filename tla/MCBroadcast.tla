---------------------------- MODULE MCBroadcast ----------------------------
(* A small instance of Broadcast for TLC. *)
EXTENDS Broadcast, TLC

CONSTANTS w1, w2
=============================================================================
