---------------------------- MODULE MCHandshake ----------------------------
(***************************************************************************)
(* Handshake for TLC.  No definition tells the devices apart.              *)
(***************************************************************************)
EXTENDS Handshake, TLC

Symmetry == Permutations(Device)
=============================================================================
