------------------------------- MODULE MCTelebra -------------------------------
(***************************************************************************)
(* Telebra.tla with two directions that drive the second motor against     *)
(* each other.                                                             *)
(***************************************************************************)
EXTENDS Telebra

MCDirections == {"UP", "LEFT"}
================================================================================
