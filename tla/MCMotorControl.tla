---------------------------- MODULE MCMotorControl -----------------------------
(***************************************************************************)
(* MotorControl.tla with three requests at a time, for two directions that *)
(* differ in what the second motor does.                                   *)
(***************************************************************************)
EXTENDS MotorControl, TLC

MCDirections == {"UP", "LEFT"}

Symmetry == Permutations(Workers)
================================================================================
