------------------------------ MODULE MCQikDriver ------------------------------
(***************************************************************************)
(* QikDriver.tla with the commands of a client that starts and stops both  *)
(* motors.                                                                 *)
(***************************************************************************)
EXTENDS QikDriver, TLC

\* One of the four parameters main() asks for.
MCParameters == <<0>>

\* Both motors, both halves of the speeds, and a stop.
MCCommands == {SetForward(0, 128), SetReverse(1, 1), SetForward(0, 0)}
================================================================================
