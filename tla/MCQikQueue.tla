------------------------------ MODULE MCQikQueue -------------------------------
(***************************************************************************)
(* QikQueue.tla on small rings, with two commands: one of a single payload *)
(* byte that expects a response, one of two bytes that does not.  Payload  *)
(* bytes are also possible length bytes, so that a corrupted length both   *)
(* fits tmpCmd[] and does not.                                             *)
(***************************************************************************)
EXTENDS QikQueue, TLC

MCCalls == {[buf |-> <<2>>, expectResponse |-> 1],
            [buf |-> <<1, 3>>, expectResponse |-> 0]}

\* The HTTP threads are alike.
Symmetry == Permutations(Threads \ {Main})
================================================================================
