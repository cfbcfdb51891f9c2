----------------------------- MODULE MCHttpdAccept -----------------------------
(***************************************************************************)
(* HttpdAccept.tla with three clients: orderly ones, with threads for all  *)
(* of them or not, and ones that overlap and hang up.                      *)
(***************************************************************************)
EXTENDS HttpdAccept

MCSettings ==
  {[patient |-> TRUE,  atOnce |-> 1, threads |-> 3],
   [patient |-> FALSE, atOnce |-> 3, threads |-> 3],
   [patient |-> TRUE,  atOnce |-> 1, threads |-> 2]}

\* Two clients in quick succession.
RaceSettings == {[patient |-> TRUE, atOnce |-> 2, threads |-> 2]}
================================================================================
