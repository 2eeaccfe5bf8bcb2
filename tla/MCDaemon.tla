------------------------------ MODULE MCDaemon ------------------------------
(***************************************************************************)
(* The process ids with which the runs check the daemon, and the symmetry  *)
(* of its calls, for the run that checks no liveness.                      *)
(***************************************************************************)
EXTENDS Daemon, TLC

TwoPids  == {871, 872}
AnyCalls == Permutations(Calls)
=============================================================================
