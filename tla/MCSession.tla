----------------------------- MODULE MCSession -----------------------------
(***************************************************************************)
(* The settings with which the runs check a session: the pairs of          *)
(* Forward_idle_timeout and Buffer_size the configuration file may hold.   *)
(***************************************************************************)
EXTENDS SessionProps

Pair(f, s) == [fwd |-> f, size |-> s]

Held  == {Pair(1, 4)}              \* output is held back
Tight == {Pair(0, 2), Pair(1, 2)}  \* or not, in a buffer that fills up
=============================================================================
