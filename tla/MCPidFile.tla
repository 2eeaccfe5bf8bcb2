----------------------------- MODULE MCPidFile -----------------------------
(***************************************************************************)
(* Process ids of one length and of another; ids of a length are alike.    *)
(***************************************************************************)
EXTENDS PidFile, TLC

CONSTANT Short

AnyIds == Permutations(Short) \cup Permutations(Long) \cup Permutations(Inodes)

ThePids == Short \cup Long
=============================================================================
