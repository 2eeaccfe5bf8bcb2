---------------------------- MODULE PtsRegister ----------------------------
(***************************************************************************)
(* What the pts-addr table promises of the sessions: who reads all that    *)
(* was sent to it finds the numbers of those that have announced           *)
(* themselves and not withdrawn.  A message that is lost makes the         *)
(* register wrong for its number and for no other, and no reading, stop,   *)
(* restart or end of a process changes what it will say.                   *)
(***************************************************************************)

CONSTANT Ids    \* the process ids of sessions

VARIABLES
  told,     \* the numbers of the sessions that are in service
  entered,  \* those that the register has
  wrong     \* those of which a message was lost

rvars == <<told, entered, wrong>>

RegisterInit == told = {} /\ entered = {} /\ wrong = {}

\* The message of n arrives, or does not.
Arrives(n, after) ==
  \/ entered' = after /\ UNCHANGED wrong
  \/ wrong' = wrong \cup {n} /\ UNCHANGED entered

Enter(n) ==
  /\ n \notin told
  /\ told' = told \cup {n}
  /\ Arrives(n, entered \cup {n})

Leave(n) ==
  /\ n \in told
  /\ told' = told \ {n}
  /\ Arrives(n, entered \ {n})

RegisterNext == \E n \in Ids : Enter(n) \/ Leave(n)
RegisterSpec == RegisterInit /\ [][RegisterNext]_rvars
=============================================================================
