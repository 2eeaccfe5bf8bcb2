------------------------------ MODULE MCFiles ------------------------------
(***************************************************************************)
(* The two readers of files, which share nothing, checked in one run: a    *)
(* behaviour is one of Config or one of Issue.                             *)
(***************************************************************************)
EXTENDS Config, Issue, TLC

VARIABLE reader

TheNumbers   == {-1, 0, 1, 6, 5000}
TheAddresses == {-1, 4, 16}
Long(n)      == [i \in 1..n |-> P(i, 0)]
TheProfiles  ==
  {<<>>, <<P(1, 1)>>, <<P(31, 1), P(1, 256)>>,
   <<P(2, 1), NoPair, P(4, 255)>>, <<P(1, 0), P(2, 0), P(3, 7)>>,
   Long(24), Long(25), Long(26)}

TheChars   == {"a", "n", "o", "\\", "%", "nl"}
TheEscapes == {"\\", "%"}
TheValue   == "n" :> <<"a", "a", "a">>

Init ==
  /\ reader \in {"config", "issue"}
  /\ CfgInit /\ IssueInit
  /\ reader = "config" => text = <<>>
  /\ reader = "issue" => file = "absent"

Next ==
  \/ reader = "config" /\ CfgNext /\ UNCHANGED <<reader, ivars>>
  \/ reader = "issue" /\ IssueNext /\ UNCHANGED <<reader, cvars>>

Spec == Init /\ [][Next]_<<reader, cvars, ivars>>
=============================================================================
