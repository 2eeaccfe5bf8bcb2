--------------------------- MODULE TerminalStream ---------------------------
(***************************************************************************)
(* What a session promises for the output of the login process: the        *)
(* terminal receives a prefix of it, in pieces, every byte once and in     *)
(* order, and nothing any more once the session has closed.                *)
(***************************************************************************)
EXTENDS Naturals, Sequences

VARIABLES
  written,    \* bytes the login process has written so far
  delivered,  \* what the terminal has received, bytes by their number
  open        \* the session has not closed yet

svars == <<written, delivered, open>>

StreamInit == written = 0 /\ delivered = <<>> /\ open = TRUE

Produce == written' = written + 1 /\ UNCHANGED <<delivered, open>>

Deliver ==
  /\ open
  /\ \E n \in (Len(delivered) + 1)..written : delivered' = [i \in 1..n |-> i]
  /\ UNCHANGED <<written, open>>

Shut == open /\ open' = FALSE /\ UNCHANGED <<written, delivered>>

StreamNext == Produce \/ Deliver \/ Shut
StreamSpec == StreamInit /\ [][StreamNext]_svars
=============================================================================
