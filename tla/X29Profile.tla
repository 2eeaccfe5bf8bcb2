----------------------------- MODULE X29Profile -----------------------------
(***************************************************************************)
(* The X.3 profile that a session sends to the terminal when a call comes  *)
(* in: what readcfg makes of an x29_profile line (cfgfile.c), and the SET  *)
(* message that x29set_default builds of it (x29proto.c).                  *)
(***************************************************************************)
EXTENDS Integers, Sequences

MAXX29PROFILE == 25

P(r, v) == [ref |-> r, value |-> v]

\* A pair of a line, or an entry of it that is no pair of numbers.
NoPair == P(-1, -1)

Takes(p) == p.ref \in 1..30 /\ p.value \in 0..255

\* The parameters readcfg takes from a line, in their order, pair by pair.
Accepted(pairs) ==
  LET taken[n \in 0..Len(pairs)] ==
        IF n = 0 THEN <<>>
        ELSE IF Takes(pairs[n]) THEN Append(taken[n - 1], pairs[n])
        ELSE taken[n - 1]
  IN  taken[Len(pairs)]

\* The table after the line: what an earlier line left behind stays there.
Entered(profile, pairs) ==
  LET new == Accepted(pairs) IN
  [i \in 1..MAXX29PROFILE |-> IF i <= Len(new) THEN new[i] ELSE profile[i]]

\* X29_profile_len, the index of the last parameter from 0 on.
LenOf(pairs) == Len(Accepted(pairs)) - 1

ProfileDefault ==
  <<P(1, 0), P(2, 0), P(3, 0), P(4, 1), P(13, 4), P(15, 0)>>

\* Behind the default profile, of 6 parameters, lies whatever the linker put
\* there; the loop up to and with X29_profile_default_len sends it too.
Behind == P(0, 0)

\* The parameters of the SET message; none is sent when there are none.  The
\* mutant takes X29_profile_len for their number.
SentExclusive(profile, len) ==
  IF len = 0 THEN Append(ProfileDefault, Behind) ELSE SubSeq(profile, 1, len)
Sent(profile, len) ==
  IF len = 0 THEN Append(ProfileDefault, Behind) ELSE SubSeq(profile, 1, len + 1)

\* Q bit, code and parameters, in the memory for MAXX29PROFILE pairs.
MessageLength(params) == 2 + 2 * Len(params)
=============================================================================
