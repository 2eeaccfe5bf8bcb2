-------------------------------- MODULE Issue --------------------------------
(***************************************************************************)
(* issue_out (issue.c): the login process shows /etc/issue.net, with the   *)
(* escapes in it replaced.  fgets gives the file in pieces, a line or what *)
(* fits its buffer, and each piece is expanded into a buffer of the same   *)
(* size; whether a character is escaped is carried from piece to piece.    *)
(***************************************************************************)
EXTENDS Integers, Sequences

CONSTANTS
  Chars,     \* the characters of the file
  Escapes,   \* those that begin an escape, \ and %
  Newline,
  Value,     \* what is put for the letters that stand for something
  Size,      \* of buf and bufout
  MaxText    \* bound: the length of the file

ASSUME IssueAssumption ==
  /\ Escapes \subseteq Chars /\ Newline \in Chars \ Escapes
  /\ DOMAIN Value \subseteq Chars \ (Escapes \cup {Newline})
  /\ Size \in Nat /\ Size >= 2 /\ MaxText \in Nat
  /\ \A c \in DOMAIN Value : Value[c] \in Seq(Chars)

VARIABLES
  text,      \* the file
  end,       \* the end of the piece in buf; what is before it was read
  it,        \* the characters of the file that were looked at
  flagc,     \* the next one is escaped
  bufout,    \* the expansion of the piece so far
  shown,     \* what was printed
  cut,       \* something did not fit in bufout
  state      \* "file": before fopen, "piece": before fgets, "char", "login"

ivars == <<text, end, it, flagc, bufout, shown, cut, state>>

IssueInit ==
  /\ text \in UNION {[1..n -> Chars] : n \in 0..MaxText}
  /\ end = 0 /\ it = 0 /\ flagc = FALSE
  /\ bufout = <<>> /\ shown = <<>> /\ cut = FALSE /\ state = "file"

\* uname and fopen succeed, or nothing is shown.
OpenIssue ==
  /\ state = "file"
  /\ state' = "piece"
  /\ UNCHANGED <<text, end, it, flagc, bufout, shown, cut>>

NoIssue ==
  /\ state = "file"
  /\ state' = "login"
  /\ UNCHANGED <<text, end, it, flagc, bufout, shown, cut>>

\* fgets: to the end of the line or of the file, at most Size - 1 characters.
\* The mutant has issue_out forget the escape at the end of a piece.
LastOf(n) ==
  \/ n = Len(text)
  \/ n = end + Size - 1
  \/ text[n] = Newline
PieceEnds(n) ==
  /\ n \in (end + 1)..Len(text)
  /\ LastOf(n)
  /\ \A m \in (end + 1)..(n - 1) : ~LastOf(m)

FlagForgotten == flagc' = FALSE
FlagCarried == UNCHANGED flagc

Gets ==
  /\ state = "piece"
  /\ \E n \in (end + 1)..Len(text) : PieceEnds(n) /\ end' = n
  /\ state' = "char" /\ bufout' = <<>>
  /\ FlagCarried
  /\ UNCHANGED <<text, it, shown, cut>>

\* insstr and insc: as much as fits before the 0 at the end of bufout; the
\* mutant makes no room for the 0.
RoomToTheEnd == Size - Len(bufout)
Room == Size - 1 - Len(bufout)

Insert(str) ==
  /\ bufout' = bufout \o SubSeq(str, 1, IF Len(str) < Room THEN Len(str) ELSE Room)
  /\ cut' = (cut \/ Len(str) > Room)

cc == text[it + 1]
pcc == text[it]

\* What an escaped character stands for: itself if it is the one before it, a
\* value, or nothing.
Meaning(prev, c) ==
  IF c = prev THEN <<c>> ELSE IF c \in DOMAIN Value THEN Value[c] ELSE <<>>

Escaped ==
  /\ flagc
  /\ Insert(Meaning(pcc, cc))
  /\ flagc' = FALSE

Begins ==
  /\ ~flagc /\ cc \in Escapes
  /\ flagc' = TRUE
  /\ UNCHANGED <<bufout, cut>>

Plain ==
  /\ ~flagc /\ cc \notin Escapes
  /\ Insert(<<cc>>)
  /\ UNCHANGED flagc

Char ==
  /\ state = "char" /\ it < end
  /\ Escaped \/ Begins \/ Plain
  /\ it' = it + 1
  /\ UNCHANGED <<text, end, shown, state>>

Show ==
  /\ state = "char" /\ it = end
  /\ shown' = shown \o bufout
  /\ state' = "piece"
  /\ UNCHANGED <<text, end, it, flagc, bufout, cut>>

EndOfIssue ==
  /\ state = "piece" /\ end = Len(text)
  /\ state' = "login"
  /\ UNCHANGED <<text, end, it, flagc, bufout, shown, cut>>

IssueNext ==
  OpenIssue \/ NoIssue \/ Gets \/ Char \/ Show \/ EndOfIssue

IssueSpec == IssueInit /\ [][IssueNext]_ivars

-----------------------------------------------------------------------------
\* A piece and its expansion fit their buffers, with the 0 behind them.
IssueTypeOK ==
  /\ it \in 0..end /\ end \in 0..Len(text) /\ flagc \in BOOLEAN
  /\ state \in {"file", "piece", "char", "login"}
  /\ Len(bufout) < Size /\ end - it < Size

\* The expansion of the first n characters of a text, without pieces and
\* buffers: a character is escaped by an escape before it that is not.
EscapedIn(t) ==
  LET escaped[n \in 0..Len(t)] ==
        n > 1 /\ t[n - 1] \in Escapes /\ ~escaped[n - 1]
  IN escaped

StandsFor(t, n) ==
  IF EscapedIn(t)[n] THEN Meaning(t[n - 1], t[n])
  ELSE IF t[n] \in Escapes THEN <<>> ELSE <<t[n]>>

Expansion(t) ==
  LET expanded[n \in 0..Len(t)] ==
        IF n = 0 THEN <<>> ELSE expanded[n - 1] \o StandsFor(t, n)
  IN expanded

\* Where fgets cuts a line makes no difference to what is shown, as long as
\* every expansion fits: no escape is lost or made at the cut (issue_out).
ShownWhole ==
  ~cut => shown \o (IF state = "char" THEN bufout ELSE <<>>)
            = Expansion(text)[it]
=============================================================================
