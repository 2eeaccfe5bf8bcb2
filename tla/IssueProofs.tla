---------------------------- MODULE IssueProofs ----------------------------
(***************************************************************************)
(* issue_out stays inside its two buffers, whatever the file says, however *)
(* long its lines and the values of the escapes are; and what it shows is  *)
(* the expansion of the whole file, wherever fgets cut it.                 *)
(***************************************************************************)
EXTENDS Issue, Recursion, SequenceTheorems

\* IssueTypeOK, with what the buffers hold and that a new piece is asked for
\* only once the last one is expanded.
IssueInv ==
  /\ IssueTypeOK
  /\ text \in Seq(Chars) /\ bufout \in Seq(Chars)
  /\ state \in {"file", "piece"} => it = end

\* What fits is inserted: insc and insstr leave room for the 0.
LEMMA InsertFits ==
  ASSUME IssueInv, NEW str \in Seq(Chars), Insert(str)
  PROVE  bufout' \in Seq(Chars) /\ Len(bufout') < Size
<1> DEFINE n == IF Len(str) < Room THEN Len(str) ELSE Room
<1>1. /\ Len(bufout) \in Nat /\ Len(str) \in Nat /\ Size \in Nat
      /\ Len(bufout) < Size
  BY IssueAssumption DEF IssueInv, IssueTypeOK
<1>2. n \in 0..Len(str) /\ Len(bufout) + n < Size
  BY <1>1 DEF Room
<1>3. SubSeq(str, 1, n) \in Seq(Chars) /\ Len(SubSeq(str, 1, n)) = n
  <2> HIDE DEF n
  <2>1. QED
    BY <1>1, <1>2
<1>4. bufout' = bufout \o SubSeq(str, 1, n)
  BY DEF Insert
<1>5. bufout \in Seq(Chars)
  BY DEF IssueInv
<1>6. QED
  <2> HIDE DEF n
  <2>1. QED
    BY <1>1, <1>2, <1>3, <1>4, <1>5

\* What an escape stands for is made of characters.
LEMMA MeaningType ==
  ASSUME NEW c \in Chars, NEW p
  PROVE  Meaning(p, c) \in Seq(Chars)
BY IssueAssumption DEF Meaning

\* fgets takes no more than fits buf, with the 0.
LEMMA PieceFits ==
  ASSUME IssueInv, NEW n \in (end + 1)..Len(text), PieceEnds(n)
  PROVE  n - end < Size
<1>1. end \in Nat /\ Len(text) \in Nat /\ Size \in Nat /\ Size >= 2
  BY IssueAssumption DEF IssueInv, IssueTypeOK
<1>2. SUFFICES ASSUME n - end >= Size PROVE FALSE
  BY <1>1
<1>3. end + Size - 1 \in (end + 1)..(n - 1)
  BY <1>1, <1>2
<1>4. LastOf(end + Size - 1)
  BY DEF LastOf
<1>5. QED
  BY <1>3, <1>4 DEF PieceEnds

\* Every step stays inside the buffers.
LEMMA IssueStep ==
  ASSUME IssueInv, [IssueNext]_ivars
  PROVE  IssueInv'
<1> USE DEF IssueInv, IssueTypeOK
<1>1. CASE OpenIssue
  BY <1>1 DEF OpenIssue
<1>2. CASE NoIssue
  BY <1>2 DEF NoIssue
<1>3. CASE Gets
  <2>1. PICK n \in (end + 1)..Len(text) : PieceEnds(n) /\ end' = n
    BY <1>3 DEF Gets
  <2>2. n - end < Size
    BY <2>1, PieceFits
  <2>3. Len(<<>>) < Size /\ <<>> \in Seq(Chars)
    BY IssueAssumption
  <2>4. it = end /\ end \in Nat
    BY <1>3 DEF Gets
  <2>5. QED
    BY <1>3, <2>1, <2>2, <2>3, <2>4 DEF Gets, FlagCarried
<1>4. CASE Char
  <2>1. it \in Nat /\ it + 1 \in 0..end /\ end \in 0..Len(text)
    BY <1>4 DEF Char
  <2>2. cc \in Chars
    BY <2>1 DEF cc
  <2>3. bufout' \in Seq(Chars) /\ Len(bufout') < Size /\ flagc' \in BOOLEAN
    <3>1. CASE Escaped
      <4>1. Meaning(pcc, cc) \in Seq(Chars)
        BY <2>2, MeaningType
      <4>2. QED
        BY <3>1, <4>1, InsertFits DEF Escaped
    <3>2. CASE Begins
      BY <3>2 DEF Begins
    <3>3. CASE Plain
      <4>1. <<cc>> \in Seq(Chars)
        BY <2>2
      <4>2. QED
        BY <3>3, <4>1, InsertFits DEF Plain
    <3>4. QED
      BY <1>4, <3>1, <3>2, <3>3 DEF Char
  <2>4. end - (it + 1) < Size /\ Size \in Nat
    BY <2>1, IssueAssumption
  <2>5. /\ it' = it + 1 /\ end' = end /\ text' = text
        /\ state = "char" /\ state' = "char"
    BY <1>4 DEF Char
  <2>6. QED
    BY <2>1, <2>3, <2>4, <2>5
<1>5. CASE Show
  BY <1>5 DEF Show
<1>6. CASE EndOfIssue
  BY <1>6 DEF EndOfIssue
<1>7. CASE UNCHANGED ivars
  BY <1>7 DEF ivars
<1>8. QED
  BY <1>1, <1>2, <1>3, <1>4, <1>5, <1>6, <1>7 DEF IssueNext

\* And the first state does.
LEMMA IssueStarts == IssueInit => IssueInv
<1> SUFFICES ASSUME IssueInit PROVE IssueInv
  OBVIOUS
<1>1. text \in Seq(Chars)
  BY DEF IssueInit
<1>2. Len(text) \in Nat /\ Len(<<>>) = 0 /\ <<>> \in Seq(Chars)
  BY <1>1
<1>3. /\ it = 0 /\ end = 0 /\ flagc = FALSE /\ state = "file"
      /\ bufout = <<>>
  BY DEF IssueInit
<1>4. Size \in Nat /\ 0 < Size
  BY IssueAssumption
<1>5. Len(bufout) = 0 /\ bufout \in Seq(Chars) /\ end - it = 0
  BY <1>2, <1>3
<1>6. IssueTypeOK
  <2>1. flagc \in BOOLEAN /\ state \in {"file", "piece", "char", "login"}
    BY <1>3
  <2>2. it \in 0..end /\ end \in 0..Len(text)
    BY <1>2, <1>3
  <2>3. Len(bufout) < Size /\ end - it < Size
    BY <1>4, <1>5
  <2>4. QED
    BY <2>1, <2>2, <2>3 DEF IssueTypeOK
<1>7. QED
  BY <1>1, <1>3, <1>5, <1>6 DEF IssueInv

\* Neither buffer of issue_out is ever overrun.
THEOREM IssueStaysInside == IssueSpec => []IssueTypeOK
<1>1. IssueInit => IssueInv
  BY IssueStarts
<1>2. IssueInv /\ [IssueNext]_ivars => IssueInv'
  BY IssueStep
<1>3. IssueInv => IssueTypeOK
  BY DEF IssueInv
<1>4. QED
  BY <1>1, <1>2, <1>3, PTL DEF IssueSpec

-----------------------------------------------------------------------------
\* The reference: what the two recursive functions are.

LEMMA EscapedRule ==
  ASSUME NEW t \in Seq(Chars)
  PROVE  \A n \in 0..Len(t) :
           EscapedIn(t)[n] =
             (n > 1 /\ t[n - 1] \in Escapes /\ ~EscapedIn(t)[n - 1])
<1> DEFINE N == Len(t)
           h == [x \in (1..N) \X BOOLEAN |->
                   x[1] > 1 /\ t[x[1] - 1] \in Escapes /\ ~x[2]]
           D(g) == [n \in 0..N |-> n > 1 /\ t[n - 1] \in Escapes /\ ~g[n - 1]]
<1>1. N \in Nat
  OBVIOUS
<1>2. h \in [(1..N) \X BOOLEAN -> BOOLEAN]
  OBVIOUS
<1>3. \A n \in 1..N : \A b \in BOOLEAN :
        h[<<n, b>>] = (n > 1 /\ t[n - 1] \in Escapes /\ ~b)
  BY Zenon
<1> HIDE DEF h
<1>4. PICK g \in [0..N -> BOOLEAN] : Steps(g, N, FALSE, h)
  <2> HIDE DEF N
  <2>1. FALSE \in BOOLEAN
    OBVIOUS
  <2>2. QED
    BY <1>1, <1>2, <2>1, RecursionExists, Zenon
<1>5. \A n \in 0..N : g[n] = (n > 1 /\ t[n - 1] \in Escapes /\ ~g[n - 1])
  <2> HIDE DEF N
  <2>1. g[0] = FALSE /\ \A n \in 1..N : g[n] = h[<<n, g[n - 1]>>]
    BY <1>4 DEF Steps
  <2>2. ASSUME NEW n \in 1..N
        PROVE  g[n] = (n > 1 /\ t[n - 1] \in Escapes /\ ~g[n - 1])
    <3>1. n - 1 \in 0..N
      BY <1>1
    <3>2. g[n - 1] \in BOOLEAN
      BY <3>1
    <3>3. QED
      BY <1>3, <2>1, <3>2, Zenon
  <2>3. ~(0 > 1) /\ \A n \in 0..N : n = 0 \/ n \in 1..N
    BY <1>1
  <2>4. QED
    BY <2>1, <2>2, <2>3, Zenon
<1>6. g = D(g)
  BY <1>5, Zenon
<1> DEFINE a == CHOOSE f : f = D(f)
<1>7. a = D(a)
  BY <1>6, Zenon
<1>8. EscapedIn(t) = a
  BY Zenon DEF EscapedIn
<1> HIDE DEF a
<1>9. QED
  BY <1>7, <1>8, Zenon

LEMMA StandsForType ==
  ASSUME NEW t \in Seq(Chars), NEW n \in 1..Len(t)
  PROVE  StandsFor(t, n) \in Seq(Chars)
<1>1. t[n] \in Chars
  OBVIOUS
<1>2. Meaning(t[n - 1], t[n]) \in Seq(Chars)
  BY <1>1, MeaningType
<1>3. <<t[n]>> \in Seq(Chars) /\ <<>> \in Seq(Chars)
  BY <1>1
<1>4. QED
  BY <1>2, <1>3, Zenon DEF StandsFor

LEMMA ExpansionRule ==
  ASSUME NEW t \in Seq(Chars)
  PROVE  /\ Expansion(t)[0] = <<>>
         /\ \A n \in 1..Len(t) :
              Expansion(t)[n] = Expansion(t)[n - 1] \o StandsFor(t, n)
<1> DEFINE N == Len(t)
           h == [x \in (1..N) \X Seq(Chars) |-> x[2] \o StandsFor(t, x[1])]
           D(g) == [n \in 0..N |->
                      IF n = 0 THEN <<>> ELSE g[n - 1] \o StandsFor(t, n)]
<1>1. N \in Nat
  OBVIOUS
<1>2. h \in [(1..N) \X Seq(Chars) -> Seq(Chars)]
  <2>1. ASSUME NEW x \in (1..N) \X Seq(Chars)
        PROVE  x[2] \o StandsFor(t, x[1]) \in Seq(Chars)
    <3>1. x[2] \in Seq(Chars) /\ x[1] \in 1..N
      OBVIOUS
    <3>2. StandsFor(t, x[1]) \in Seq(Chars)
      BY <3>1, StandsForType
    <3>3. QED
      BY <3>1, <3>2
  <2>2. QED
    BY <2>1
<1>3. \A n \in 1..N : \A u \in Seq(Chars) : h[<<n, u>>] = u \o StandsFor(t, n)
  OBVIOUS
<1> HIDE DEF h
<1>4. PICK g \in [0..N -> Seq(Chars)] : Steps(g, N, <<>>, h)
  <2> HIDE DEF N
  <2>1. <<>> \in Seq(Chars)
    OBVIOUS
  <2>2. QED
    BY <1>1, <1>2, <2>1, RecursionExists
<1>5. \A n \in 1..N : g[n - 1] \in Seq(Chars)
  OBVIOUS
<1>6. g[0] = <<>> /\ \A n \in 1..N : g[n] = g[n - 1] \o StandsFor(t, n)
  <2> HIDE DEF N
  <2>1. QED
    BY <1>3, <1>4, <1>5 DEF Steps
<1>7. g = D(g)
  BY <1>6
<1> DEFINE a == CHOOSE f : f = D(f)
<1>8. a = D(a)
  BY <1>7
<1>9. Expansion(t) = a
  BY Zenon DEF Expansion
<1> HIDE DEF a
<1>10. a[0] = <<>> /\ \A n \in 1..N : a[n] = a[n - 1] \o StandsFor(t, n)
  <2>1. 0 \in 0..N /\ \A n \in 1..N : n \in 0..N /\ n # 0
    BY <1>1
  <2>2. QED
    BY <1>8, <2>1, Zenon
<1>11. QED
  BY <1>9, <1>10

-----------------------------------------------------------------------------
\* What was shown is the expansion so far, and the escape that is carried to
\* the next character is the one that the whole file has there.
ShowInv ==
  /\ ShownWhole
  /\ shown \in Seq(Chars)
  /\ flagc = (it >= 1 /\ text[it] \in Escapes /\ ~EscapedIn(text)[it])

\* The character looked at next is escaped if flagc says so.
LEMMA FlagMeans ==
  ASSUME IssueInv, ShowInv, it < end
  PROVE  EscapedIn(text)[it + 1] = flagc
<1>1. it \in Nat /\ it + 1 \in 0..Len(text) /\ (it + 1) - 1 = it
  BY DEF IssueInv, IssueTypeOK
<1>2. text \in Seq(Chars)
  BY DEF IssueInv
<1>3. EscapedIn(text)[it + 1] =
        (it + 1 > 1 /\ text[it] \in Escapes /\ ~EscapedIn(text)[it])
  BY <1>1, <1>2, EscapedRule
<1>4. (it + 1 > 1) <=> (it >= 1)
  BY <1>1
<1>5. QED
  BY <1>3, <1>4, Zenon DEF ShowInv

\* What is inserted without being cut is put behind the rest.
LEMMA InsertWhole ==
  ASSUME IssueInv, NEW str \in Seq(Chars), Insert(str), ~cut'
  PROVE  ~cut /\ bufout' = bufout \o str
<1>1. ~cut /\ ~(Len(str) > Room)
  BY DEF Insert
<1>2. Len(str) \in Nat /\ Room \in Int
  BY IssueAssumption DEF Room, IssueInv
<1>3. (IF Len(str) < Room THEN Len(str) ELSE Room) = Len(str)
  BY <1>1, <1>2
<1>4. SubSeq(str, 1, Len(str)) = str
  OBVIOUS
<1>5. QED
  BY <1>1, <1>3, <1>4, Zenon DEF Insert

\* One character more is expanded.
LEMMA CharShown ==
  ASSUME IssueInv, ShowInv, Char
  PROVE  ShowInv'
<1>1. /\ it \in Nat /\ it + 1 \in 1..Len(text) /\ it < end
      /\ it' = it + 1 /\ text' = text /\ shown' = shown
      /\ state = "char" /\ state' = "char"
  BY DEF Char, IssueInv, IssueTypeOK
<1>2. text \in Seq(Chars) /\ bufout \in Seq(Chars) /\ shown \in Seq(Chars)
  BY DEF IssueInv, ShowInv
<1>3. EscapedIn(text)[it + 1] = flagc
  BY <1>1, FlagMeans
<1>4. Expansion(text)[it + 1] = Expansion(text)[it] \o StandsFor(text, it + 1)
  <2>1. (it + 1) - 1 = it
    BY <1>1
  <2>2. QED
    BY <1>1, <1>2, <2>1, ExpansionRule, Zenon
<1>5. StandsFor(text, it + 1) \in Seq(Chars)
  BY <1>1, <1>2, StandsForType
<1>6. StandsFor(text, it + 1) =
        IF flagc THEN Meaning(pcc, cc)
        ELSE IF cc \in Escapes THEN <<>> ELSE <<cc>>
  <2>1. (it + 1) - 1 = it
    BY <1>1
  <2>2. QED
    BY <1>3, <2>1, Zenon DEF StandsFor, pcc, cc
<1>7. ~cut' => ~cut /\ bufout' = bufout \o StandsFor(text, it + 1)
  <2> SUFFICES ASSUME ~cut'
               PROVE  ~cut /\ bufout' = bufout \o StandsFor(text, it + 1)
    OBVIOUS
  <2>1. CASE Escaped
    <3>1. Insert(StandsFor(text, it + 1))
      BY <1>6, <2>1, Zenon DEF Escaped
    <3>2. QED
      BY <1>5, <3>1, InsertWhole
  <2>2. CASE Begins
    <3>1. StandsFor(text, it + 1) = <<>> /\ bufout' = bufout /\ cut' = cut
      BY <1>6, <2>2, Zenon DEF Begins
    <3>2. QED
      BY <1>2, <3>1, ConcatEmptySeq
  <2>3. CASE Plain
    <3>1. Insert(StandsFor(text, it + 1))
      BY <1>6, <2>3, Zenon DEF Plain
    <3>2. QED
      BY <1>5, <3>1, InsertWhole
  <2>4. QED
    BY <2>1, <2>2, <2>3 DEF Char
<1>8. ShownWhole'
  <2>1. SUFFICES ASSUME ~cut'
                 PROVE  shown \o bufout' = Expansion(text)[it + 1]
    BY <1>1, Zenon DEF ShownWhole
  <2>2. shown \o bufout = Expansion(text)[it]
    BY <1>1, <1>7, <2>1, Zenon DEF ShowInv, ShownWhole
  <2>3. (shown \o bufout) \o StandsFor(text, it + 1)
          = shown \o (bufout \o StandsFor(text, it + 1))
    <3>1. \A s, t, u \in Seq(Chars) : (s \o t) \o u = s \o (t \o u)
      BY ConcatAssociative
    <3>2. QED
      BY <1>2, <1>5, <3>1, Zenon
  <2>4. QED
    BY <1>4, <1>7, <2>1, <2>2, <2>3, Zenon
<1>9. flagc' = (it + 1 >= 1 /\ cc \in Escapes /\ ~EscapedIn(text)[it + 1])
  <2>1. it + 1 >= 1
    BY <1>1
  <2>2. CASE Escaped
    BY <1>3, <2>2, Zenon DEF Escaped
  <2>3. CASE Begins
    BY <1>3, <2>1, <2>3, Zenon DEF Begins
  <2>4. CASE Plain
    <3>1. flagc' = FALSE
      BY <2>4 DEF Plain, IssueInv, IssueTypeOK
    <3>2. QED
      BY <2>4, <3>1, Zenon DEF Plain
  <2>5. QED
    BY <2>2, <2>3, <2>4 DEF Char
<1>10. QED
  BY <1>1, <1>2, <1>8, <1>9, Zenon DEF ShowInv, cc

\* No other step shows or loses a character, or an escape.
LEMMA ShowStep ==
  ASSUME IssueInv, ShowInv, [IssueNext]_ivars
  PROVE  ShowInv'
<1>1. shown \in Seq(Chars) /\ bufout \in Seq(Chars)
  BY DEF IssueInv, ShowInv
<1>2. shown \o <<>> = shown
  BY <1>1, ConcatEmptySeq
<1>3. shown \o bufout \in Seq(Chars) /\ (shown \o bufout) \o <<>> = shown \o bufout
  BY <1>1, ConcatEmptySeq, ConcatProperties
<1>4. CASE OpenIssue
  BY <1>4, Zenon DEF OpenIssue, ShowInv, ShownWhole
<1>5. CASE NoIssue
  BY <1>5, Zenon DEF NoIssue, ShowInv, ShownWhole
<1>6. CASE Gets
  BY <1>6, Zenon DEF Gets, FlagCarried, ShowInv, ShownWhole
<1>7. CASE Char
  BY <1>7, CharShown
<1>8. CASE Show
  BY <1>3, <1>8, Zenon DEF Show, ShowInv, ShownWhole
<1>9. CASE EndOfIssue
  BY <1>9, Zenon DEF EndOfIssue, ShowInv, ShownWhole
<1>10. CASE UNCHANGED ivars
  BY <1>10, Zenon DEF ivars, ShowInv, ShownWhole
<1>11. QED
  BY <1>4, <1>5, <1>6, <1>7, <1>8, <1>9, <1>10 DEF IssueNext

\* Where fgets cuts the file makes no difference to what is shown of it, as
\* long as every expansion fits the buffer.
THEOREM NothingLostAtTheCut == IssueSpec => []ShownWhole
<1>1. IssueInit => ShowInv
  <2>1. ASSUME IssueInit PROVE ShowInv
    <3>1. text \in Seq(Chars)
      BY <2>1 DEF IssueInit
    <3>2. /\ it = 0 /\ flagc = FALSE /\ state = "file" /\ shown = <<>>
      BY <2>1 DEF IssueInit
    <3>3. <<>> \o <<>> = <<>> /\ <<>> \in Seq(Chars) /\ ~(0 >= 1)
      OBVIOUS
    <3>4. Expansion(text)[0] = <<>>
      BY <3>1, ExpansionRule
    <3>5. QED
      BY <3>2, <3>3, <3>4, Zenon DEF ShowInv, ShownWhole
  <2>2. QED
    BY <2>1
<1>2. IssueInv /\ ShowInv /\ [IssueNext]_ivars => ShowInv'
  BY ShowStep
<1>3. ShowInv => ShownWhole
  BY DEF ShowInv
<1>4. IssueInit => IssueInv
  BY IssueStarts
<1>5. IssueInv /\ [IssueNext]_ivars => IssueInv'
  BY IssueStep
<1>6. QED
  BY <1>1, <1>2, <1>3, <1>4, <1>5, PTL DEF IssueSpec
=============================================================================
