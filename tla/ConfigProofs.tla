---------------------------- MODULE ConfigProofs ----------------------------
(***************************************************************************)
(* Whatever numbers a configuration file holds, and in whatever order its  *)
(* readings, reloads and rewritings come, the settings are ones the rest   *)
(* of the program can use.                                                 *)
(***************************************************************************)
EXTENDS Config, Recursion

\* What the limits of readcfg make of the numbers.
InRange(f) ==
  /\ f \in [Names -> Int]
  /\ f["Log_level"] \in 0..10 /\ f["Watchdog_timeout"] \in 1..600
  /\ f["Winsize_in"] \in 1..7 /\ f["Pacsize_in"] \in 4..12
  /\ f["Forwardtimer"] \in 0..199 /\ f["Buffer_size"] >= 0

\* What is written is a number too; of the packet length, faclen makes one.
SettingsInv ==
  /\ InRange(num)
  /\ \A k \in Names \ {"Pacsize_in"} : saved.num[k] \in Int

\* An interval is finite.
LEMMA IntervalFinite == ASSUME NEW a \in Int, NEW b \in Int PROVE IsFiniteSet(a..b)
BY FS_Interval

\* The shifts of a packet length are so many, whatever it is.
LEMMA FaclenType == ASSUME NEW n PROVE faclen(n) \in Int
<1>1. IsFiniteSet(1..30)
  <2>1. 1 \in Int /\ 30 \in Int
    OBVIOUS
  <2>2. QED
    BY <2>1, IntervalFinite, Zenon
<1>2. IsFiniteSet({i \in 1..30 : 2 ^ i <= n})
  BY <1>1, FS_Subset
<1>3. Cardinality({i \in 1..30 : 2 ^ i <= n}) \in Nat
  BY <1>2, FS_CardinalityType
<1>4. QED
  BY <1>3 DEF faclen

\* A line with a number leaves every setting in its range.
LEMMA NumberInRange ==
  ASSUME InRange(num), NEW k \in Names, NEW n, Number(k, n),
         k # "Pacsize_in" => n \in Int
  PROVE  InRange(num')
<1>1. num' = [num EXCEPT ![k] = Kept(k, n)]
  BY DEF Number
<1>2. CASE k = "Pacsize_in"
  <2>1. Kept(k, n) = Clamp(faclen(n), <<4, 12>>)
    BY <1>2, SMT DEF Kept, Limits
  <2>2. Kept(k, n) \in 4..12
    BY <2>1, FaclenType DEF Clamp
  <2>3. QED
    BY <1>1, <1>2, <2>2 DEF InRange, Names
<1>3. CASE k = "Buffer_size"
  <2>1. Kept(k, n) = IF n < 0 THEN 16000 ELSE n
    BY <1>3, SMT DEF Kept
  <2>2. Kept(k, n) \in Int /\ Kept(k, n) >= 0
    BY <1>3, <2>1, SMT
  <2>3. QED
    BY <1>1, <1>3, <2>2 DEF InRange, Names
<1>4. CASE k \in Names \ {"Pacsize_in", "Buffer_size"}
  <2>1. Kept(k, n) = Clamp(n, Limits[k]) /\ n \in Int
    BY <1>4, SMT DEF Kept
  <2>2. /\ Limits["Log_level"] = <<0, 10>>
        /\ Limits["Watchdog_timeout"] = <<1, 600>>
        /\ Limits["Winsize_in"] = <<1, 7>>
        /\ Limits["Forwardtimer"] = <<0, 199>>
    BY DEF Limits
  <2>3. /\ k = "Log_level" => Kept(k, n) \in 0..10
        /\ k = "Watchdog_timeout" => Kept(k, n) \in 1..600
        /\ k = "Winsize_in" => Kept(k, n) \in 1..7
        /\ k = "Forwardtimer" => Kept(k, n) \in 0..199
    BY <2>1, <2>2 DEF Clamp
  <2>4. Kept(k, n) \in Int
    BY <1>4, <2>3 DEF Names
  <2>5. QED
    BY <1>1, <1>4, <2>3, <2>4 DEF InRange, Names
<1>5. QED
  BY <1>2, <1>3, <1>4

\* The settings that a process is built with are in their ranges.
LEMMA BuiltInRange ==
  InRange(Built) /\ \A k \in Names : Built[k] \in Int
BY SMT DEF InRange, Built, Names

\* Every step keeps the settings in their ranges.
LEMMA SettingsStep ==
  ASSUME SettingsInv, [CfgNext]_cvars
  PROVE  SettingsInv'
<1> USE DEF SettingsInv
<1>1. CASE Start
  BY <1>1, BuiltInRange DEF Start
<1>2. CASE Reload \/ Stop \/ Open \/ NoFile
  BY <1>2 DEF Reload, Stop, Open, NoFile, proc
<1>3. CASE WriteCfg
  <2>1. \A k \in Names \ {"Pacsize_in"} : Printed(k) \in Int
    BY DEF Printed, InRange
  <2>2. num' = num /\ saved'.num = [k \in Names |-> Printed(k)]
    BY <1>3 DEF WriteCfg, proc
  <2>3. QED
    BY <2>1, <2>2
<1>4. CASE Read
  <2>1. saved' = saved
    BY <1>4 DEF Read, Number, Shifts, Address, Profile, Overflow, NoToken,
                Other, Ends, Line
  <2>2. InRange(num')
    <3>1. CASE \E k \in Names : \E n \in Said(k, Numbers) : Number(k, n)
      <4>1. PICK k \in Names : \E n \in Said(k, Numbers) : Number(k, n)
        BY <3>1
      <4>2. PICK n \in Said(k, Numbers) : Number(k, n)
        BY <4>1
      <4>3. k # "Pacsize_in" => n \in Int
        BY <4>2, ConfigAssumption DEF Said, Names
      <4>4. QED
        BY <4>2, <4>3, NumberInRange
    <3>2. CASE num' = num
      BY <3>2
    <3>3. QED
      BY <1>4, <3>1, <3>2
         DEF Read, Shifts, Address, Profile, Overflow, NoToken, Other, Ends,
             proc
  <2>3. QED
    BY <2>1, <2>2
<1>5. CASE \E what \in {"absent", "edited"} : Edit(what)
  BY <1>5, BuiltInRange DEF Edit, proc, Unwritten
<1>6. CASE UNCHANGED cvars
  BY <1>6 DEF cvars, proc
<1>7. QED
  BY <1>1, <1>2, <1>3, <1>4, <1>5, <1>6 DEF CfgNext

\* They start in their ranges.
LEMMA SettingsInit == CfgInit => SettingsInv
BY BuiltInRange DEF CfgInit, SettingsInv, Unwritten

\* No configuration asks the kernel for facilities it does not know; a line
\* that overflows the table of the profile, after which nothing is said of the
\* process, is left aside here and below (Overflow).
THEOREM FacilitiesKnown == CfgSpec => []FacilitiesValid
<1>1. SettingsInv /\ [CfgNext]_cvars => SettingsInv'
  BY SettingsStep
<1>2. SettingsInv => FacilitiesValid
  BY DEF SettingsInv, InRange, FacilitiesValid
<1>3. QED
  BY <1>1, <1>2, SettingsInit, PTL DEF CfgSpec

\* No configuration makes a timer that cannot be set or that never runs.
THEOREM TimersCanArm == CfgSpec => []TimersArm
<1>1. SettingsInv /\ [CfgNext]_cvars => SettingsInv'
  BY SettingsStep
<1>2. ASSUME SettingsInv PROVE TimersArm
  <2>1. /\ num["Forwardtimer"] \in 0..199 /\ num["Buffer_size"] >= 0
        /\ num["Watchdog_timeout"] \in 1..600
    BY <1>2 DEF SettingsInv, InRange
  <2>2. \A n \in 0..199 : n * 5000000 < 1000000000
    BY SMT
  <2>3. num["Forwardtimer"] * 5000000 < 1000000000
    BY <2>1, <2>2, SMT
  <2>4. QED
    BY <2>1, <2>3, SMT DEF TimersArm
<1>3. QED
  BY <1>1, <1>2, SettingsInit, PTL DEF CfgSpec
-----------------------------------------------------------------------------
\* The X.3 profile.  Accepted is a recursive function on the pairs of a line.

Pair == [ref : Int, value : Int]

\* The pairs that are taken are pairs of the line, and no more than it has.
LEMMA AcceptedType ==
  ASSUME NEW q \in Seq(Pair)
  PROVE  Accepted(q) \in Seq(Pair) /\ Len(Accepted(q)) \in 0..Len(q)
<1> DEFINE N == Len(q)
           One(s, n) == IF Takes(q[n]) THEN Append(s, q[n]) ELSE s
           h == [x \in (1..N) \X Seq(Pair) |-> One(x[2], x[1])]
           D(g) == [n \in 0..N |->
                      IF n = 0 THEN <<>>
                      ELSE IF Takes(q[n]) THEN Append(g[n - 1], q[n])
                      ELSE g[n - 1]]
<1>1. N \in Nat
  OBVIOUS
<1>2. \A n \in 1..N : \A s \in Seq(Pair) :
        /\ One(s, n) \in Seq(Pair)
        /\ Len(One(s, n)) \in Nat /\ Len(One(s, n)) <= Len(s) + 1
  OBVIOUS
<1>2a. \A s, n : One(s, n) = IF Takes(q[n]) THEN Append(s, q[n]) ELSE s
  OBVIOUS
<1> HIDE DEF One
<1>3. h \in [(1..N) \X Seq(Pair) -> Seq(Pair)]
  <2>1. ASSUME NEW x \in (1..N) \X Seq(Pair)
        PROVE  One(x[2], x[1]) \in Seq(Pair)
    BY <1>2
  <2>2. QED
    BY <2>1
<1>4. \A n \in 1..N : \A s \in Seq(Pair) : h[<<n, s>>] = One(s, n)
  OBVIOUS
<1>5. <<>> \in Seq(Pair) /\ Len(<<>>) = 0
  OBVIOUS
<1> HIDE DEF h
<1>6. PICK g \in [0..N -> Seq(Pair)] : Steps(g, N, <<>>, h)
  <2> HIDE DEF N
  <2>1. QED
    BY <1>1, <1>3, <1>5, RecursionExists
<1>7. g[0] = <<>> /\ \A n \in 1..N : g[n] = One(g[n - 1], n)
  <2>1. \A n \in 1..N : g[n - 1] \in Seq(Pair)
    BY <1>1
  <2>2. QED
    BY <1>4, <1>6, <2>1 DEF Steps
<1>8. g = D(g)
  <2>1. \A n \in 0..N :
          g[n] = IF n = 0 THEN <<>>
                 ELSE IF Takes(q[n]) THEN Append(g[n - 1], q[n])
                 ELSE g[n - 1]
    BY <1>1, <1>7, <1>2a
  <2>2. DOMAIN g = 0..N
    OBVIOUS
  <2>3. QED
    BY <2>1, <2>2
<1> DEFINE a == CHOOSE f : f = D(f)
<1>9. a = D(a)
  BY <1>8
<1>10. Accepted(q) = a[N]
  BY DEF Accepted
<1> HIDE DEF a
<1>11. a[0] = <<>> /\ \A n \in 1..N : a[n] = One(a[n - 1], n)
  <2>1. a[0] = <<>>
    BY <1>1, <1>9
  <2>2. ASSUME NEW n \in 1..N PROVE a[n] = One(a[n - 1], n)
    <3>1. n \in 0..N /\ n # 0
      BY <1>1
    <3>2. a[n] = IF Takes(q[n]) THEN Append(a[n - 1], q[n]) ELSE a[n - 1]
      BY <1>9, <3>1
    <3>3. QED
      BY <1>2a, <3>2
  <2>3. QED
    BY <2>1, <2>2
<1> DEFINE S == {n \in 0..N : a[n] \in Seq(Pair) /\ Len(a[n]) \in 0..n}
<1>12. 0 \in S
  <2>1. 0 \in 0..N /\ Len(a[0]) \in 0..0 /\ a[0] \in Seq(Pair)
    BY <1>1, <1>5, <1>11
  <2>2. QED
    BY <2>1
<1>13. ASSUME NEW n \in 0..(N - 1), n \in S PROVE n + 1 \in S
  <2>1. n + 1 \in 1..N /\ (n + 1) - 1 = n /\ n \in Nat
    BY <1>1
  <2>2. a[n + 1] = One(a[n], n + 1)
    BY <1>11, <2>1
  <2>3. a[n] \in Seq(Pair) /\ Len(a[n]) \in Nat /\ Len(a[n]) <= n
    BY <1>13, <2>1
  <2>4. /\ a[n + 1] \in Seq(Pair)
        /\ Len(a[n + 1]) \in Nat /\ Len(a[n + 1]) <= n + 1
    BY <1>2, <2>1, <2>2, <2>3
  <2>5. QED
    BY <2>1, <2>4
<1>14. 0..N \subseteq S
  <2> HIDE DEF S, N
  <2>1. QED
    BY <1>1, <1>12, <1>13, InductionUpTo
<1>15. QED
  BY <1>1, <1>10, <1>14

\* The table, its length and the line they come from: what the line gave is at
\* the front of the table, whatever an earlier line left behind it.
ProfileInv ==
  /\ X29_profile \in [1..MAXX29PROFILE -> Pair]
  /\ given \in Seq(Pair) /\ Len(Accepted(given)) <= MAXX29PROFILE
  /\ IF given = <<>> THEN X29_profile_len = 0
     ELSE /\ X29_profile_len = Len(Accepted(given)) - 1
          /\ \A i \in 1..Len(Accepted(given)) :
               X29_profile[i] = Accepted(given)[i]

\* A line in the file has pairs.
LEMMA SaidProfile ==
  ASSUME NEW q \in Said("x29_profile", Profiles)
  PROVE  q \in Seq(Pair)
<1>1. q \in Profiles \/ q = ProfileDefault
  BY SMT DEF Said
<1>2. ProfileDefault \in Seq(Pair)
  BY DEF ProfileDefault, P, Pair
<1>3. QED
  BY <1>1, <1>2, ConfigAssumption DEF Pair

\* No parameter is taken from a line without pairs.
LEMMA NothingAccepted == Len(Accepted(<<>>)) = 0
<1>1. <<>> \in Seq(Pair) /\ Len(<<>>) = 0
  OBVIOUS
<1>2. Len(Accepted(<<>>)) \in 0..0
  BY <1>1, AcceptedType
<1>3. QED
  BY <1>2

\* Every step keeps the profile.
LEMMA ProfileStep ==
  ASSUME ProfileInv, [CfgNext]_cvars
  PROVE  ProfileInv'
<1>1. ASSUME UNCHANGED <<X29_profile, X29_profile_len, given>>
      PROVE  ProfileInv'
  BY <1>1 DEF ProfileInv
<1>2. CASE Start
  <2>1. NoParams \in [1..MAXX29PROFILE -> Pair]
    BY DEF NoParams, P, Pair
  <2>2. <<>> \in Seq(Pair) /\ Len(Accepted(<<>>)) <= MAXX29PROFILE
    BY NothingAccepted DEF MAXX29PROFILE
  <2>3. QED
    BY <1>2, <2>1, <2>2 DEF Start, ProfileInv
<1>3. ASSUME NEW q \in Said("x29_profile", Profiles), Profile(q)
      PROVE  ProfileInv'
  <2>1. q \in Seq(Pair)
    BY <1>3, SaidProfile
  <2> DEFINE new == Accepted(q)
  <2>2. new \in Seq(Pair) /\ Len(new) \in Nat /\ Len(new) <= MAXX29PROFILE
    BY <1>3, <2>1, AcceptedType DEF Profile
  <2>3. /\ X29_profile' = [i \in 1..MAXX29PROFILE |->
                             IF i <= Len(new) THEN new[i] ELSE X29_profile[i]]
        /\ X29_profile_len' = Len(new) - 1
        /\ given' = q /\ q # <<>>
    BY <1>3 DEF Profile, Entered, LenOf
  <2> HIDE DEF new
  <2>4. ASSUME NEW i \in 1..MAXX29PROFILE
        PROVE  (IF i <= Len(new) THEN new[i] ELSE X29_profile[i]) \in Pair
    <3>1. i <= Len(new) => i \in 1..Len(new)
      BY <2>2 DEF MAXX29PROFILE
    <3>2. QED
      BY <2>2, <3>1 DEF ProfileInv
  <2>5. X29_profile' \in [1..MAXX29PROFILE -> Pair]
    BY <2>3, <2>4
  <2>6. \A i \in 1..Len(new) : i \in 1..MAXX29PROFILE /\ i <= Len(new)
    BY <2>1, <2>2 DEF MAXX29PROFILE
  <2>7. \A i \in 1..Len(new) : X29_profile'[i] = new[i]
    BY <2>3, <2>6
  <2>8. QED
    BY <2>1, <2>2, <2>3, <2>5, <2>7 DEF ProfileInv, new
<1>4. CASE Reload \/ Stop \/ Open \/ WriteCfg \/ NoFile
  BY <1>1, <1>4 DEF Reload, Stop, Open, WriteCfg, NoFile, proc
<1>5. CASE Read
  BY <1>1, <1>3, <1>5
     DEF Read, Number, Shifts, Address, Overflow, NoToken, Other, Ends, proc
<1>6. CASE \E what \in {"absent", "edited"} : Edit(what)
  BY <1>1, <1>6 DEF Edit, proc
<1>7. CASE UNCHANGED cvars
  BY <1>1, <1>7 DEF cvars, proc
<1>8. QED
  BY <1>2, <1>4, <1>5, <1>6, <1>7 DEF CfgNext

\* It starts empty.
LEMMA ProfileInit == CfgInit => ProfileInv
<1>1. NoParams \in [1..MAXX29PROFILE -> Pair]
  BY DEF NoParams, P, Pair
<1>2. <<>> \in Seq(Pair) /\ Len(Accepted(<<>>)) <= MAXX29PROFILE
  BY NothingAccepted DEF MAXX29PROFILE
<1>3. QED
  BY <1>1, <1>2 DEF CfgInit, ProfileInv

\* What is sent of the table is as long as its length says, which is 24 after
\* a line that fills it and not otherwise.
LEMMA SentLength ==
  ASSUME ProfileInv
  PROVE  /\ X29_profile_len \in -1..(MAXX29PROFILE - 1)
         /\ X29_profile_len = MAXX29PROFILE - 1
              <=> Len(Accepted(given)) = MAXX29PROFILE
         /\ X29_profile \in Seq(Pair) /\ Len(X29_profile) = MAXX29PROFILE
         /\ LET n == Len(Sent(X29_profile, X29_profile_len))
            IN  n = IF X29_profile_len = 0 THEN 7 ELSE X29_profile_len + 1
<1>1. X29_profile \in Seq(Pair) /\ Len(X29_profile) = MAXX29PROFILE
  <2>1. MAXX29PROFILE \in Nat
    BY DEF MAXX29PROFILE
  <2>2. QED
    BY <2>1 DEF ProfileInv
<1>2. /\ X29_profile_len \in -1..(MAXX29PROFILE - 1)
      /\ X29_profile_len = MAXX29PROFILE - 1
           <=> Len(Accepted(given)) = MAXX29PROFILE
  <2> DEFINE n == Len(Accepted(given))
  <2>1. n \in Nat
    BY AcceptedType DEF ProfileInv
  <2>2. n <= MAXX29PROFILE
    BY DEF ProfileInv
  <2>3. CASE given = <<>>
    <3>1. n = 0 /\ X29_profile_len = 0
      BY <2>3, NothingAccepted DEF ProfileInv
    <3> HIDE DEF n
    <3>2. QED
      BY <3>1 DEF MAXX29PROFILE, n
  <2>4. CASE given # <<>>
    <3>1. X29_profile_len = n - 1
      BY <2>4 DEF ProfileInv
    <3> HIDE DEF n
    <3>2. /\ X29_profile_len \in -1..(MAXX29PROFILE - 1)
          /\ X29_profile_len = MAXX29PROFILE - 1 <=> n = MAXX29PROFILE
      BY <2>1, <2>2, <3>1 DEF MAXX29PROFILE
    <3>3. QED
      BY <3>2 DEF n
  <2>5. QED
    BY <2>3, <2>4
<1>3. CASE X29_profile_len = 0
  <2>1. Sent(X29_profile, X29_profile_len) = Append(ProfileDefault, Behind)
    BY <1>3 DEF Sent
  <2>2. Len(Append(ProfileDefault, Behind)) = 7
    BY DEF ProfileDefault, Behind, P
  <2>3. QED
    BY <1>1, <1>2, <1>3, <2>1, <2>2
<1>4. CASE X29_profile_len # 0
  <2>1. Sent(X29_profile, X29_profile_len)
          = SubSeq(X29_profile, 1, X29_profile_len + 1)
    BY <1>4 DEF Sent
  <2>2. Len(SubSeq(X29_profile, 1, X29_profile_len + 1)) = X29_profile_len + 1
    BY <1>1, <1>2 DEF MAXX29PROFILE
  <2>3. QED
    BY <1>1, <1>2, <1>3, <2>1, <2>2
<1>5. QED
  BY <1>3, <1>4

\* The terminal is set as the line of the configuration says that was read
\* last, of two parameters or more, whatever lines were read before it.
THEOREM ProfileAsGiven == CfgSpec => []ProfileSent
<1>1. ProfileInv /\ [CfgNext]_cvars => ProfileInv'
  BY ProfileStep
<1>2. ASSUME ProfileInv PROVE ProfileSent
  <2> DEFINE new == Accepted(given)
             n   == Len(new)
  <2>1. SUFFICES ASSUME n >= 2
                 PROVE  Sent(X29_profile, X29_profile_len) = new
    BY DEF ProfileSent
  <2>2. new \in Seq(Pair) /\ n \in Nat /\ n <= MAXX29PROFILE
    BY <1>2, AcceptedType DEF ProfileInv
  <2>3. given # <<>>
    BY <2>1, <2>2, NothingAccepted
  <2>4. X29_profile_len = n - 1 /\ \A i \in 1..n : X29_profile[i] = new[i]
    BY <1>2, <2>3 DEF ProfileInv
  <2> HIDE DEF new
  <2>5. /\ X29_profile \in Seq(Pair) /\ Len(X29_profile) = MAXX29PROFILE
        /\ n <= MAXX29PROFILE
    BY <1>2, <2>2, SentLength DEF ProfileInv, MAXX29PROFILE
  <2>6. Sent(X29_profile, X29_profile_len) = SubSeq(X29_profile, 1, n)
    BY <2>1, <2>2, <2>4 DEF Sent
  <2>7. SubSeq(X29_profile, 1, n) = new
    <3> HIDE DEF n
    <3>1. n \in 1..Len(X29_profile)
      BY <2>1, <2>2, <2>5 DEF MAXX29PROFILE
    <3>2. /\ Len(SubSeq(X29_profile, 1, n)) = n
          /\ \A i \in 1..n : SubSeq(X29_profile, 1, n)[i] = X29_profile[i]
          /\ SubSeq(X29_profile, 1, n) \in Seq(Pair)
      BY <2>5, <3>1
    <3>3. QED
      BY <2>2, <2>4, <3>2 DEF n
  <2>8. QED
    BY <2>6, <2>7
<1>3. QED
  BY <1>1, <1>2, ProfileInit, PTL DEF CfgSpec
\* The SET message is written past the end of its memory by the two bytes of
\* its head after a line of as many parameters as the table has room for, and
\* after no other, of whatever length (readcfg, x29set_default).
THEOREM SetOverrunsWhenFull == CfgSpec => []SetFits
<1>1. ProfileInv /\ [CfgNext]_cvars => ProfileInv'
  BY ProfileStep
<1>2. ASSUME ProfileInv PROVE SetFits
  <2> DEFINE n == Len(Sent(X29_profile, X29_profile_len))
             a == Len(Accepted(given))
  <2>1. /\ X29_profile_len \in -1..(MAXX29PROFILE - 1)
        /\ X29_profile_len = MAXX29PROFILE - 1 <=> a = MAXX29PROFILE
        /\ n = IF X29_profile_len = 0 THEN 7 ELSE X29_profile_len + 1
    BY <1>2, SentLength
  <2>2. n \in Int
    BY <2>1 DEF MAXX29PROFILE
  <2>3. Overrun = (2 + 2 * n) - 50
    BY <2>2 DEF Overrun, MessageLength, MAXX29PROFILE
  <2> HIDE DEF n, a
  <2>4. Overrun <= 2 /\ (Overrun > 0 <=> a = MAXX29PROFILE)
    BY <2>1, <2>2, <2>3 DEF MAXX29PROFILE
  <2>5. QED
    BY <2>4 DEF SetFits, a
<1>3. QED
  BY <1>1, <1>2, ProfileInit, PTL DEF CfgSpec
-----------------------------------------------------------------------------
\* Types.

\* What the other variables are.
PlacesInv ==
  /\ at \in {"down", "open", "read", "up", "stuck", "wild"}
  /\ boot \in BOOLEAN
  /\ Chaddr \in 0..15
  /\ file \in {"absent", "edited", "written"}
  /\ line \in Nat /\ reads \in 0..MaxReads

LEMMA PlacesStep ==
  ASSUME PlacesInv, [CfgNext]_cvars
  PROVE  PlacesInv'
<1> USE DEF PlacesInv
<1>1. CASE Start
  BY <1>1 DEF Start, DEF_ADDR
<1>2. CASE Reload \/ Stop
  BY <1>2 DEF Reload, Stop, proc
<1>3. CASE Open
  BY <1>3, ConfigAssumption DEF Open, proc
<1>4. CASE WriteCfg \/ NoFile
  BY <1>4 DEF WriteCfg, NoFile, proc
<1>5. CASE Read
  <2>1. UNCHANGED <<boot, file, reads>> /\ line' \in {line, line + 1}
    BY <1>5 DEF Read, Number, Shifts, Address, Profile, Overflow, NoToken,
                Other, Ends, Line
  <2>2. at' \in {"down", "open", "read", "up", "stuck", "wild"}
    BY <1>5 DEF Read, Number, Shifts, Address, Profile, Overflow, NoToken,
                Other, Ends
  <2>3. Chaddr' \in 0..15
    BY <1>5 DEF Read, Number, Shifts, Address, Profile, Overflow, NoToken,
                Other, Ends, proc, MaxDigits
  <2>4. QED
    BY <2>1, <2>2, <2>3
<1>6. CASE \E what \in {"absent", "edited"} : Edit(what)
  BY <1>6 DEF Edit, proc
<1>7. CASE UNCHANGED cvars
  BY <1>7 DEF cvars, proc
<1>8. QED
  BY <1>1, <1>2, <1>3, <1>4, <1>5, <1>6, <1>7 DEF CfgNext

LEMMA PlacesInit == CfgInit => PlacesInv
BY ConfigAssumption DEF CfgInit, PlacesInv, DEF_ADDR

\* Whatever the files hold, the address fits its memory, the profile ends in its
\* table and every variable keeps its kind, up to a line that overflows that
\* table (Overflow; readcfg).
THEOREM ConfigTypeCorrect == CfgSpec => []CfgTypeOK
<1> DEFINE Inv == SettingsInv /\ ProfileInv /\ PlacesInv
<1>1. Inv /\ [CfgNext]_cvars => Inv'
  BY SettingsStep, ProfileStep, PlacesStep
<1>2. Inv => CfgTypeOK
  <2>1. ASSUME Inv PROVE CfgTypeOK
    <3>1. DOMAIN X29_profile = 1..MAXX29PROFILE
      BY <2>1 DEF ProfileInv
    <3>2. num \in [Names -> Int]
      BY <2>1 DEF SettingsInv, InRange
    <3>3. QED
      BY <2>1, <3>1, <3>2, SentLength DEF PlacesInv, CfgTypeOK
  <2>2. QED
    BY <2>1
<1>3. CfgInit => Inv
  BY SettingsInit, ProfileInit, PlacesInit
<1>4. QED
  BY <1>1, <1>2, <1>3, PTL DEF CfgSpec

-----------------------------------------------------------------------------
\* What writecfg writes, readcfg reads as it was.

\* A packet length that is a power of two is read as its logarithm.
LEMMA FaclenOfPower == \A m \in 4..12 : faclen(2 ^ m) = m
<1>1. ASSUME NEW m \in 4..12 PROVE faclen(2 ^ m) = m
  <2> DEFINE S == {i \in 1..30 : 2 ^ i <= 2 ^ m}
             p == [i \in 1..30 |-> 2 ^ i]
  <2>1. S = 1..m
    <3>1. \A i \in 1..30 : p[i] = 2 ^ i
      BY Zenon
    <3> HIDE DEF p
    <3>2. /\ p[1] = 2 /\ p[2] = 4 /\ p[3] = 8 /\ p[4] = 16 /\ p[5] = 32
          /\ p[6] = 64 /\ p[7] = 128 /\ p[8] = 256 /\ p[9] = 512
          /\ p[10] = 1024 /\ p[11] = 2048 /\ p[12] = 4096
      BY <3>1, SMT
    <3>3. /\ p[13] = 8192 /\ p[14] = 16384 /\ p[15] = 32768
          /\ p[16] = 65536 /\ p[17] = 131072 /\ p[18] = 262144
          /\ p[19] = 524288 /\ p[20] = 1048576 /\ p[21] = 2097152
          /\ p[22] = 4194304 /\ p[23] = 8388608 /\ p[24] = 16777216
          /\ p[25] = 33554432 /\ p[26] = 67108864 /\ p[27] = 134217728
          /\ p[28] = 268435456 /\ p[29] = 536870912 /\ p[30] = 1073741824
      BY <3>1, SMT
    <3>4. p[m] \in Int /\ p[m] <= 4096
      BY <3>2, SMT
    <3>5. ASSUME NEW i \in 13..30 PROVE p[i] \in Int /\ p[i] > 4096
      BY <3>3, SMT
    <3>6. ASSUME NEW i \in 1..12 PROVE p[i] <= p[m] <=> i <= m
      BY <3>2, SMT
    <3>7. ASSUME NEW i \in 1..30 PROVE p[i] <= p[m] <=> i \in 1..m
      <4>1. CASE i \in 1..12
        BY <3>6, <4>1, SMT
      <4>2. CASE i \in 13..30
        BY <3>4, <3>5, <4>2, SMT
      <4>3. QED
        BY <4>1, <4>2, SMT
    <3>8. m \in 1..30 /\ 1..m \subseteq 1..30
      BY SMT
    <3>9. S = {i \in 1..30 : p[i] <= p[m]}
      BY <3>1, <3>8, Zenon
    <3>10. QED
      BY <3>7, <3>8, <3>9, Zenon
  <2>2. Cardinality(1..m) = m
    <3>1. 1 \in Int /\ m \in Int /\ m >= 1
      OBVIOUS
    <3>2. Cardinality(1..m) = IF 1 > m THEN 0 ELSE m - 1 + 1
      BY <3>1, FS_Interval, Zenon
    <3>3. QED
      BY <3>1, <3>2
  <2>3. QED
    BY <2>1, <2>2 DEF faclen
<1>2. QED
  BY <1>1

\* A number in the file of which readcfg makes what is printed as this number.
Stable(k, n) ==
  n = IF k = "Pacsize_in" THEN 2 ^ Kept(k, n) ELSE Kept(k, n)

\* What the process has for a line of the file is what the line says.
Applied(k) ==
  IF k = "address" THEN Chaddr = saved.adr
  ELSE k \in Names => Printed(k) = saved.num[k]

\* A written file has what is read back as it was printed; what was read of it
\* is in place, and all of it when the process runs or is about to read again.
WrittenInv ==
  file = "written" =>
    /\ saved.adr \in 0..15 /\ ~(saved.num["Pacsize_in"] < 0)
    /\ \A k \in Names : Stable(k, saved.num[k])
    /\ at = "read" => \A i \in 1..line : i <= Len(Order) => Applied(Order[i])
    /\ at = "up" \/ (at = "open" /\ ~boot) =>
         \A i \in 1..Len(Order) : Applied(Order[i])

\* The numbers that are written are stable.
LEMMA WrittenStable ==
  ASSUME InRange(num), NEW k \in Names
  PROVE  Stable(k, Printed(k)) /\ ~(Printed("Pacsize_in") < 0)
<1>1. num["Pacsize_in"] \in 4..12
  BY DEF InRange
<1>2. faclen(2 ^ num["Pacsize_in"]) = num["Pacsize_in"]
  BY <1>1, FaclenOfPower
<1>3. ~(Printed("Pacsize_in") < 0)
  <2> DEFINE p == [i \in 4..12 |-> 2 ^ i]
  <2>1. \A i \in 4..12 : p[i] = 2 ^ i
    BY Zenon
  <2> HIDE DEF p
  <2>2. /\ p[4] = 16 /\ p[5] = 32 /\ p[6] = 64 /\ p[7] = 128 /\ p[8] = 256
        /\ p[9] = 512 /\ p[10] = 1024 /\ p[11] = 2048 /\ p[12] = 4096
    BY <2>1, SMT
  <2>3. \A i \in 4..12 : ~(p[i] < 0)
    BY <2>2, SMT
  <2>4. ~(2 ^ num["Pacsize_in"] < 0)
    BY <1>1, <2>1, <2>3, Zenon
  <2>5. QED
    BY <2>4 DEF Printed
<1>4. CASE k = "Pacsize_in"
  <2>1. Printed(k) = 2 ^ num["Pacsize_in"]
    BY <1>4, Zenon DEF Printed
  <2>2. Kept(k, Printed(k)) = Clamp(faclen(Printed(k)), <<4, 12>>)
    BY <1>4, SMT DEF Kept, Limits
  <2>3. Kept(k, Printed(k)) = num["Pacsize_in"]
    BY <1>1, <1>2, <2>1, <2>2 DEF Clamp
  <2>4. QED
    BY <1>3, <1>4, <2>1, <2>3, Zenon DEF Stable
<1>5. CASE k = "Buffer_size"
  <2>1. Printed(k) = num[k] /\ num[k] \in Int /\ num[k] >= 0
    BY <1>5, SMT DEF Printed, InRange, Names
  <2>2. Kept(k, num[k]) = num[k]
    BY <1>5, <2>1, SMT DEF Kept
  <2>3. QED
    BY <1>3, <1>5, <2>1, <2>2, SMT DEF Stable
<1>6. CASE k \in Names \ {"Pacsize_in", "Buffer_size"}
  <2>1. Printed(k) = num[k] /\ num[k] \in Int
    BY <1>6, SMT DEF Printed, InRange
  <2>2. Kept(k, num[k]) = Clamp(num[k], Limits[k])
    BY <1>6, SMT DEF Kept
  <2>3. /\ Limits["Log_level"] = <<0, 10>>
        /\ Limits["Watchdog_timeout"] = <<1, 600>>
        /\ Limits["Winsize_in"] = <<1, 7>>
        /\ Limits["Forwardtimer"] = <<0, 199>>
    BY DEF Limits
  <2>4. /\ num["Log_level"] \in 0..10 /\ num["Watchdog_timeout"] \in 1..600
        /\ num["Winsize_in"] \in 1..7 /\ num["Forwardtimer"] \in 0..199
    BY DEF InRange
  <2>5. k \in {"Log_level", "Watchdog_timeout", "Winsize_in", "Forwardtimer"}
    BY <1>6 DEF Names
  <2>6. ~(num[k] < Limits[k][1]) /\ ~(num[k] > Limits[k][2])
    <3>1. CASE k = "Log_level"
      BY <2>3, <2>4, <3>1, SMT
    <3>2. CASE k = "Watchdog_timeout"
      BY <2>3, <2>4, <3>2, SMT
    <3>3. CASE k = "Winsize_in"
      BY <2>3, <2>4, <3>3, SMT
    <3>4. CASE k = "Forwardtimer"
      BY <2>3, <2>4, <3>4, SMT
    <3>5. QED
      BY <2>5, <3>1, <3>2, <3>3, <3>4
  <2>7. Clamp(num[k], Limits[k]) = num[k]
    BY <2>6, Zenon DEF Clamp
  <2>8. QED
    BY <1>3, <1>6, <2>1, <2>2, <2>7, SMT DEF Stable
<1>7. QED
  BY <1>4, <1>5, <1>6

\* A line of the file that is read again puts in place what it says, and
\* changes no other setting.
LEMMA NumberApplied ==
  ASSUME SettingsInv, WrittenInv, file = "written",
         NEW k \in Names, NEW n \in Said(k, Numbers), Number(k, n)
  PROVE  /\ n = saved.num[k] /\ Printed(k)' = n /\ Chaddr' = Chaddr
         /\ \A j \in Names : j # k => Printed(j)' = Printed(j)
<1>1. n = saved.num[k] /\ Stable(k, n)
  BY SMT DEF Said, WrittenInv, Names
<1>2. num' = [num EXCEPT ![k] = Kept(k, n)] /\ num \in [Names -> Int]
  BY DEF Number, SettingsInv, InRange
<1>3. num'[k] = Kept(k, n) /\ \A j \in Names : j # k => num'[j] = num[j]
  BY <1>2
<1>4. Printed(k)' = IF k = "Pacsize_in" THEN 2 ^ num'[k] ELSE num'[k]
  BY Zenon DEF Printed
<1>5. Printed(k)' = n
  BY <1>1, <1>3, <1>4, Zenon DEF Stable
<1>6. \A j \in Names : j # k => Printed(j)' = Printed(j)
  BY <1>3, Zenon DEF Printed
<1>7. QED
  BY <1>1, <1>5, <1>6 DEF Number

\* A line that was read as it says, behind the lines that were read before it.
LEMMA LineApplied ==
  ASSUME WrittenInv, line \in Nat, file = "written", NEW key, Line(key),
         at' = at, saved' = saved,
         key = "address" \/ key \in Names => Applied(key)',
         \A j \in Names \cup {"address"} : j # key /\ Applied(j) => Applied(j)'
  PROVE  WrittenInv'
<1>1. /\ at = "read" /\ file' = file /\ line' = line + 1
      /\ line < Len(Order) /\ Order[line + 1] = key
  BY DEF Line
<1>2. ASSUME NEW i \in 1..line', i <= Len(Order) PROVE Applied(Order[i])'
  <2>1. CASE Order[i] \notin Names \cup {"address"}
    BY <2>1 DEF Applied
  <2>2. CASE i = line + 1
    BY <1>1, <2>1, <2>2
  <2>3. CASE i # line + 1
    <3>1. i \in 1..line
      BY <1>1, <2>3
    <3>2. Order[i] # key
      <4>1. i \in 1..9 /\ line + 1 \in 1..9
        BY <1>1, <1>2, SMT DEF Order
      <4>2. \A a, b \in 1..9 : Order[a] = Order[b] => a = b
        BY SMT DEF Order
      <4>3. QED
        BY <1>1, <2>3, <4>1, <4>2
    <3>3. Applied(Order[i])
      BY <1>1, <1>2, <3>1 DEF WrittenInv
    <3>4. QED
      BY <2>1, <3>2, <3>3
  <2>4. QED
    BY <2>2, <2>3
<1>3. QED
  BY <1>1, <1>2 DEF WrittenInv

\* Every step keeps what was written and read.
LEMMA WrittenStep ==
  ASSUME SettingsInv, PlacesInv, WrittenInv, [CfgNext]_cvars
  PROVE  WrittenInv'
<1>1. CASE Start
  BY <1>1 DEF Start, WrittenInv
<1>2. ASSUME UNCHANGED <<num, Chaddr, saved>>
      PROVE  \A k : Applied(k)' <=> Applied(k)
  BY <1>2, Zenon DEF Applied, Printed
<1>3. CASE Reload
  <2>1. at = "up" /\ UNCHANGED <<num, Chaddr, saved, file, line>> /\ at' = "open"
    BY <1>3 DEF Reload, proc
  <2>2. QED
    BY <1>2, <2>1 DEF WrittenInv
<1>4. CASE Stop
  BY <1>4 DEF Stop, WrittenInv
<1>5. CASE Open
  <2>1. UNCHANGED <<num, Chaddr, saved, file>> /\ at' = "read" /\ line' = 0
    BY <1>5 DEF Open, proc
  <2>2. QED
    BY <2>1 DEF WrittenInv
<1>6. CASE WriteCfg
  <2>1. /\ saved' = [num |-> [k \in Names |-> Printed(k)], adr |-> Chaddr]
        /\ at' = "down"
    BY <1>6 DEF WriteCfg
  <2>2. "Pacsize_in" \in Names
    BY DEF Names
  <2>3. saved'.adr \in 0..15 /\ \A k \in Names : saved'.num[k] = Printed(k)
    BY <2>1, Zenon DEF PlacesInv
  <2>4. \A k \in Names : Stable(k, saved'.num[k])
    BY <2>3, WrittenStable DEF SettingsInv
  <2>5. ~(saved'.num["Pacsize_in"] < 0)
    BY <2>2, <2>3, WrittenStable DEF SettingsInv
  <2>6. QED
    BY <2>1, <2>3, <2>4, <2>5 DEF WrittenInv
<1>7. CASE NoFile
  <2>1. /\ at = "open" /\ UNCHANGED <<num, Chaddr, saved, file>>
        /\ at' = IF boot THEN "down" ELSE "up"
    BY <1>7 DEF NoFile, NotOpened, proc
  <2>2. QED
    BY <1>2, <2>1 DEF WrittenInv, PlacesInv
<1>8. CASE \E what \in {"absent", "edited"} : Edit(what)
  BY <1>8 DEF Edit, WrittenInv
<1>9. CASE UNCHANGED cvars
  <2>1. UNCHANGED <<num, Chaddr, saved, file, at, boot, line>>
    BY <1>9 DEF cvars, proc
  <2>2. QED
    BY <1>2, <2>1 DEF WrittenInv
<1>10. CASE Read
  <2>1. file' = file /\ saved' = saved
    BY <1>10 DEF Read, Number, Shifts, Address, Profile, Overflow, NoToken,
                 Other, Ends, Line
  <2>2. SUFFICES ASSUME file = "written" PROVE WrittenInv'
    BY <2>1 DEF WrittenInv
  <2>3. line \in Nat
    BY DEF PlacesInv
  <2>4. ASSUME NEW k \in Names, NEW n \in Said(k, Numbers), Number(k, n)
        PROVE  WrittenInv'
    <3>1. /\ n = saved.num[k] /\ Printed(k)' = n /\ Chaddr' = Chaddr
          /\ \A j \in Names : j # k => Printed(j)' = Printed(j)
      BY <2>2, <2>4, NumberApplied
    <3>2. Line(k) /\ at' = at /\ k # "address"
      BY <2>4 DEF Number, Names
    <3>3. Applied(k)'
      BY <2>1, <3>1, <3>2 DEF Applied
    <3>4. \A j \in Names \cup {"address"} : j # k /\ Applied(j) => Applied(j)'
      BY <2>1, <3>1 DEF Applied
    <3>5. QED
      BY <2>1, <2>2, <2>3, <3>2, <3>3, <3>4, LineApplied
  <2>5. ASSUME NEW n \in Said("Pacsize_in", Numbers), Shifts(n)
        PROVE  WrittenInv'
    BY <2>5, <2>1 DEF Shifts, WrittenInv
  <2>6. ASSUME NEW d \in Said("address", Addresses), Address(d)
        PROVE  WrittenInv'
    <3>1. d = saved.adr /\ d \in 0..15
      BY <2>2, <2>6 DEF Said, WrittenInv
    <3>2. Chaddr' = d /\ at' = at /\ num' = num /\ Line("address")
      BY <2>6, <3>1 DEF Address, MaxDigits
    <3>3. Applied("address")'
      BY <2>1, <3>1, <3>2 DEF Applied
    <3>4. \A j \in Names : Printed(j)' = Printed(j)
      BY <3>2, Zenon DEF Printed
    <3>5. \A j \in Names \cup {"address"} :
            j # "address" /\ Applied(j) => Applied(j)'
      BY <2>1, <3>4 DEF Applied
    <3>6. QED
      BY <2>1, <2>2, <2>3, <3>2, <3>3, <3>5, LineApplied
  <2>7. ASSUME UNCHANGED <<num, Chaddr, at>>, NEW key, Line(key),
               key \notin Names \cup {"address"}
        PROVE  WrittenInv'
    BY <1>2, <2>1, <2>2, <2>3, <2>7, LineApplied
  <2>8. ASSUME NEW pairs, Profile(pairs) PROVE WrittenInv'
    BY <2>7, <2>8 DEF Profile, Names
  <2>8a. ASSUME NEW pairs, Overflow(pairs) PROVE WrittenInv'
    BY <2>1, <2>8a DEF Overflow, WrittenInv
  <2>9. CASE NoToken
    BY <2>1, <2>9 DEF NoToken, WrittenInv
  <2>10. CASE Other
    BY <2>7, <2>10 DEF Other, Names, proc
  <2>11. CASE Ends
    <3>1. /\ at = "read" /\ line = Len(Order) /\ at' = "up"
          /\ UNCHANGED <<num, Chaddr>>
      BY <2>2, <2>11 DEF Ends, proc
    <3>2. QED
      BY <1>2, <2>1, <3>1 DEF WrittenInv
  <2>12. QED
    BY <1>10, <2>4, <2>5, <2>6, <2>8, <2>8a, <2>9, <2>10, <2>11 DEF Read
<1>11. QED
  BY <1>1, <1>3, <1>4, <1>5, <1>6, <1>7, <1>8, <1>9, <1>10 DEF CfgNext

\* A process that runs with the file that writecfg wrote has the settings that
\* were written, in spite of the limits, the packet length that is kept as its
\* logarithm, and reloads that find no file (writecfg, readcfg).
THEOREM WrittenIsRead == CfgSpec => []WrittenReadsBack
<1> DEFINE Inv == SettingsInv /\ PlacesInv /\ WrittenInv
<1>1. Inv /\ [CfgNext]_cvars => Inv'
  BY SettingsStep, PlacesStep, WrittenStep
<1>2. CfgInit => Inv
  BY SettingsInit, PlacesInit DEF CfgInit, WrittenInv
<1>3. Inv => WrittenReadsBack
  <2>1. SUFFICES ASSUME WrittenInv, at = "up", file = "written"
                 PROVE  /\ \A k \in Names : Printed(k) = saved.num[k]
                        /\ Chaddr = saved.adr
    BY DEF WrittenReadsBack
  <2>2. \A i \in 1..9 : Applied(Order[i])
    BY <2>1, SMT DEF WrittenInv, Order
  <2>3. /\ Applied("address") /\ Applied("Log_level")
        /\ Applied("Watchdog_timeout") /\ Applied("Winsize_in")
        /\ Applied("Pacsize_in") /\ Applied("Forwardtimer")
        /\ Applied("Buffer_size")
    <3>1. /\ Order[1] = "address" /\ Order[2] = "Log_level"
          /\ Order[4] = "Watchdog_timeout" /\ Order[5] = "Winsize_in"
          /\ Order[6] = "Pacsize_in" /\ Order[7] = "Forwardtimer"
          /\ Order[9] = "Buffer_size"
      BY SMT DEF Order
    <3>2. QED
      BY <2>2, <3>1, SMT
  <2>4. QED
    BY <2>3 DEF Applied, Names
<1>4. QED
  BY <1>1, <1>2, <1>3, PTL DEF CfgSpec
=============================================================================
