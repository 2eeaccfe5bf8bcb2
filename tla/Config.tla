------------------------------- MODULE Config -------------------------------
(***************************************************************************)
(* The configuration file and a process that reads it (cfgfile.c): at its  *)
(* start and on every reload, line by line, or writing it when it is not   *)
(* there.  A file that somebody has edited may hold any lines; one that    *)
(* writecfg wrote holds what it wrote.                                     *)
(***************************************************************************)
EXTENDS X29Profile, FiniteSets

CONSTANTS
  Numbers,    \* what an edited line may say after the name of a number
  Addresses,  \* and of an address, as a number of digits, -1 with others
  Profiles,   \* and of a profile, as a sequence of pairs
  MaxLines,   \* bound: the lines of an edited file
  MaxReads,   \* bound: the readings of edited files
  Faults      \* "open": the file is there and cannot be opened for reading,
              \* "create": nor for writing

ASSUME ConfigAssumption ==
  /\ Numbers \subseteq Int /\ Addresses \subseteq Int
  /\ Profiles \subseteq Seq([ref : Int, value : Int])
  /\ MaxLines \in Nat /\ MaxReads \in Nat
  /\ Faults \subseteq {"open", "create"}

VARIABLES
  at,       \* where the process is
  boot,     \* it is main that reads, and not a reload
  num,      \* the settings that are numbers
  Chaddr,   \* the digits of the X.121 address
  X29_profile, X29_profile_len,
  file,     \* the file: "absent", "edited", or "written" by writecfg
  saved,    \* the numbers and the address that writecfg wrote
  line,     \* lines read
  reads,    \* edited files read
  given     \* the pairs of the x29_profile line read last

proc  == <<num, Chaddr, X29_profile, X29_profile_len, given>>
cvars == <<at, boot, proc, file, saved, line, reads>>

Names == {"Log_level", "Watchdog_timeout", "Winsize_in", "Pacsize_in",
          "Forwardtimer", "Buffer_size"}

\* What a process has before it reads anything.
Built ==
  [Log_level |-> 3, Watchdog_timeout |-> 10, Winsize_in |-> 2, Pacsize_in |-> 7,
   Forwardtimer |-> 1, Buffer_size |-> 32000]
DEF_ADDR == 5

\* The order in which writecfg writes its lines.
Order == <<"address", "Log_level", "log_path", "Watchdog_timeout", "Winsize_in",
           "Pacsize_in", "Forwardtimer", "x29_profile", "Buffer_size">>

NoParams == [i \in 1..MAXX29PROFILE |-> P(0, 0)]

\* What is in saved when nothing was written.
Unwritten == [num |-> Built, adr |-> DEF_ADDR]

CfgInit ==
  /\ at = "down" /\ boot = TRUE
  /\ num = Built /\ Chaddr = DEF_ADDR
  /\ X29_profile = NoParams /\ X29_profile_len = 0 /\ given = <<>>
  /\ file \in {"absent", "edited"}
  /\ saved = Unwritten
  /\ line = 0 /\ reads = 0

-----------------------------------------------------------------------------
\* Starting, stopping, and what the operator does to the file.

Start ==
  /\ at = "down"
  /\ at' = "open" /\ boot' = TRUE
  /\ num' = Built /\ Chaddr' = DEF_ADDR
  /\ X29_profile' = NoParams /\ X29_profile_len' = 0 /\ given' = <<>>
  /\ UNCHANGED <<file, saved, line, reads>>

Reload ==
  /\ at = "up"
  /\ at' = "open" /\ boot' = FALSE
  /\ UNCHANGED <<proc, file, saved, line, reads>>

Stop ==
  /\ at \in {"up", "stuck", "wild"}
  /\ at' = "down"
  /\ UNCHANGED <<boot, proc, file, saved, line, reads>>

Edit(what) ==
  /\ at \notin {"read", "open"} /\ file # what
  /\ file' = what /\ saved' = Unwritten
  /\ UNCHANGED <<at, boot, proc, line, reads>>

-----------------------------------------------------------------------------
\* readcfg.

Open ==
  /\ at = "open" /\ file # "absent"
  /\ file = "edited" => reads < MaxReads
  /\ at' = "read" /\ line' = 0
  /\ reads' = IF file = "edited" THEN reads + 1 ELSE reads
  /\ UNCHANGED <<boot, proc, file, saved>>

NotOpened == at = "open" /\ (file = "absent" \/ "open" \in Faults)

\* The setting as writecfg prints it; the mutant prints the facility code.
PrintedAsIs(k) == num[k]
Printed(k) == IF k = "Pacsize_in" THEN 2 ^ num[k] ELSE num[k]

\* writecfg, over a file that may be there; then fclose of the file that was
\* not opened, NULL, kills the process.
WriteCfg ==
  /\ NotOpened
  /\ file' = "written"
  /\ saved' = [num |-> [k \in Names |-> Printed(k)], adr |-> Chaddr]
  /\ at' = "down"
  /\ UNCHANGED <<boot, proc, line, reads>>

\* Nor can it be written: main exits, a reload is forgotten.
NoFile ==
  /\ NotOpened /\ "create" \in Faults
  /\ at' = IF boot THEN "down" ELSE "up"
  /\ UNCHANGED <<boot, proc, file, saved, line, reads>>

\* fgets has a line for key: the next that was written, or any.
Line(key) ==
  /\ at = "read"
  /\ IF file = "written"
     THEN line < Len(Order) /\ Order[line + 1] = key
     ELSE line < MaxLines
  /\ line' = line + 1
  /\ UNCHANGED <<boot, file, saved, reads>>

\* The lines for key that are in the file, of those that may be edited into it.
Said(key, edited) ==
  IF file # "written" THEN edited
  ELSE IF key = "address" THEN {saved.adr}
  ELSE IF key = "x29_profile" THEN {ProfileDefault}
  ELSE {saved.num[key]}

\* A line with a number.  The mutants have a limit that is off by one.

LimitsTimerOff ==
  [Log_level |-> <<0, 10>>, Watchdog_timeout |-> <<1, 600>>,
   Winsize_in |-> <<1, 7>>, Pacsize_in |-> <<4, 12>>,
   Forwardtimer |-> <<0, 200>>]
LimitsPacketOff ==
  [Log_level |-> <<0, 10>>, Watchdog_timeout |-> <<1, 600>>,
   Winsize_in |-> <<1, 7>>, Pacsize_in |-> <<3, 12>>,
   Forwardtimer |-> <<0, 199>>]
Limits ==
  [Log_level |-> <<0, 10>>, Watchdog_timeout |-> <<1, 600>>,
   Winsize_in |-> <<1, 7>>, Pacsize_in |-> <<4, 12>>,
   Forwardtimer |-> <<0, 199>>]

Clamp(n, lim) == IF n < lim[1] THEN lim[1] ELSE IF n > lim[2] THEN lim[2] ELSE n

\* The shifts until nothing is left of a packet length, which is an int.
faclen(n) == Cardinality({i \in 1..30 : 2 ^ i <= n})

Kept(k, n) ==
  IF k = "Buffer_size" THEN IF n < 0 THEN 16000 ELSE n
  ELSE Clamp(IF k = "Pacsize_in" THEN faclen(n) ELSE n, Limits[k])

Number(k, n) ==
  /\ Line(k)
  /\ ~(k = "Pacsize_in" /\ n < 0)
  /\ num' = [num EXCEPT ![k] = Kept(k, n)]
  /\ UNCHANGED <<at, Chaddr, X29_profile, X29_profile_len, given>>

\* A negative number shifted to the right stays negative: faclen never ends.
Shifts(n) ==
  /\ Line("Pacsize_in") /\ n < 0
  /\ at' = "stuck"
  /\ UNCHANGED proc

\* An address of up to 15 digits; a longer one ends the reading.  The mutant
\* takes one more.
MaxDigitsPlusOne == 16
MaxDigits == 15

Address(d) ==
  /\ Line("address")
  /\ Chaddr' = IF d \in 0..MaxDigits THEN d ELSE Chaddr
  /\ at' = IF d > MaxDigits THEN "up" ELSE at
  /\ UNCHANGED <<num, X29_profile, X29_profile_len, given>>

\* A profile that the table has room for.
Profile(pairs) ==
  /\ Line("x29_profile") /\ pairs # <<>>
  /\ Len(Accepted(pairs)) <= MAXX29PROFILE
  /\ X29_profile' = Entered(X29_profile, pairs)
  /\ X29_profile_len' = LenOf(pairs)
  /\ given' = pairs
  /\ UNCHANGED <<at, num, Chaddr>>

\* One parameter more is written behind the table, over other variables:
\* nothing is said of the process from then on but that it can be stopped.
Overflow(pairs) ==
  /\ Line("x29_profile") /\ Len(Accepted(pairs)) > MAXX29PROFILE
  /\ at' = "wild"
  /\ UNCHANGED proc

\* Without any pair strtok_r returns NULL, and strlen of it kills the process.
NoToken ==
  /\ Line("x29_profile") /\ <<>> \in Said("x29_profile", Profiles)
  /\ at' = "down"
  /\ UNCHANGED proc

\* The path of the log, a comment, or a line that is not understood.
Other ==
  /\ Line("log_path")
  /\ UNCHANGED <<at, proc>>

\* The end of the file.
Ends ==
  /\ at = "read"
  /\ file = "written" => line = Len(Order)
  /\ at' = "up"
  /\ UNCHANGED <<boot, proc, file, saved, line, reads>>

Read ==
  \/ \E k \in Names :
       \E n \in Said(k, Numbers) : Number(k, n)
  \/ \E n \in Said("Pacsize_in", Numbers) : Shifts(n)
  \/ \E d \in Said("address", Addresses) : Address(d)
  \/ \E pairs \in Said("x29_profile", Profiles) : Profile(pairs) \/ Overflow(pairs)
  \/ NoToken \/ Other \/ Ends

CfgNext ==
  \/ Start \/ Reload \/ Stop \/ Open \/ WriteCfg \/ NoFile \/ Read
  \/ \E what \in {"absent", "edited"} : Edit(what)

CfgSpec == CfgInit /\ [][CfgNext]_cvars

-----------------------------------------------------------------------------
\* Types, and what fits the memory: an X.121 address and the profile.
CfgTypeOK ==
  /\ at \in {"down", "open", "read", "up", "stuck", "wild"} /\ boot \in BOOLEAN
  /\ num \in [Names -> Int] /\ Chaddr \in 0..15
  /\ X29_profile_len \in -1..(MAXX29PROFILE - 1)
  /\ DOMAIN X29_profile = 1..MAXX29PROFILE
  /\ file \in {"absent", "edited", "written"}
  /\ line \in Nat /\ reads \in 0..MaxReads

\* The kernel takes the facilities that open_listen asks for, so that no
\* configuration makes the listener fail and be started again for ever
\* (open_x25.c, monitor.c); the log level is one of those Printf knows.
FacilitiesValid ==
  /\ num["Winsize_in"] \in 1..7 /\ num["Pacsize_in"] \in 4..12
  /\ num["Log_level"] \in 0..10

\* Timers can be set and run: the idle time is less than a second of
\* nanoseconds, else set_read_timeout would fail and end every session, and
\* the watchdog is not 0, which would stop it (watchdog.c).
TimersArm ==
  /\ num["Forwardtimer"] >= 0
  /\ num["Forwardtimer"] * 5000000 < 1000000000
  /\ num["Watchdog_timeout"] \in 1..600
  /\ num["Buffer_size"] >= 0

\* What writecfg wrote, read by the next process, is what it wrote of itself:
\* another writecfg would write the same (writecfg, readcfg, paclen, faclen).
WrittenReadsBack ==
  at = "up" /\ file = "written" =>
    /\ \A k \in Names : Printed(k) = saved.num[k]
    /\ Chaddr = saved.adr

\* The SET message holds the parameters of the line read last, however many
\* the table held before, if they are two or more (readcfg, x29set_default).
ProfileSent ==
  Len(Accepted(given)) >= 2 =>
    Sent(X29_profile, X29_profile_len) = Accepted(given)

\* x29set_default allocates 2 bytes for each parameter of a full table, none
\* for the Q bit and the code before them: the SET message of a line of exactly
\* as many parameters as the table has room for, and no other, is written past
\* the end of its memory, by these 2 bytes (cfgfile.c 106-125, x29proto.c 67-95).
Overrun == MessageLength(Sent(X29_profile, X29_profile_len)) - 2 * MAXX29PROFILE
SetFits ==
  /\ Overrun <= 2
  /\ Overrun > 0 <=> Len(Accepted(given)) = MAXX29PROFILE
=============================================================================
