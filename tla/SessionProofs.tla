--------------------------- MODULE SessionProofs ---------------------------
(***************************************************************************)
(* What a session keeps, proved for every setting, every size and every    *)
(* amount of traffic.                                                      *)
(***************************************************************************)
EXTENDS SessionProps, TLAPS

\* A step that leaves a group of variables alone keeps its types.

LEMMA SameCtl == TypeCtl /\ UNCHANGED ctl => TypeCtl'
  BY DEF TypeCtl, ctl
LEMMA SameSig == TypeSig /\ UNCHANGED sig => TypeSig'
  BY DEF TypeSig, sig
LEMMA SameTim == TypeTim /\ UNCHANGED tim => TypeTim'
  BY DEF TypeTim, tim
LEMMA SameCfg == TypeCfg /\ UNCHANGED cfg => TypeCfg'
  BY DEF TypeCfg, cfg
LEMMA SameFill == TypeBuf /\ TypeLimits /\ TypeDue /\ UNCHANGED fill
                  => TypeBuf' /\ TypeLimits' /\ TypeDue'
  BY DEF TypeBuf, TypeLimits, TypeDue, fill, limits
LEMMA SameWsk == TypeWsk /\ UNCHANGED wsk => TypeWsk'
  BY DEF TypeWsk, wsk
LEMMA SameWpt == TypeWpt /\ UNCHANGED wpt => TypeWpt'
  BY DEF TypeWpt, wpt
LEMMA SamePty == TypePty /\ UNCHANGED pty => TypePty'
  BY DEF TypePty, pty
LEMMA SameX25 == TypeX25 /\ UNCHANGED x25 => TypeX25'
  BY DEF TypeX25, x25
LEMMA SameEntry == TypeEntry /\ UNCHANGED entry => TypeEntry'
  BY DEF TypeEntry, entry

\* The sizes of a packet are numbers.
LEMMA Sizes == DatalengthMin \in Nat /\ DataLen \in Nat
  BY SessionAssumption

\* Exit keeps the count of withdrawals a number.
LEMMA ExitType == TypeEntry /\ Exit => TypeEntry'
  BY DEF TypeEntry, Exit, Withdraw

\* The initial states are well typed.
LEMMA InitType == Init => TypeOK
<1> SUFFICES ASSUME Init PROVE TypeOK
  OBVIOUS
<1>1. TypeCtl /\ TypeSig /\ TypeTim
  BY SessionAssumption
     DEF Init, TypeCtl, TypeSig, TypeTim, Setup, Signals, Events
<1>2. /\ fwdEx \in BOOLEAN /\ minEx \in BOOLEAN /\ lastIsWrite \in BOOLEAN
      /\ incrd \in BOOLEAN /\ wpart \in BOOLEAN /\ slave \in BOOLEAN
  BY DEF Init
<1>3. TypeCfg /\ TypeBuf /\ TypeDue
  BY <1>2 DEF Init, TypeCfg, TypeBuf, TypeDue
<1>4. TypeLimits
  <2>1. minlimit \in Int /\ lastread \in Nat /\ lastwrite \in Nat
    BY SessionAssumption DEF Init
  <2>2. QED
    BY <1>2, <2>1 DEF TypeLimits
<1>5. TypeWsk /\ TypeWpt /\ TypePty
  <2>1. TypeWsk
    BY DEF Init, TypeWsk
  <2>2. wpos \in 0..DataLen /\ wseen \in 0..DataLen
    BY Sizes DEF Init
  <2>3. /\ produced \in 0..MaxOutput /\ taken \in 0..produced
        /\ inq \in 0..PtyCapacity
    BY SessionAssumption DEF Init
  <2>4. login \in {"none", "run", "zombie", "reaped"}
    BY DEF Init
  <2>5. QED
    BY <1>2, <2>1, <2>2, <2>3, <2>4 DEF TypeWpt, TypePty
<1>6. TypeX25 /\ TypeEntry
  BY SessionAssumption DEF Init, TypeX25, TypeEntry
<1>7. QED
  BY <1>1, <1>2, <1>3, <1>4, <1>5, <1>6 DEF Init, TypeOK

\* A signal handler leaves the signal state well typed.
LEMMA HandlerType ==
  ASSUME TypeSig, NEW s \in Signals, Handler(s)
  PROVE  TypeSig'
  BY DEF Handler, TypeSig

\* What surrounds the session keeps the types.
LEMMA EnvType == ASSUME TypeOK, Env PROVE TypeOK'
<1> USE SameCtl, SameSig, SameTim, SameCfg, SameFill, SameWsk, SameWpt, SamePty,
        SameX25, SameEntry
<1> USE DEF TypeOK
<1>1. ASSUME NEW s \in External \ {"USR1"}, Interrupt(s)
      PROVE  TypeOK'
  BY <1>1, HandlerType, SessionAssumption DEF Interrupt, Signals
<1>2. CASE StraySignal
  BY <1>2 DEF StraySignal, TypeSig
<1>3. CASE WatchExpires
  BY <1>3, HandlerType DEF WatchExpires, Signals, TypeTim
<1>4. CASE ReadTimerExpires
  BY <1>4, HandlerType DEF ReadTimerExpires, Signals, TypeTim
<1>5. CASE LoginExits
  BY <1>5, HandlerType DEF LoginExits, Signals, TypePty
<1>6. CASE SlaveCloses
  BY <1>6 DEF SlaveCloses, TypePty
<1>7. CASE LoginWrites
  BY <1>7, SessionAssumption DEF LoginWrites, TypePty
<1>8. CASE LoginReads
  BY <1>8, SessionAssumption DEF LoginReads, TypePty
<1>9. ASSUME NEW kind \in Kinds, TerminalSends(kind)
      PROVE  TypeOK'
  BY <1>9, SessionAssumption DEF TerminalSends, TypeX25
<1>10. ASSUME NEW how \in {"cleared", "failed"}, CallEnds(how)
       PROVE  TypeOK'
  BY <1>10 DEF CallEnds, TypeX25
<1>11. QED
  BY <1>1, <1>2, <1>3, <1>4, <1>5, <1>6, <1>7, <1>8, <1>9, <1>10 DEF Env

-----------------------------------------------------------------------------
\* do_inter of do_copy.c keeps the types of what it assigns.
LEMMA DoInterType ==
  ASSUME TypeOK, DoInter
  PROVE  /\ setting' \in Settings
         /\ done' \in {0, 1, 2, 3, 6, 7, 8, 9, 10, 11}
         /\ fwdEx' \in BOOLEAN
         /\ login' \in {"none", "run", "zombie", "reaped"}
         /\ flags' \subseteq Signals
  BY DEF DoInter, Reload, Reason, RecvExitStatus, TypeOK, TypeCtl, TypeCfg,
         TypeDue, TypePty

\* The pieces of a sequence of numbers are sequences of numbers.
LEMMA SubSeqType ==
  ASSUME NEW s \in Seq(Nat), NEW m \in Nat \ {0}, NEW n \in 0..Len(s)
  PROVE  SubSeq(s, m, n) \in Seq(Nat)
  OBVIOUS

\* What is left of the packets to read, once the first is taken.
LEMMA TailType ==
  ASSUME net \in Seq(Kinds), net # <<>>
  PROVE  Tail(net) \in Seq(Kinds)
  OBVIOUS

\* The next n bytes of the pty are a sequence of n numbers.
LEMMA PendingType ==
  ASSUME TypePty, NEW n \in Nat
  PROVE  Pending(n) \in Seq(Nat) /\ Len(Pending(n)) = n
<1>1. \A i \in 1..n : taken + i \in Nat
  BY DEF TypePty
<1>2. QED
  BY <1>1 DEF Pending

\* A read from the pty returns bytes that are there and have room.
LEMMA ReadRange ==
  ASSUME TypeOK, NEW k \in 1..Least(Room, produced - taken)
  PROVE  k \in Nat /\ k <= Room /\ taken + k \in 0..produced
<1>1. Room \in Nat
  BY SessionAssumption DEF TypeOK, TypeCfg, TypeBuf, Room
<1>2. QED
  BY <1>1 DEF TypeOK, TypePty, Least

\* The threshold after an idle time is a number.
LEMMA ShrunkType ==
  ASSUME TypeBuf, TypeLimits
  PROVE  Shrunk \in Int
<1>1. totali \in Nat
  BY DEF TypeBuf, totali
<1>2. QED
  BY <1>1 DEF TypeLimits, Shrunk

\* Bytes read over the held ones are as many numbers as before.
LEMMA OverlayType ==
  ASSUME TypePty, TypeBuf, NEW k \in Nat
  PROVE  LET b == [i \in 1..totali |-> IF i <= k THEN taken + i ELSE buf[i]]
         IN  b \in Seq(Nat) /\ Len(b) = totali
<1>1. \A i \in 1..totali : taken + i \in Nat /\ buf[i] \in Nat
  BY DEF TypePty, TypeBuf, totali
<1>2. totali \in Nat
  BY DEF TypeBuf, totali
<1>3. QED
  BY <1>1, <1>2

\* The threshold, the timer and the flag that a read into the buffer sets.
LEMMA ThresholdType ==
  ASSUME TypeOK, ReadHeld
  PROVE  /\ minlimit' \in Int /\ lastread' \in Nat /\ lastwrite' \in Nat
         /\ lastIsWrite' \in BOOLEAN /\ incrd' \in BOOLEAN
         /\ fwdEx' \in BOOLEAN /\ minEx' \in BOOLEAN /\ qbit' \in {0, 1}
         /\ wtimer' \in BOOLEAN /\ rtimer' \in BOOLEAN
<1>1. totali \in Nat
  BY DEF TypeOK, TypeBuf, totali
<1>2. PICK k \in 1..Least(Room, produced - taken) :
        /\ lastread' = k
        /\ minlimit' = IF lastIsWrite THEN lastwrite + (totali + k) \div 2
                       ELSE minlimit
        /\ minEx' = (minEx \/ totali + k >= minlimit')
        /\ rtimer' = (totali + k < minlimit')
  BY DEF ReadHeld
<1>3. k \in Nat
  BY <1>2
<1>4. QED
  BY <1>1, <1>2, <1>3
     DEF ReadHeld, TypeOK, TypeLimits, TypeDue, TypeTim

\* Writing to the socket keeps the types.
LEMMA WriteSockType == ASSUME TypeOK, WriteSock PROVE TypeOK'
<1> USE DEF TypeOK
<1>1. CASE WriteSome
  <2>1. TypeWsk'
    BY <1>1, SubSeqType DEF WriteSome, TypeWsk, Rest
  <2>2. TypeX25'
    BY <1>1, SubSeqType DEF WriteSome, TypeX25, TypeWsk
  <2>3. QED
    BY <1>1, <2>1, <2>2, SameCtl, SameSig, SameTim, SameCfg, SameWpt, SamePty,
       SameFill, SameEntry
       DEF WriteSome
<1>2. CASE DataInterrupted
  <2>1. TypeCtl'
    BY <1>2, DoInterType DEF DataInterrupted, TypeCtl
  <2>2. TypeSig'
    BY <1>2, DoInterType DEF DataInterrupted, TypeSig
  <2>3. TypeCfg'
    BY <1>2, DoInterType DEF DataInterrupted, TypeCfg
  <2>4. TypeBuf'
    BY <1>2 DEF DataInterrupted, TypeBuf
  <2>5. TypeLimits'
    BY <1>2 DEF DataInterrupted, TypeLimits, limits
  <2>6. TypeDue'
    BY <1>2, DoInterType DEF DataInterrupted, TypeDue
  <2>7. TypeWsk'
    BY <1>2 DEF DataInterrupted, TypeWsk
  <2>8. TypePty'
    BY <1>2, DoInterType DEF DataInterrupted, TypePty
  <2>9. QED
    BY <1>2, <2>1, <2>2, <2>3, <2>4, <2>5, <2>6, <2>7, <2>8, SameTim, SameWpt,
       SameX25, SameEntry
       DEF DataInterrupted
<1>3. CASE X29Interrupted
  <2>1. TypeCtl'
    BY <1>3 DEF X29Interrupted, TypeCtl, X29Inter, Exit, Ended
  <2>2. TypeSig'
    BY <1>3 DEF X29Interrupted, TypeSig, X29Inter
  <2>3. TypeCfg'
    BY <1>3 DEF X29Interrupted, TypeCfg, X29Inter, Reload
  <2>4. TypeBuf'
    BY <1>3 DEF X29Interrupted, TypeBuf
  <2>5. TypeLimits'
    BY <1>3 DEF X29Interrupted, TypeLimits, limits
  <2>6. TypeDue'
    BY <1>3 DEF X29Interrupted, TypeDue, X29Inter
  <2>7. TypeWsk'
    BY <1>3 DEF X29Interrupted, TypeWsk
  <2>8. TypePty'
    BY <1>3 DEF X29Interrupted, TypePty, X29Inter
  <2>9. TypeEntry'
    BY <1>3, ExitType, SameEntry DEF X29Interrupted, X29Inter
  <2>10. QED
    BY <1>3, <2>1, <2>2, <2>3, <2>4, <2>5, <2>6, <2>7, <2>8, <2>9, SameTim,
       SameWpt, SameX25
       DEF X29Interrupted
<1>4. CASE WriteError
  <2>1. TypeCtl'
    BY <1>4 DEF WriteError, TypeCtl
  <2>2. TypeSig'
    BY <1>4 DEF WriteError, TypeSig
  <2>3. TypeWsk'
    <3>1. CASE cerr < 2
      BY <1>4, <3>1 DEF WriteError, TypeWsk
    <3>2. CASE ~(cerr < 2)
      BY <1>4, <3>2 DEF WriteError, TypeWsk
    <3>3. QED
      BY <3>1, <3>2
  <2>4. QED
    BY <1>4, <2>1, <2>2, <2>3, SameTim, SameCfg, SameWpt, SamePty,
       SameX25, SameEntry, SameFill
       DEF WriteError
<1>5. CASE WritePipe
  <2>1. TypeCtl'
    BY <1>5 DEF WritePipe, TypeCtl, Ended
  <2>2. QED
    BY <1>5, <2>1, SameSig, SameTim, SameCfg, SameWsk, SameWpt, SamePty,
       SameX25, SameEntry, SameFill
       DEF WritePipe
<1>6. QED
  BY <1>1, <1>2, <1>3, <1>4, <1>5 DEF WriteSock

\* Writing to the pty keeps the types.
LEMMA WritePtyType == ASSUME TypeOK, WritePty PROVE TypeOK'
<1> USE DEF TypeOK
<1>1. CASE PtyTakes
  <2>1. TypeWpt'
    BY <1>1, SessionAssumption DEF PtyTakes, TypeWpt
  <2>2. TypePty'
    BY <1>1, SessionAssumption DEF PtyTakes, TypePty
  <2>3. QED
    BY <1>1, <2>1, <2>2, SameCtl, SameSig, SameTim, SameCfg, SameWsk,
       SameX25, SameEntry, SameFill
       DEF PtyTakes
<1>2. CASE PtyShort
  <2>1. TypeSig'
    BY <1>2 DEF PtyShort, TypeSig
  <2>2. TypeWpt'
    BY <1>2 DEF PtyShort, TypeWpt
  <2>3. QED
    BY <1>2, <2>1, <2>2, SameCtl, SameTim, SameCfg, SameWsk, SamePty,
       SameX25, SameEntry, SameFill
       DEF PtyShort
<1>3. CASE PtyInterrupted
  <2>1. TypeCtl'
    BY <1>3, DoInterType DEF PtyInterrupted, TypeCtl
  <2>2. TypeSig'
    BY <1>3, DoInterType DEF PtyInterrupted, TypeSig
  <2>3. TypeCfg'
    BY <1>3, DoInterType DEF PtyInterrupted, TypeCfg
  <2>4. TypeBuf'
    BY <1>3 DEF PtyInterrupted, TypeBuf
  <2>5. TypeLimits'
    BY <1>3 DEF PtyInterrupted, TypeLimits, limits
  <2>6. TypeDue'
    BY <1>3, DoInterType DEF PtyInterrupted, TypeDue
  <2>7. TypeWpt'
    BY <1>3, SessionAssumption DEF PtyInterrupted, TypeWpt
  <2>8. TypePty'
    BY <1>3, DoInterType DEF PtyInterrupted, TypePty
  <2>9. QED
    BY <1>3, <2>1, <2>2, <2>3, <2>4, <2>5, <2>6, <2>7, <2>8, SameTim, SameWsk,
       SameX25, SameEntry
       DEF PtyInterrupted
<1>4. CASE PtyError
  <2>1. TypeCtl'
    BY <1>4 DEF PtyError, TypeCtl
  <2>2. TypeSig'
    BY <1>4 DEF PtyError, TypeSig
  <2>3. TypeWpt'
    BY <1>4, SessionAssumption DEF PtyError, TypeWpt
  <2>4. QED
    BY <1>4, <2>1, <2>2, <2>3, SameTim, SameCfg, SameWsk, SamePty,
       SameX25, SameEntry, SameFill
       DEF PtyError
<1>5. QED
  BY <1>1, <1>2, <1>3, <1>4 DEF WritePty

\* Reading the pty keeps the types: what is read was written and fits.
LEMMA ReadMasterType == ASSUME TypeOK, ReadMaster PROVE TypeOK'
<1> USE DEF TypeOK
<1>1. CASE ReadDirect
  <2>1. TypeCtl'
    BY <1>1 DEF ReadDirect, TypeCtl, Copying, Closing, AfterMaster
  <2>2. TypeBuf'
    BY <1>1, OverlayType, ReadRange DEF ReadDirect, TypeBuf, totali
  <2>3. TypeLimits'
    BY <1>1 DEF ReadDirect, TypeLimits, limits
  <2>4. TypeDue'
    BY <1>1 DEF ReadDirect, TypeDue
  <2>5. TypeWsk'
    BY <1>1, PendingType, ReadRange DEF ReadDirect, TypeWsk, StartWrite
  <2>6. TypePty'
    BY <1>1, ReadRange DEF ReadDirect, TypePty
  <2>7. QED
    BY <1>1, <2>1, <2>2, <2>3, <2>4, <2>5, <2>6, SameSig, SameTim, SameCfg,
       SameWpt, SameX25, SameEntry
       DEF ReadDirect
<1>2. CASE ReadHeld
  <2>1. TypeCtl'
    BY <1>2 DEF ReadHeld, TypeCtl, Copying, Closing, AfterMaster
  <2>2. TypeTim'
    BY <1>2, ThresholdType DEF ReadHeld, TypeTim
  <2>3. TypeBuf'
    <3>1. PICK k \in 1..Least(Room, produced - taken) :
            /\ buf' = buf \o Pending(k)
            /\ freesize' = freesize - k
      BY <1>2 DEF ReadHeld
    <3>2. k \in Nat /\ k <= freesize
      BY <1>2, ReadRange DEF ReadHeld, Room
    <3>3. QED
      BY <3>1, <3>2, PendingType DEF TypeBuf
  <2>4. TypeLimits'
    BY <1>2, ThresholdType DEF ReadHeld, TypeLimits
  <2>5. TypeDue'
    BY <1>2, ThresholdType DEF ReadHeld, TypeDue
  <2>6. TypePty'
    BY <1>2, ReadRange DEF ReadHeld, TypePty
  <2>7. QED
    BY <1>2, <2>1, <2>2, <2>3, <2>4, <2>5, <2>6, SameSig, SameCfg, SameWsk,
       SameWpt, SameX25, SameEntry
       DEF ReadHeld
<1>3. CASE ReadEof
  <2>1. TypeCtl'
    BY <1>3 DEF ReadEof, TypeCtl, Copying, Closing, AfterMaster
  <2>2. QED
    BY <1>3, <2>1, SameSig, SameTim, SameCfg, SameWsk, SameWpt, SamePty,
       SameX25, SameEntry, SameFill
       DEF ReadEof
<1>4. CASE ReadFails
  <2>1. TypeCtl'
    BY <1>4 DEF ReadFails, TypeCtl, Copying, Closing, AfterMaster
  <2>2. TypeSig'
    BY <1>4 DEF ReadFails, TypeSig
  <2>3. QED
    BY <1>4, <2>1, <2>2, SameTim, SameCfg, SameWsk, SameWpt, SamePty,
       SameX25, SameEntry, SameFill
       DEF ReadFails
<1>5. QED
  BY <1>1, <1>2, <1>3, <1>4 DEF ReadMaster

\* Reading the call keeps the types.
LEMMA ReadSocketType == ASSUME TypeOK, ReadSocket PROVE TypeOK'
<1> USE DEF TypeOK
<1>1. CASE ReadData
  <2>1. TypeCtl'
    BY <1>1 DEF ReadData, TypeCtl, Copying, Closing
  <2>2. TypeBuf'
    BY <1>1 DEF ReadData, TypeBuf
  <2>3. TypeLimits'
    BY <1>1 DEF ReadData, TypeLimits, limits
  <2>4. TypeDue'
    BY <1>1 DEF ReadData, TypeDue
  <2>5. TypeX25'
    BY <1>1, TailType DEF ReadData, TypeX25
  <2>6. QED
    BY <1>1, <2>1, <2>2, <2>3, <2>4, <2>5, SameSig, SameTim, SameCfg, SameWsk,
       SameWpt, SamePty, SameEntry
       DEF ReadData
<1>2. CASE ReadX29
  <2>1. TypeCtl'
    BY <1>2 DEF ReadX29, TypeCtl, Copying, Closing
  <2>2. TypeTim'
    BY <1>2 DEF ReadX29, TypeTim
  <2>3. TypeX25'
    BY <1>2, TailType DEF ReadX29, TypeX25
  <2>4. QED
    BY <1>2, <2>1, <2>2, <2>3, SameSig, SameCfg, SameWsk, SameWpt, SamePty,
       SameFill, SameEntry
       DEF ReadX29
<1>3. CASE ReadEmpty
  <2>1. TypeCtl'
    BY <1>3, DoInterType DEF ReadEmpty, TypeCtl, Copying
  <2>2. TypeSig'
    BY <1>3, DoInterType DEF ReadEmpty, TypeSig
  <2>3. TypeCfg'
    BY <1>3, DoInterType DEF ReadEmpty, TypeCfg
  <2>4. TypeBuf'
    BY <1>3 DEF ReadEmpty, TypeBuf
  <2>5. TypeLimits'
    BY <1>3 DEF ReadEmpty, TypeLimits, limits
  <2>6. TypeDue'
    BY <1>3, DoInterType DEF ReadEmpty, TypeDue
  <2>7. TypePty'
    BY <1>3, DoInterType DEF ReadEmpty, TypePty
  <2>8. TypeX25'
    BY <1>3, TailType DEF ReadEmpty, TypeX25
  <2>9. QED
    BY <1>3, <2>1, <2>2, <2>3, <2>4, <2>5, <2>6, <2>7, <2>8, SameTim, SameWsk,
       SameWpt, SameEntry
       DEF ReadEmpty
<1>4. CASE ReadEnded
  <2>1. TypeCtl'
    BY <1>4 DEF ReadEnded, TypeCtl, Copying, Closing
  <2>2. TypeSig'
    BY <1>4 DEF ReadEnded, TypeSig
  <2>3. QED
    BY <1>4, <2>1, <2>2, SameTim, SameCfg, SameWsk, SameWpt, SamePty,
       SameX25, SameEntry, SameFill
       DEF ReadEnded
<1>5. QED
  BY <1>1, <1>2, <1>3, <1>4 DEF ReadSocket

\* The copy loop keeps the types.
LEMMA CopyType == ASSUME TypeOK, Copy PROVE TypeOK'
<1> USE DEF TypeOK
<1>1. CASE EnterCopy
  <2>1. TypeCtl'
    BY <1>1 DEF EnterCopy, TypeCtl, Copying, Closing
  <2>2. TypeCfg'
    BY <1>1, SessionAssumption DEF EnterCopy, TypeCfg
  <2>3. TypeBuf'
    BY <1>1, SessionAssumption DEF EnterCopy, TypeBuf, TypeCfg
  <2>4. TypeLimits'
    BY <1>1 DEF EnterCopy, TypeLimits, limits
  <2>5. TypeDue'
    BY <1>1 DEF EnterCopy, TypeDue
  <2>6. QED
    BY <1>1, <2>1, <2>2, <2>3, <2>4, <2>5, SameSig, SameTim, SameWsk, SameWpt,
       SamePty, SameX25, SameEntry
       DEF EnterCopy
<1>2. CASE Again
  <2>1. TypeCtl'
    BY <1>2 DEF Again, TypeCtl, Copying, Closing
  <2>2. TypeTim'
    BY <1>2 DEF Again, TypeTim
  <2>3. QED
    BY <1>2, <2>1, <2>2, SameSig, SameCfg, SameWsk, SameWpt, SamePty,
       SameX25, SameEntry, SameFill
       DEF Again
<1>3. CASE Leave
  <2>1. TypeCtl'
    BY <1>3 DEF Leave, TypeCtl, Copying, Closing
  <2>2. QED
    BY <1>3, <2>1, SameSig, SameTim, SameCfg, SameWsk, SameWpt, SamePty,
       SameX25, SameEntry, SameFill
       DEF Leave
<1>4. CASE PollReturns
  <2>1. TypeCtl'
    BY <1>4
       DEF PollReturns, TypeCtl, Copying, Closing, Revents, PtyEvents,
           NetEvents, PipeEvents, Events
  <2>2. QED
    BY <1>4, <2>1, SameSig, SameTim, SameCfg, SameWsk, SameWpt, SamePty,
       SameX25, SameEntry, SameFill
       DEF PollReturns
<1>5. CASE PollInterrupted
  <2>1. TypeCtl'
    BY <1>5 DEF PollInterrupted, TypeCtl, Copying, Closing
  <2>2. TypeSig'
    BY <1>5 DEF PollInterrupted, TypeSig
  <2>3. QED
    BY <1>5, <2>1, <2>2, SameTim, SameCfg, SameWsk, SameWpt, SamePty,
       SameX25, SameEntry, SameFill
       DEF PollInterrupted
<1>6. CASE PollFails
  <2>1. TypeCtl'
    BY <1>6 DEF PollFails, TypeCtl, Copying, Closing
  <2>2. TypeSig'
    BY <1>6 DEF PollFails, TypeSig
  <2>3. QED
    BY <1>6, <2>1, <2>2, SameTim, SameCfg, SameWsk, SameWpt, SamePty,
       SameX25, SameEntry, SameFill
       DEF PollFails
<1>7. CASE ReadPipe
  <2>1. TypeCtl'
    BY <1>7 DEF ReadPipe, TypeCtl, Copying, Closing
  <2>2. TypeSig'
    BY <1>7 DEF ReadPipe, TypeSig
  <2>3. QED
    BY <1>7, <2>1, <2>2, SameTim, SameCfg, SameWsk, SameWpt, SamePty,
       SameX25, SameEntry, SameFill
       DEF ReadPipe
<1>8. CASE Inter
  <2>1. TypeCtl'
    BY <1>8, DoInterType DEF Inter, TypeCtl, Copying
  <2>2. TypeSig'
    BY <1>8, DoInterType DEF Inter, TypeSig
  <2>3. TypeCfg'
    BY <1>8, DoInterType DEF Inter, TypeCfg
  <2>4. TypeBuf'
    BY <1>8 DEF Inter, TypeBuf
  <2>5. TypeLimits'
    BY <1>8 DEF Inter, TypeLimits, limits
  <2>6. TypeDue'
    BY <1>8, DoInterType DEF Inter, TypeDue
  <2>7. TypePty'
    BY <1>8, DoInterType DEF Inter, TypePty
  <2>8. QED
    BY <1>8, <2>1, <2>2, <2>3, <2>4, <2>5, <2>6, <2>7, SameTim, SameWsk,
       SameWpt, SameX25, SameEntry
       DEF Inter
<1>9. CASE Check
  <2>1. TypeCtl'
    BY <1>9 DEF Check, TypeCtl, Copying, Closing, Found, AfterMaster
  <2>2. QED
    BY <1>9, <2>1, SameSig, SameTim, SameCfg, SameWsk, SameWpt, SamePty,
       SameX25, SameEntry, SameFill
       DEF Check
<1>10. CASE DirectWritten
  <2>1. TypeCtl'
    BY <1>10 DEF DirectWritten, TypeCtl, Copying, Closing, AfterMaster
  <2>2. QED
    BY <1>10, <2>1, SameSig, SameTim, SameCfg, SameWsk, SameWpt, SamePty,
       SameX25, SameEntry, SameFill
       DEF DirectWritten
<1>11. CASE DataWritten
  <2>1. TypeCtl'
    BY <1>11 DEF DataWritten, TypeCtl, Copying, Closing
  <2>2. TypeWpt'
    <3>1. wpos' \in 0..DataLen /\ wseen' \in 0..DataLen
      BY <1>11, Sizes DEF DataWritten
    <3>2. wpart' \in BOOLEAN
      BY <1>11 DEF DataWritten
    <3>3. QED
      BY <3>1, <3>2 DEF TypeWpt
  <2>3. QED
    BY <1>11, <2>1, <2>2, SameSig, SameTim, SameCfg, SameWsk, SamePty,
       SameX25, SameEntry, SameFill
       DEF DataWritten
<1>12. CASE FlushNothing
  <2>1. TypeCtl'
    BY <1>12 DEF FlushNothing, TypeCtl, Copying, Closing
  <2>2. TypeBuf'
    BY <1>12 DEF FlushNothing, TypeBuf
  <2>3. TypeLimits'
    BY <1>12 DEF FlushNothing, TypeLimits, limits
  <2>4. TypeDue'
    BY <1>12 DEF FlushNothing, TypeDue
  <2>5. QED
    BY <1>12, <2>1, <2>2, <2>3, <2>4, SameSig, SameTim, SameCfg, SameWsk,
       SameWpt, SamePty, SameX25, SameEntry
       DEF FlushNothing
<1>13. CASE Flush
  <2>1. TypeCtl'
    BY <1>13 DEF Flush, TypeCtl, Copying, Closing
  <2>2. TypeBuf'
    BY <1>13 DEF Flush, TypeBuf
  <2>3. TypeLimits'
    BY <1>13, ShrunkType DEF Flush, TypeLimits, limits
  <2>4. TypeDue'
    BY <1>13 DEF Flush, TypeDue
  <2>5. TypeWsk'
    BY <1>13 DEF Flush, TypeWsk, StartWrite, TypeBuf
  <2>6. QED
    BY <1>13, <2>1, <2>2, <2>3, <2>4, <2>5, SameSig, SameTim, SameCfg, SameWpt,
       SamePty, SameX25, SameEntry
       DEF Flush
<1>14. CASE Flushed
  <2>1. TypeCtl'
    BY <1>14 DEF Flushed, TypeCtl, Copying, Closing
  <2>2. TypeBuf'
    BY <1>14, SessionAssumption DEF Flushed, TypeBuf, TypeCfg, FreeAgain
  <2>3. TypeLimits'
    BY <1>14 DEF Flushed, TypeLimits, TypeBuf, totali, limits
  <2>4. TypeDue'
    BY <1>14 DEF Flushed, TypeDue
  <2>5. QED
    BY <1>14, <2>1, <2>2, <2>3, <2>4, SameSig, SameTim, SameCfg, SameWsk,
       SameWpt, SamePty, SameX25, SameEntry
       DEF Flushed
<1>15. QED
  BY <1>1, <1>2, <1>3, <1>4, <1>5, <1>6, <1>7, <1>8, <1>9, <1>10, <1>11, <1>12,
     <1>13, <1>14, ReadMasterType, ReadSocketType, WritePtyType
     DEF Copy

\* Everything before and after the copy loop keeps the types.
LEMMA CloseType == ASSUME TypeOK, Close PROVE TypeOK'
<1> USE DEF TypeOK
<1>1. CASE SetProfile
  <2>1. TypeCtl'
    BY <1>1 DEF SetProfile, TypeCtl, Setup
  <2>2. QED
    BY <1>1, <2>1, SameSig, SameTim, SameCfg, SameWsk, SameWpt, SamePty,
       SameX25, SameEntry, SameFill
       DEF SetProfile
<1>2. CASE ForkLogin
  <2>1. TypeCtl'
    BY <1>2 DEF ForkLogin, TypeCtl, Setup
  <2>2. TypePty'
    BY <1>2 DEF ForkLogin, TypePty
  <2>3. QED
    BY <1>2, <2>1, <2>2, SameSig, SameTim, SameCfg, SameWsk, SameWpt,
       SameX25, SameEntry, SameFill
       DEF ForkLogin
<1>3. CASE CloseMaster
  <2>1. TypeCtl'
    BY <1>3 DEF CloseMaster, TypeCtl, Copying, Closing
  <2>2. TypeTim'
    BY <1>3 DEF CloseMaster, TypeTim
  <2>3. TypeCfg'
    BY <1>3 DEF CloseMaster, TypeCfg
  <2>4. TypeBuf'
    BY <1>3 DEF CloseMaster, TypeBuf
  <2>5. TypeLimits'
    <3>1. minlimit' \in Int /\ lastread' \in Nat /\ lastwrite' \in Nat
      BY <1>3, Sizes DEF CloseMaster
    <3>2. lastIsWrite' \in BOOLEAN /\ incrd' \in BOOLEAN
      BY <1>3 DEF CloseMaster
    <3>3. QED
      BY <3>1, <3>2 DEF TypeLimits
  <2>6. TypeDue'
    BY <1>3 DEF CloseMaster, TypeDue
  <2>7. TypeWsk'
    <3>1. <<0>> \in Seq(Nat)
      OBVIOUS
    <3>2. \/ out' = <<0>> /\ cerr' = 0
          \/ out' = out /\ cerr' = cerr
      BY <1>3 DEF CloseMaster, StartWrite, wsk
    <3>3. out' \in Seq(Nat)
      BY <3>1, <3>2, Zenon DEF TypeWsk
    <3>4. cerr' \in 0..2
      BY <3>2 DEF TypeWsk
    <3>5. QED
      BY <3>3, <3>4 DEF TypeWsk
  <2>8. TypePty'
    BY <1>3, SessionAssumption DEF CloseMaster, TypePty
  <2>9. TypeEntry'
    BY <1>3 DEF CloseMaster, TakeOut, Withdraw, TypeEntry
  <2>10. QED
    BY <1>3, <2>1, <2>2, <2>3, <2>4, <2>5, <2>6, <2>7, <2>8, <2>9, SameSig,
       SameWpt, SameX25
       DEF CloseMaster
<1>4. CASE InvitationSent
  <2>1. TypeCtl'
    BY <1>4 DEF InvitationSent, TypeCtl, Copying, Closing
  <2>2. TypeTim'
    BY <1>4 DEF InvitationSent, TypeTim
  <2>3. QED
    BY <1>4, <2>1, <2>2, SameSig, SameCfg, SameWsk, SameWpt, SamePty,
       SameX25, SameEntry, SameFill
       DEF InvitationSent
<1>5. CASE WaitInterrupted
  <2>1. TypeSig'
    BY <1>5 DEF WaitInterrupted, TypeSig
  <2>2. QED
    BY <1>5, <2>1, SameCtl, SameTim, SameCfg, SameWsk, SameWpt, SamePty,
       SameX25, SameEntry, SameFill
       DEF WaitInterrupted
<1>6. CASE WaitFails
  <2>1. TypeCtl'
    BY <1>6 DEF WaitFails, TypeCtl, Copying, Closing
  <2>2. TypeSig'
    BY <1>6 DEF WaitFails, TypeSig
  <2>3. QED
    BY <1>6, <2>1, <2>2, SameTim, SameCfg, SameWsk, SameWpt, SamePty,
       SameX25, SameEntry, SameFill
       DEF WaitFails
<1>7. CASE NetPoll
  <2>1. TypeCtl'
    BY <1>7
       DEF NetPoll, TypeCtl, Copying, Closing, NetEvents, PipeEvents, Events
  <2>2. QED
    BY <1>7, <2>1, SameSig, SameTim, SameCfg, SameWsk, SameWpt, SamePty,
       SameX25, SameEntry, SameFill
       DEF NetPoll
<1>8. CASE WaitPipe
  <2>1. TypeCtl'
    BY <1>8 DEF WaitPipe, TypeCtl, Copying, Closing
  <2>2. TypeSig'
    BY <1>8 DEF WaitPipe, TypeSig
  <2>3. QED
    BY <1>8, <2>1, <2>2, SameTim, SameCfg, SameWsk, SameWpt, SamePty,
       SameX25, SameEntry, SameFill
       DEF WaitPipe
<1>9. CASE WaitFlags
  <2>1. TypeCtl'
    BY <1>9 DEF WaitFlags, TypeCtl, Copying, Closing
  <2>2. TypeSig'
    BY <1>9 DEF WaitFlags, TypeSig
  <2>3. TypePty'
    BY <1>9 DEF WaitFlags, TypePty, RecvExitStatus
  <2>4. QED
    BY <1>9, <2>1, <2>2, <2>3, SameTim, SameCfg, SameWsk, SameWpt,
       SameX25, SameEntry, SameFill
       DEF WaitFlags
<1>10. CASE NetHangup
  <2>1. TypeCtl'
    BY <1>10 DEF NetHangup, TypeCtl, Copying, Closing
  <2>2. QED
    BY <1>10, <2>1, SameSig, SameTim, SameCfg, SameWsk, SameWpt, SamePty,
       SameX25, SameEntry, SameFill
       DEF NetHangup
<1>11. CASE NetNothing
  <2>1. TypeCtl'
    BY <1>11 DEF NetNothing, TypeCtl, Copying, Closing, NetNext
  <2>2. QED
    BY <1>11, <2>1, SameSig, SameTim, SameCfg, SameWsk, SameWpt, SamePty,
       SameX25, SameEntry, SameFill
       DEF NetNothing
<1>12. CASE NetDrop
  <2>1. TypeCtl'
    BY <1>12 DEF NetDrop, TypeCtl, Copying, Closing, NetNext
  <2>2. TypeX25'
    BY <1>12, TailType DEF NetDrop, TypeX25
  <2>3. QED
    BY <1>12, <2>1, <2>2, SameSig, SameTim, SameCfg, SameWsk, SameWpt, SamePty,
       SameFill, SameEntry
       DEF NetDrop
<1>13. CASE NetRefuse
  <2>1. TypeCtl'
    BY <1>13 DEF NetRefuse, TypeCtl, Copying, Closing, NetNext
  <2>2. TypeSig'
    BY <1>13 DEF NetRefuse, TypeSig
  <2>3. TypeX25'
    BY <1>13, TailType DEF NetRefuse, TypeX25
  <2>4. QED
    BY <1>13, <2>1, <2>2, <2>3, SameTim, SameCfg, SameWsk, SameWpt, SamePty,
       SameFill, SameEntry
       DEF NetRefuse
<1>14. CASE NetDone
  <2>1. TypeCtl'
    BY <1>14 DEF NetDone, TypeCtl, Copying, Closing
  <2>2. TypeTim'
    BY <1>14 DEF NetDone, TypeTim
  <2>3. QED
    BY <1>14, <2>1, <2>2, SameSig, SameCfg, SameWsk, SameWpt, SamePty,
       SameX25, SameEntry, SameFill
       DEF NetDone
<1>15. CASE CloseSock
  <2>1. TypeCtl'
    BY <1>15 DEF CloseSock, Exit, TypeCtl, Copying, Closing, Ended
  <2>2. TypeTim'
    BY <1>15 DEF CloseSock, TypeTim
  <2>3. TypeX25'
    BY <1>15 DEF CloseSock, TypeX25
  <2>4. TypeEntry'
    BY <1>15, ExitType, SameEntry DEF CloseSock
  <2>5. QED
    BY <1>15, <2>1, <2>2, <2>3, <2>4, SameSig, SameCfg, SameWsk, SameWpt,
       SamePty, SameFill
       DEF CloseSock
<1>16. CASE StatusPoll
  <2>1. TypeCtl'
    BY <1>16 DEF StatusPoll, TypeCtl, Copying, Closing
  <2>2. QED
    BY <1>16, <2>1, SameSig, SameTim, SameCfg, SameWsk, SameWpt, SamePty,
       SameX25, SameEntry, SameFill
       DEF StatusPoll
<1>17. CASE StatusDone
  <2>1. TypeCtl'
    BY <1>17 DEF StatusDone, Exit, TypeCtl, Copying, Closing, Ended
  <2>2. TypeTim'
    BY <1>17 DEF StatusDone, TypeTim
  <2>3. TypeEntry'
    BY <1>17, ExitType DEF StatusDone
  <2>4. QED
    BY <1>17, <2>1, <2>2, <2>3, SameSig, SameCfg, SameWsk, SameWpt, SamePty,
       SameX25, SameFill
       DEF StatusDone
<1>18. CASE ReloadFails
  <2>1. TypeCtl'
    BY <1>18 DEF ReloadFails, TypeCtl, Copying, Closing, Ended
  <2>2. QED
    BY <1>18, <2>1, SameSig, SameTim, SameCfg, SameWsk, SameWpt, SamePty,
       SameX25, SameEntry, SameFill
       DEF ReloadFails
<1>19. CASE AllocFails
  <2>1. TypeCtl'
    BY <1>19 DEF AllocFails, Exit, TypeCtl, Copying, Closing, Ended
  <2>2. TypeEntry'
    BY <1>19, ExitType DEF AllocFails
  <2>3. QED
    BY <1>19, <2>1, <2>2, SameSig, SameTim, SameCfg, SameWsk, SameWpt, SamePty,
       SameX25, SameEntry, SameFill
       DEF AllocFails
<1>20. QED
  BY <1>1, <1>2, <1>3, <1>4, <1>5, <1>6, <1>7, <1>8, <1>9, <1>10, <1>11, <1>12,
     <1>13, <1>14, <1>15, <1>16, <1>17, <1>18, <1>19
     DEF Close

-----------------------------------------------------------------------------
\* One step keeps the types.
LEMMA NextType == ASSUME TypeOK, [Next]_vars PROVE TypeOK'
<1>1. CASE UNCHANGED vars
  BY <1>1, SameCtl, SameSig, SameTim, SameCfg, SameFill, SameWsk, SameWpt,
     SamePty, SameX25, SameEntry
     DEF vars, TypeOK
<1>2. QED
  BY <1>1, CopyType, WriteSockType, CloseType, EnvType DEF Next, Terminated

\* Every variable of a session keeps its kind: Done holds only the codes that
\* do_copy assigns, no count goes below zero, freesize included, and nothing
\* is read from the pty that was not written to it.
THEOREM TypeCorrect == Spec => []TypeOK
<1>1. Init => TypeOK
  BY InitType
<1>2. TypeOK /\ [Next]_vars => TypeOK'
  BY NextType
<1>3. QED
  BY <1>1, <1>2, PTL DEF Spec
=============================================================================
