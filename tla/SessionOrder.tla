---------------------------- MODULE SessionOrder ----------------------------
(***************************************************************************)
(* The order of the output, proved for every value of the constants: what  *)
(* the terminal has received is a prefix of what the login process wrote,  *)
(* nothing is missing while the session serves, and a session implements   *)
(* TerminalStream.  The premise is that a reload does not switch the       *)
(* holding back of output on or off, as held bytes are overwritten then.   *)
(***************************************************************************)
EXTENDS SessionProofs, SequenceTheorems

\* The settings agree on whether output is held back.
OneMode == \A s, t \in Settings : s.fwd = 0 <=> t.fwd = 0

-----------------------------------------------------------------------------
\* Bytes and their numbers.

\* No byte is the empty sequence.
LEMMA IdsEmpty == Ids(0) = <<>>
  BY DEF Ids

\* The first n numbers are a sequence of that length.
LEMMA IdsType ==
  ASSUME NEW n \in Nat
  PROVE  Ids(n) \in Seq(Nat) /\ Len(Ids(n)) = n
BY DEF Ids

\* What stands before something else in the right order is in order itself.
LEMMA IdsPrefix ==
  ASSUME NEW s \in Seq(Nat), NEW t \in Seq(Nat), NEW n \in Nat,
         s \o t = Ids(n)
  PROVE  s = Ids(Len(s)) /\ Len(s) <= n
<1>1. Len(s) \in Nat /\ Len(t) \in Nat /\ Len(s \o t) = Len(s) + Len(t)
  OBVIOUS
<1>2. Len(s \o t) = n
  BY IdsType
<1>3. \A i \in 1..Len(s) : s[i] = (s \o t)[i]
  OBVIOUS
<1>4. ASSUME NEW i \in 1..Len(s) PROVE s[i] = i
  <2>1. i \in 1..n
    BY <1>1, <1>2
  <2>2. Ids(n)[i] = i
    BY <2>1 DEF Ids
  <2>3. QED
    BY <1>3, <2>2
<1>5. s = Ids(Len(s))
  BY <1>4 DEF Ids
<1>6. QED
  BY <1>1, <1>2, <1>5

\* Two sequences of bytes, one behind the other.
LEMMA ConcatNat ==
  ASSUME NEW s \in Seq(Nat), NEW t \in Seq(Nat)
  PROVE  /\ s \o t \in Seq(Nat)
         /\ Len(s \o t) = Len(s) + Len(t)
         /\ \A i \in 1..(Len(s) + Len(t)) :
              (s \o t)[i] = IF i <= Len(s) THEN s[i] ELSE t[i - Len(s)]
BY ConcatProperties

\* It does not matter which two of three are joined first.
LEMMA AssocNat ==
  ASSUME NEW s \in Seq(Nat), NEW t \in Seq(Nat), NEW u \in Seq(Nat)
  PROVE  (s \o t) \o u = s \o (t \o u)
BY ConcatAssociative

\* The next k bytes of the pty follow those that were taken.
LEMMA IdsPending ==
  ASSUME TypePty, NEW k \in Nat
  PROVE  Ids(taken) \o Pending(k) = Ids(taken + k)
<1>1. taken \in Nat
  BY DEF TypePty
<1>2. /\ Ids(taken) \in Seq(Nat) /\ Len(Ids(taken)) = taken
      /\ Ids(taken + k) \in Seq(Nat) /\ Len(Ids(taken + k)) = taken + k
  BY <1>1, IdsType
<1>3. Pending(k) \in Seq(Nat) /\ Len(Pending(k)) = k
  BY PendingType
<1>4. Ids(taken) \o Pending(k) \in Seq(Nat)
  BY <1>2, <1>3
<1>5. /\ Len(Ids(taken) \o Pending(k)) = Len(Ids(taken)) + Len(Pending(k))
      /\ \A i \in 1..(Len(Ids(taken)) + Len(Pending(k))) :
           (Ids(taken) \o Pending(k))[i] =
             IF i <= Len(Ids(taken)) THEN Ids(taken)[i]
             ELSE Pending(k)[i - Len(Ids(taken))]
  BY <1>2, <1>3, ConcatNat, Zenon
<1>6. ASSUME NEW i \in 1..(taken + k)
      PROVE  (Ids(taken) \o Pending(k))[i] = Ids(taken + k)[i]
  <2>1. i <= taken => Ids(taken)[i] = i
    BY <1>1 DEF Ids
  <2>2. ~(i <= taken) => Pending(k)[i - taken] = i
    BY <1>1 DEF Pending
  <2>3. Ids(taken + k)[i] = i
    BY <1>1 DEF Ids
  <2>4. QED
    BY <1>2, <1>3, <1>5, <2>1, <2>2, <2>3
<1>7. QED
  BY <1>1, <1>2, <1>3, <1>4, <1>5, <1>6, SeqEqual

\* A write moves the head of what is left to the end of what was sent.
LEMMA Moved ==
  ASSUME NEW s \in Seq(Nat), NEW t \in Seq(Nat), NEW k \in 1..Len(t)
  PROVE  /\ (s \o SubSeq(t, 1, k)) \o SubSeq(t, k + 1, Len(t)) = s \o t
         /\ s \o SubSeq(t, 1, k) \in Seq(Nat)
         /\ SubSeq(t, k + 1, Len(t)) \in Seq(Nat)
<1>1. Len(t) \in Nat /\ k \in Nat
  OBVIOUS
<1>2. SubSeq(t, 1, k) \in Seq(Nat) /\ SubSeq(t, k + 1, Len(t)) \in Seq(Nat)
  BY <1>1, SubSeqType
<1>3. SubSeq(t, 1, k) \o SubSeq(t, k + 1, Len(t)) = SubSeq(t, 1, Len(t))
  BY <1>1, ConcatAdjacentSubSeq
<1>4. SubSeq(t, 1, Len(t)) = t
  BY SubSeqFull
<1>5. (s \o SubSeq(t, 1, k)) \o SubSeq(t, k + 1, Len(t))
        = s \o (SubSeq(t, 1, k) \o SubSeq(t, k + 1, Len(t)))
  BY <1>2, AssocNat
<1>6. s \o SubSeq(t, 1, k) \in Seq(Nat)
  BY <1>2
<1>7. QED
  BY <1>2, <1>3, <1>4, <1>5, <1>6, Zenon

-----------------------------------------------------------------------------
\* The steps that move output.

\* A reload keeps the mode.
LEMMA ReloadMode ==
  ASSUME OneMode, TypeOK, Reload
  PROVE  setting'.fwd = 0 <=> setting.fwd = 0
BY DEF OneMode, Reload, TypeOK, TypeCfg

\* do_copy begins with an empty buffer and has read nothing.
LEMMA EnterKeepsOrder ==
  ASSUME TypeOK, OrderInv, EnterCopy
  PROVE  OrderInv'
<1>1. buf = <<>> /\ sent = <<>> /\ taken = 0
  BY DEF OrderInv, EnterCopy, Setup
<1>2. /\ sent' = sent /\ buf' = buf /\ taken' = taken /\ pc' = "loop"
      /\ out' = out
  BY DEF EnterCopy, x25, pty, wsk
<1>3. InHand' = <<>>
  BY <1>1, <1>2 DEF InHand
<1>4. Whole'
  BY <1>1, <1>2, <1>3, IdsEmpty DEF Whole
<1>5. QED
  BY <1>1, <1>2, <1>4 DEF OrderInv, Setup, Copying

\* What is read in direct mode is written next.
LEMMA DirectKeepsOrder ==
  ASSUME TypeOK, OrderInv, ReadDirect
  PROVE  OrderInv'
<1>1. PICK k \in 1..Least(Room, produced - taken) :
        /\ taken' = taken + k
        /\ buf' = [i \in 1..totali |-> IF i <= k THEN taken + i ELSE buf[i]]
        /\ StartWrite(Pending(k))
  BY DEF ReadDirect
<1>2. k \in Nat
  BY ReadRange
<1>3. /\ pc = "rdm" /\ setting.fwd = 0 /\ setting' = setting /\ pc' = "wdirect"
      /\ sent' = sent /\ done' = done
  BY DEF ReadDirect, cfg, x25
<1>4. buf = <<>> /\ Whole
  BY <1>3 DEF OrderInv, Copying, Dropped
<1>5. Pending(k) \in Seq(Nat) /\ sent \in Seq(Nat) /\ taken \in Nat
  BY <1>2, PendingType DEF TypeOK, TypeX25, TypePty
<1>6. buf' = <<>>
  <2>1. totali = 0
    BY <1>4 DEF totali
  <2>2. QED
    BY <1>1, <2>1
<1>7. out' = Pending(k)
  BY <1>1 DEF StartWrite
<1>8. InHand' = Pending(k)
  <2>1. InHand' = buf' \o out'
    BY <1>3 DEF InHand
  <2>2. QED
    BY <1>5, <1>6, <1>7, <2>1, ConcatEmptySeq
<1>9. sent = Ids(taken)
  <2>1. InHand = <<>>
    BY <1>3, <1>4 DEF InHand
  <2>2. QED
    BY <1>4, <1>5, <2>1, ConcatEmptySeq DEF Whole
<1>10. Whole'
  BY <1>1, <1>2, <1>3, <1>8, <1>9, IdsPending DEF Whole, TypeOK
<1>11. QED
  BY <1>3, <1>6, <1>10 DEF OrderInv, Setup, Copying

\* What is read and held back follows what is held already.
LEMMA HeldKeepsOrder ==
  ASSUME TypeOK, OrderInv, ReadHeld
  PROVE  OrderInv'
<1>1. PICK k \in 1..Least(Room, produced - taken) :
        taken' = taken + k /\ buf' = buf \o Pending(k)
  BY DEF ReadHeld
<1>2. k \in Nat
  BY ReadRange
<1>3. /\ pc = "rdm" /\ setting.fwd # 0 /\ setting' = setting
      /\ pc' \in {"rds", "flush"} /\ sent' = sent /\ done' = done
  BY DEF ReadHeld, cfg, x25, AfterMaster
<1>4. Whole
  BY <1>3 DEF OrderInv, Copying, Dropped
<1>5. /\ Pending(k) \in Seq(Nat) /\ sent \in Seq(Nat) /\ taken \in Nat
      /\ buf \in Seq(Nat)
  BY <1>2, PendingType DEF TypeOK, TypeX25, TypePty, TypeBuf
<1>6. InHand = buf /\ InHand' = buf'
  BY <1>3 DEF InHand
<1>7. sent \o buf = Ids(taken)
  BY <1>4, <1>6 DEF Whole
<1>8. sent \o (buf \o Pending(k)) = (sent \o buf) \o Pending(k)
  BY <1>5, AssocNat
<1>9. Whole'
  BY <1>1, <1>2, <1>3, <1>6, <1>7, <1>8, IdsPending DEF Whole, TypeOK
<1>10. QED
  BY <1>3, <1>9 DEF OrderInv, Setup, Copying

\* The flush takes all that is held.
LEMMA FlushKeepsOrder ==
  ASSUME TypeOK, OrderInv, Flush
  PROVE  OrderInv'
<1>1. /\ pc = "flush" /\ buf # <<>> /\ setting.fwd # 0 /\ setting' = setting
      /\ pc' = "wflush" /\ sent' = sent /\ taken' = taken /\ buf' = buf
      /\ out' = buf
  BY DEF Flush, Due, StartWrite, cfg, x25, pty
<1>2. Whole
  BY <1>1 DEF OrderInv, Copying, Dropped
<1>3. InHand = buf /\ InHand' = buf
  BY <1>1 DEF InHand
<1>4. Whole'
  BY <1>1, <1>2, <1>3 DEF Whole
<1>5. QED
  BY <1>1, <1>4 DEF OrderInv, Setup, Copying

\* Once a flush is written nothing is in hand.
LEMMA FlushedKeepsOrder ==
  ASSUME TypeOK, OrderInv, Flushed
  PROVE  OrderInv'
<1>1. /\ pc = "wflush" /\ out = <<>> /\ setting' = setting /\ done' = done
      /\ pc' = "loop" /\ sent' = sent /\ taken' = taken /\ buf' = <<>>
  BY DEF Flushed, cfg, x25, pty
<1>2. InHand = <<>> /\ InHand' = <<>>
  BY <1>1 DEF InHand
<1>3. Whole => Whole'
  BY <1>1, <1>2 DEF Whole
<1>4. Dropped => Dropped'
  BY <1>1 DEF Dropped, DataWrites
<1>5. QED
  BY <1>1, <1>3, <1>4 DEF OrderInv, Setup, Copying

\* In direct mode nothing is in hand once the read bytes are written.
LEMMA WrittenKeepsOrder ==
  ASSUME TypeOK, OrderInv, DirectWritten
  PROVE  OrderInv'
<1>1. /\ pc = "wdirect" /\ out = <<>> /\ setting' = setting /\ done' = done
      /\ pc' \in {"rds", "flush"} /\ sent' = sent /\ taken' = taken
      /\ buf' = buf
  BY DEF DirectWritten, cfg, x25, pty, fill, AfterMaster
<1>2. buf = <<>>
  BY <1>1 DEF OrderInv, Copying
<1>3. InHand = <<>> \o <<>> /\ InHand' = <<>>
  BY <1>1, <1>2 DEF InHand
<1>4. InHand = <<>>
  BY <1>3
<1>5. Whole => Whole'
  BY <1>1, <1>3, <1>4 DEF Whole
<1>6. Dropped => Dropped'
  BY <1>1, <1>2 DEF Dropped, DataWrites
<1>7. QED
  BY <1>1, <1>2, <1>5, <1>6 DEF OrderInv, Setup, Copying

\* What write() takes of the output goes to the terminal, and no other write
\* sends any.
LEMMA SomeKeepsOrder ==
  ASSUME TypeOK, OrderInv, WriteSome
  PROVE  OrderInv'
<1>1. PICK k \in 1..Len(out) :
        /\ out' = SubSeq(out, k + 1, Len(out))
        /\ sent' = IF pc \in DataWrites THEN sent \o SubSeq(out, 1, k) ELSE sent
  BY DEF WriteSome, Rest
<1>2. /\ pc \in SockWrites /\ out # <<>> /\ pc' = pc /\ done' = done
      /\ setting' = setting /\ taken' = taken /\ buf' = buf
  BY DEF WriteSome, ctl, cfg, pty, fill
<1>3. out \in Seq(Nat) /\ sent \in Seq(Nat) /\ buf \in Seq(Nat) /\ taken \in Nat
  BY DEF TypeOK, TypeWsk, TypeX25, TypeBuf, TypePty
<1>4. CASE pc \in DataWrites
  <2>1. Whole
    BY <1>2, <1>4 DEF OrderInv, Copying, DataWrites, Dropped
  <2>2. (pc = "wdirect" => buf = <<>>) /\ pc \in {"wdirect", "wflush"}
    BY <1>4 DEF OrderInv, Copying, DataWrites
  <2>3. InHand = out
    BY <1>3, <2>2, ConcatEmptySeq DEF InHand
  <2>4. out' \in Seq(Nat) /\ sent' \in Seq(Nat) /\ sent' \o out' = sent \o out
    BY <1>1, <1>3, <1>4, Moved
  <2>5. InHand' = out'
    BY <1>2, <2>2, <2>4, ConcatEmptySeq DEF InHand
  <2>6. sent' \o out' = Ids(taken)
    BY <2>1, <2>3, <2>4 DEF Whole
  <2>7. Whole'
    BY <1>2, <2>5, <2>6 DEF Whole
  <2>8. sent' = Ids(Len(sent'))
    BY <1>3, <2>4, <2>6, IdsPrefix
  <2>9. QED
    BY <1>2, <2>2, <2>7, <2>8 DEF OrderInv, Setup, Copying
<1>5. CASE pc \notin DataWrites
  <2>1. sent' = sent /\ pc' \in {"x29set", "inv"}
    BY <1>1, <1>2, <1>5 DEF SockWrites, DataWrites
  <2>2. QED
    BY <1>2, <2>1 DEF OrderInv, Setup, Copying
<1>6. QED
  BY <1>4, <1>5

\* A write that is given up is given up on the way out.
LEMMA ErrorKeepsOrder ==
  ASSUME TypeOK, OrderInv, WriteError
  PROVE  OrderInv'
<1>1. /\ pc \in SockWrites /\ pc' = pc /\ setting' = setting /\ taken' = taken
      /\ buf' = buf /\ sent' = sent
  BY DEF WriteError, cfg, pty, fill, x25
<1>2. \/ out' = out /\ done' = done
      \/ out' = <<>> /\ (pc \in DataWrites => done' = 10)
  BY DEF WriteError
<1>3. CASE out' = out /\ done' = done
  <2>1. InHand' = InHand
    BY <1>1, <1>3 DEF InHand
  <2>2. (Whole => Whole') /\ (Dropped => Dropped')
    BY <1>1, <1>3, <2>1 DEF Whole, Dropped
  <2>3. QED
    BY <1>1, <2>2 DEF OrderInv
<1>4. CASE out' = <<>> /\ (pc \in DataWrites => done' = 10)
  <2>1. pc \in DataWrites => Dropped'
    BY <1>1, <1>4 DEF Dropped, DataWrites
  <2>2. pc \in Copying => pc \in DataWrites
    BY <1>1 DEF Copying, SockWrites, DataWrites
  <2>3. QED
    BY <1>1, <2>1, <2>2 DEF OrderInv
<1>5. QED
  BY <1>2, <1>3, <1>4

\* An interrupted write goes on, or is given up on the way out.
LEMMA InterruptedKeepsOrder ==
  ASSUME OneMode, TypeOK, OrderInv, DataInterrupted
  PROVE  OrderInv'
<1>1. /\ pc \in DataWrites /\ pc' = pc /\ taken' = taken
      /\ buf' = buf /\ sent' = sent
  BY DEF DataInterrupted, x25
<1>2. setting'.fwd = 0 <=> setting.fwd = 0
  BY ReloadMode DEF DataInterrupted, DoInter
<1>3. \/ out' = out /\ (done' = done \/ done' # 0)
      \/ out' = <<>> /\ done' # 0
  BY DEF DataInterrupted, DoInter, Stops, Reason
<1>4. CASE out' = out /\ (done' = done \/ done' # 0)
  <2>1. InHand' = InHand
    BY <1>1, <1>4 DEF InHand
  <2>2. (Whole => Whole') /\ (Dropped => Dropped')
    BY <1>1, <1>4, <2>1 DEF Whole, Dropped
  <2>3. QED
    BY <1>1, <1>2, <2>2 DEF OrderInv
<1>5. CASE out' = <<>> /\ done' # 0
  <2>1. Dropped'
    BY <1>1, <1>5 DEF Dropped, DataWrites
  <2>2. QED
    BY <1>1, <1>2, <2>1 DEF OrderInv
<1>6. QED
  BY <1>3, <1>4, <1>5

\* A step that moves no output and goes from one place where the buffer is all
\* there is in hand to another, or leaves the loop, keeps the order.
Buffering == {"loop", "poll", "pipe", "inter", "check", "rdm", "rds", "wpty",
              "flush"}

LEMMA StillKeepsOrder ==
  ASSUME TypeOK, OrderInv,
         sent' = sent, taken' = taken,
         buf' = buf \/ pc' \notin Setup \cup Copying,
         setting'.fwd = 0 <=> setting.fwd = 0,
         \/ pc' = pc /\ pc \in Setup
         \/ pc \in Setup /\ pc' \in Setup
         \/ pc' \notin Setup \cup Copying
         \/ /\ pc \in Buffering /\ pc' \in Buffering
            /\ done # 0 => done' # 0
            /\ pc \in {"rds", "wpty", "flush"} =>
                 pc' \in {"rds", "wpty", "flush", "loop"}
            /\ pc = "loop" => pc' = "loop" \/ done = 0
         \/ pc' = pc /\ out' = out /\ (done # 0 => done' # 0)
  PROVE  OrderInv'
<1>1. CASE pc \in Setup /\ pc' \in Setup
  BY <1>1 DEF OrderInv, Setup, Copying
<1>2. CASE pc' \notin Setup \cup Copying
  BY <1>2 DEF OrderInv, Setup, Copying
<1>3. CASE /\ pc \in Buffering /\ pc' \in Buffering
           /\ done # 0 => done' # 0
           /\ pc \in {"rds", "wpty", "flush"} =>
                pc' \in {"rds", "wpty", "flush", "loop"}
           /\ pc = "loop" => pc' = "loop" \/ done = 0
  <2>1. InHand = buf /\ InHand' = buf
    BY <1>3 DEF InHand, Buffering, Setup, Copying
  <2>2. Whole => Whole'
    BY <2>1 DEF Whole
  <2>3. Dropped => Dropped'
    BY <1>3 DEF Dropped, Buffering, DataWrites, Setup, Copying
  <2>4. QED
    BY <1>3, <2>2, <2>3 DEF OrderInv, Buffering, Setup, Copying
<1>4. CASE pc' = pc /\ out' = out /\ (done # 0 => done' # 0)
  <2>1. CASE pc \in Setup \cup Copying
    <3>1. buf' = buf
      BY <1>4, <2>1
    <3>2. InHand' = InHand
      BY <1>4, <3>1 DEF InHand
    <3>3. (Whole => Whole') /\ (Dropped => Dropped')
      BY <1>4, <3>1, <3>2 DEF Whole, Dropped
    <3>4. QED
      BY <1>4, <3>1, <3>3 DEF OrderInv
  <2>2. CASE pc \notin Setup \cup Copying
    BY <1>2, <1>4, <2>2
  <2>3. QED
    BY <2>1, <2>2
<1>5. QED
  BY <1>1, <1>2, <1>3, <1>4

\* Every step keeps the order.
LEMMA OrderNext ==
  ASSUME OneMode, TypeOK, OrderInv, [Next]_vars
  PROVE  OrderInv'
<1> USE DEF Setup, Copying, Buffering, ctl, cfg, fill, wsk, pty, x25
<1>1. CASE Copy
  <2>1. CASE EnterCopy
    BY <2>1, EnterKeepsOrder
  <2>2. CASE Again
    BY <2>2, StillKeepsOrder DEF Again
  <2>3. CASE Leave
    BY <2>3, StillKeepsOrder DEF Leave
  <2>4. CASE PollReturns
    BY <2>4, StillKeepsOrder DEF PollReturns
  <2>5. CASE PollInterrupted
    BY <2>5, StillKeepsOrder DEF PollInterrupted
  <2>6. CASE PollFails
    BY <2>6, StillKeepsOrder DEF PollFails
  <2>7. CASE ReadPipe
    BY <2>7, StillKeepsOrder DEF ReadPipe
  <2>8. CASE Inter
    BY <2>8, StillKeepsOrder, ReloadMode DEF Inter, DoInter, Reason
  <2>9. CASE Check
    BY <2>9, StillKeepsOrder DEF Check, AfterMaster, Found
  <2>10. CASE ReadDirect
    BY <2>10, DirectKeepsOrder
  <2>11. CASE ReadHeld
    BY <2>11, HeldKeepsOrder
  <2>12. CASE ReadEof
    BY <2>12, StillKeepsOrder DEF ReadEof, AfterMaster
  <2>13. CASE ReadFails
    BY <2>13, StillKeepsOrder DEF ReadFails, AfterMaster
  <2>14. CASE DirectWritten
    BY <2>14, WrittenKeepsOrder
  <2>15. CASE ReadData
    BY <2>15, StillKeepsOrder DEF ReadData
  <2>16. CASE ReadX29
    BY <2>16, StillKeepsOrder DEF ReadX29
  <2>17. CASE ReadEmpty
    BY <2>17, StillKeepsOrder, ReloadMode DEF ReadEmpty, DoInter, Reason
  <2>18. CASE ReadEnded
    BY <2>18, StillKeepsOrder DEF ReadEnded
  <2>19. CASE PtyTakes
    BY <2>19, StillKeepsOrder DEF PtyTakes
  <2>20. CASE PtyShort
    BY <2>20, StillKeepsOrder DEF PtyShort
  <2>21. CASE PtyInterrupted
    BY <2>21, StillKeepsOrder, ReloadMode DEF PtyInterrupted, DoInter, Reason
  <2>22. CASE PtyError
    BY <2>22, StillKeepsOrder DEF PtyError
  <2>23. CASE DataWritten
    BY <2>23, StillKeepsOrder DEF DataWritten
  <2>24. CASE FlushNothing
    BY <2>24, StillKeepsOrder DEF FlushNothing
  <2>25. CASE Flush
    BY <2>25, FlushKeepsOrder
  <2>26. CASE Flushed
    BY <2>26, FlushedKeepsOrder
  <2>27. QED
    BY <1>1, <2>1, <2>2, <2>3, <2>4, <2>5, <2>6, <2>7, <2>8, <2>9, <2>10,
       <2>11, <2>12, <2>13, <2>14, <2>15, <2>16, <2>17, <2>18, <2>19, <2>20,
       <2>21, <2>22, <2>23, <2>24, <2>25, <2>26
       DEF Copy, ReadMaster, ReadSocket, WritePty
<1>2. CASE WriteSock
  <2>1. CASE WriteSome
    BY <2>1, SomeKeepsOrder
  <2>2. CASE DataInterrupted
    BY <2>2, InterruptedKeepsOrder
  <2>3. CASE X29Interrupted
    BY <2>3, StillKeepsOrder, ReloadMode
       DEF X29Interrupted, X29Writes, X29Inter, Exit, Withdraw, Stops
  <2>4. CASE WriteError
    BY <2>4, ErrorKeepsOrder
  <2>5. CASE WritePipe
    BY <2>5, StillKeepsOrder DEF WritePipe
  <2>6. QED
    BY <1>2, <2>1, <2>2, <2>3, <2>4, <2>5 DEF WriteSock
<1>3. CASE Close
  <2>1. CASE SetProfile
    BY <2>1, StillKeepsOrder DEF SetProfile
  <2>2. CASE ForkLogin
    BY <2>2, StillKeepsOrder DEF ForkLogin
  <2>3. CASE CloseMaster
    BY <2>3, StillKeepsOrder DEF CloseMaster
  <2>4. CASE InvitationSent
    BY <2>4, StillKeepsOrder DEF InvitationSent
  <2>5. CASE WaitInterrupted
    BY <2>5, StillKeepsOrder DEF WaitInterrupted
  <2>6. CASE WaitFails
    BY <2>6, StillKeepsOrder DEF WaitFails
  <2>7. CASE NetPoll
    BY <2>7, StillKeepsOrder DEF NetPoll
  <2>8. CASE WaitPipe
    BY <2>8, StillKeepsOrder DEF WaitPipe
  <2>9. CASE WaitFlags
    BY <2>9, StillKeepsOrder DEF WaitFlags
  <2>10. CASE NetHangup
    BY <2>10, StillKeepsOrder DEF NetHangup
  <2>11. CASE NetNothing
    BY <2>11, StillKeepsOrder DEF NetNothing, NetNext
  <2>12. CASE NetDrop
    BY <2>12, StillKeepsOrder DEF NetDrop, NetNext
  <2>13. CASE NetRefuse
    BY <2>13, StillKeepsOrder DEF NetRefuse, NetNext
  <2>14. CASE NetDone
    BY <2>14, StillKeepsOrder DEF NetDone
  <2>15. CASE CloseSock
    BY <2>15, StillKeepsOrder DEF CloseSock, Exit
  <2>16. CASE StatusPoll
    BY <2>16, StillKeepsOrder DEF StatusPoll
  <2>17. CASE StatusDone
    BY <2>17, StillKeepsOrder DEF StatusDone, Exit
  <2>18. CASE ReloadFails
    BY <2>18, StillKeepsOrder DEF ReloadFails
  <2>19. CASE AllocFails
    BY <2>19, StillKeepsOrder DEF AllocFails, Exit, Withdraw
  <2>20. QED
    BY <1>3, <2>1, <2>2, <2>3, <2>4, <2>5, <2>6, <2>7, <2>8, <2>9, <2>10,
       <2>11, <2>12, <2>13, <2>14, <2>15, <2>16, <2>17, <2>18, <2>19
       DEF Close
<1>4. CASE Env
  <2>1. CASE \E s \in External \ {"USR1"} : Interrupt(s)
    BY <2>1, StillKeepsOrder DEF Interrupt
  <2>2. CASE StraySignal
    BY <2>2, StillKeepsOrder DEF StraySignal
  <2>3. CASE WatchExpires
    BY <2>3, StillKeepsOrder DEF WatchExpires
  <2>4. CASE ReadTimerExpires
    BY <2>4, StillKeepsOrder DEF ReadTimerExpires
  <2>5. CASE LoginExits
    BY <2>5, StillKeepsOrder DEF LoginExits
  <2>6. CASE SlaveCloses
    BY <2>6, StillKeepsOrder DEF SlaveCloses
  <2>7. CASE LoginWrites
    BY <2>7, StillKeepsOrder DEF LoginWrites
  <2>8. CASE LoginReads
    BY <2>8, StillKeepsOrder DEF LoginReads
  <2>9. CASE \E kind \in Kinds : TerminalSends(kind)
    BY <2>9, StillKeepsOrder DEF TerminalSends
  <2>10. CASE \E how \in {"cleared", "failed"} : CallEnds(how)
    BY <2>10, StillKeepsOrder DEF CallEnds
  <2>11. QED
    BY <1>4, <2>1, <2>2, <2>3, <2>4, <2>5, <2>6, <2>7, <2>8, <2>9, <2>10
       DEF Env
<1>5. CASE UNCHANGED vars
  BY <1>5, StillKeepsOrder DEF vars
<1>6. QED
  BY <1>1, <1>2, <1>3, <1>4, <1>5 DEF Next, Terminated

\* The first states are in order.
LEMMA OrderInit == ASSUME Init PROVE OrderInv
<1>1. /\ pc = "x29set" /\ sent = <<>> /\ buf = <<>> /\ taken = 0
  BY DEF Init
<1>2. Len(sent) = 0
  BY <1>1
<1>3. sent = Ids(Len(sent))
  BY <1>1, <1>2, IdsEmpty
<1>4. QED
  BY <1>1, <1>3 DEF OrderInv, Copying

\* The terminal gets the output in order and, while do_copy has no reason to
\* leave, whole, whatever fails and interrupts.
THEOREM OutputSentInOrder ==
  ASSUME OneMode
  PROVE  Spec => []OutputInOrder
<1>1. Init => OrderInv
  BY OrderInit
<1>2. TypeOK /\ OrderInv /\ [Next]_vars => OrderInv'
  BY OrderNext
<1>3. OrderInv => OutputInOrder
  BY DEF OrderInv, OutputInOrder, Whole, Dropped
<1>4. QED
  BY <1>1, <1>2, <1>3, TypeCorrect, PTL DEF Spec

-----------------------------------------------------------------------------
\* A session implements TerminalStream.

StreamStep == [Stream!StreamNext]_(Stream!svars)

Open == Setup \cup Copying

\* A step that neither produces nor sends, and does not open what is closed,
\* is a stutter of the stream or its end.
LEMMA QuietStep ==
  ASSUME UNCHANGED <<produced, sent>>, pc' \in Open => pc \in Open
  PROVE  StreamStep
<1>1. CASE pc \in Open <=> pc' \in Open
  <2>1. (pc \in Setup \cup Copying)' = (pc \in Setup \cup Copying)
    BY <1>1 DEF Open, Setup, Copying
  <2>2. QED
    BY <2>1 DEF StreamStep, Stream!svars
<1>2. CASE pc \in Open /\ pc' \notin Open
  <2>1. Stream!Shut
    BY <1>2 DEF Stream!Shut, Open, Setup, Copying
  <2>2. QED
    BY <2>1 DEF StreamStep, Stream!StreamNext
<1>3. QED
  BY <1>1, <1>2

\* The login process writes.
LEMMA ProduceStep ==
  ASSUME LoginWrites
  PROVE  StreamStep
<1>1. /\ produced' = produced + 1 /\ sent' = sent /\ pc' = pc
  BY DEF LoginWrites, ctl, x25
<1>2. Stream!Produce
  BY <1>1 DEF Stream!Produce, Setup, Copying
<1>3. QED
  BY <1>2 DEF StreamStep, Stream!StreamNext

\* What write() takes of the output is delivered.
LEMMA DeliverStep ==
  ASSUME TypeOK, OrderInv, OrderInv', TypeOK', WriteSome
  PROVE  StreamStep
<1>1. PICK k \in 1..Len(out) :
        sent' = IF pc \in DataWrites THEN sent \o SubSeq(out, 1, k) ELSE sent
  BY DEF WriteSome
<1>2. /\ pc' = pc /\ produced' = produced /\ taken' = taken
  BY DEF WriteSome, ctl, pty
<1>3. CASE pc \notin DataWrites
  BY <1>1, <1>2, <1>3, QuietStep
<1>4. CASE pc \in DataWrites
  <2>1. /\ out \in Seq(Nat) /\ sent \in Seq(Nat) /\ sent' \in Seq(Nat)
        /\ out' \in Seq(Nat) /\ taken \in Nat /\ produced \in Nat
        /\ taken <= produced
    BY DEF TypeOK, TypeWsk, TypeX25, TypePty
  <2>2. SubSeq(out, 1, k) \in Seq(Nat) /\ Len(SubSeq(out, 1, k)) = k
    BY <2>1, SubSeqType
  <2>3. Len(sent') = Len(sent) + k
    BY <1>1, <1>4, <2>1, <2>2, ConcatNat
  <2>4. sent' = Ids(Len(sent'))
    BY DEF OrderInv
  <2>5. Len(sent') <= taken
    <3>1. Whole \/ out = <<>>
      BY <1>4 DEF OrderInv, Dropped, Copying, DataWrites
    <3>2. out # <<>>
      BY DEF WriteSome
    <3>3. InHand = out
      BY <1>4, <2>1, ConcatEmptySeq DEF OrderInv, Copying, DataWrites, InHand
    <3>4. sent \o out = Ids(taken)
      BY <3>1, <3>2, <3>3 DEF Whole
    <3>5. Len(sent) + Len(out) = taken
      BY <2>1, <3>4, ConcatNat, IdsType
    <3>6. QED
      BY <2>1, <2>3, <3>5
  <2>6. Len(sent') \in (Len(sent) + 1)..produced
    BY <2>1, <2>3, <2>5
  <2>7. Stream!Deliver
    <3>1. pc \in Setup \cup Copying
      BY <1>4 DEF DataWrites, Copying
    <3>2. UNCHANGED <<produced, pc>>
      BY <1>2
    <3>3. sent' = [i \in 1..Len(sent') |-> i]
      BY <2>4 DEF Ids
    <3>4. QED
      BY <2>6, <3>1, <3>2, <3>3 DEF Stream!Deliver, Setup, Copying
  <2>8. QED
    BY <2>7 DEF StreamStep, Stream!StreamNext
<1>5. QED
  BY <1>3, <1>4

\* Every step of a session is one of the stream.
LEMMA StepOfStream ==
  ASSUME TypeOK, TypeOK', OrderInv, OrderInv', [Next]_vars
  PROVE  StreamStep
<1> USE DEF Open, Setup, Copying, Closing, Ended, ctl, pty, x25
<1>1. CASE Copy
  <2>1. CASE EnterCopy
    BY <2>1, QuietStep DEF EnterCopy
  <2>2. CASE Again
    BY <2>2, QuietStep DEF Again
  <2>3. CASE Leave
    BY <2>3, QuietStep DEF Leave
  <2>4. CASE PollReturns
    BY <2>4, QuietStep DEF PollReturns
  <2>5. CASE PollInterrupted
    BY <2>5, QuietStep DEF PollInterrupted
  <2>6. CASE PollFails
    BY <2>6, QuietStep DEF PollFails
  <2>7. CASE ReadPipe
    BY <2>7, QuietStep DEF ReadPipe
  <2>8. CASE Inter
    BY <2>8, QuietStep DEF Inter, DoInter
  <2>9. CASE Check
    BY <2>9, QuietStep DEF Check, AfterMaster
  <2>10. CASE ReadDirect
    BY <2>10, QuietStep DEF ReadDirect, AfterMaster
  <2>11. CASE ReadHeld
    BY <2>11, QuietStep DEF ReadHeld, AfterMaster
  <2>12. CASE ReadEof
    BY <2>12, QuietStep DEF ReadEof, AfterMaster
  <2>13. CASE ReadFails
    BY <2>13, QuietStep DEF ReadFails, AfterMaster
  <2>14. CASE DirectWritten
    BY <2>14, QuietStep DEF DirectWritten, AfterMaster
  <2>15. CASE ReadData
    BY <2>15, QuietStep DEF ReadData
  <2>16. CASE ReadX29
    BY <2>16, QuietStep DEF ReadX29
  <2>17. CASE ReadEmpty
    BY <2>17, QuietStep DEF ReadEmpty, DoInter
  <2>18. CASE ReadEnded
    BY <2>18, QuietStep DEF ReadEnded
  <2>19. CASE PtyTakes
    BY <2>19, QuietStep DEF PtyTakes
  <2>20. CASE PtyShort
    BY <2>20, QuietStep DEF PtyShort
  <2>21. CASE PtyInterrupted
    BY <2>21, QuietStep DEF PtyInterrupted, DoInter
  <2>22. CASE PtyError
    BY <2>22, QuietStep DEF PtyError
  <2>23. CASE DataWritten
    BY <2>23, QuietStep DEF DataWritten
  <2>24. CASE FlushNothing
    BY <2>24, QuietStep DEF FlushNothing
  <2>25. CASE Flush
    BY <2>25, QuietStep DEF Flush
  <2>26. CASE Flushed
    BY <2>26, QuietStep DEF Flushed
  <2>27. QED
    BY <1>1, <2>1, <2>2, <2>3, <2>4, <2>5, <2>6, <2>7, <2>8, <2>9, <2>10,
       <2>11, <2>12, <2>13, <2>14, <2>15, <2>16, <2>17, <2>18, <2>19, <2>20,
       <2>21, <2>22, <2>23, <2>24, <2>25, <2>26
       DEF Copy, ReadMaster, ReadSocket, WritePty
<1>2. CASE WriteSock
  <2>1. CASE WriteSome
    BY <2>1, DeliverStep
  <2>2. CASE DataInterrupted
    BY <2>2, QuietStep DEF DataInterrupted, DataWrites, DoInter
  <2>3. CASE X29Interrupted
    BY <2>3, QuietStep DEF X29Interrupted, X29Writes, X29Inter, Exit, Withdraw
  <2>4. CASE WriteError
    BY <2>4, QuietStep DEF WriteError
  <2>5. CASE WritePipe
    BY <2>5, QuietStep DEF WritePipe
  <2>6. QED
    BY <1>2, <2>1, <2>2, <2>3, <2>4, <2>5 DEF WriteSock
<1>3. CASE Close
  <2>1. CASE SetProfile
    BY <2>1, QuietStep DEF SetProfile
  <2>2. CASE ForkLogin
    BY <2>2, QuietStep DEF ForkLogin
  <2>3. CASE CloseMaster
    BY <2>3, QuietStep DEF CloseMaster
  <2>4. CASE InvitationSent
    BY <2>4, QuietStep DEF InvitationSent
  <2>5. CASE WaitInterrupted
    BY <2>5, QuietStep DEF WaitInterrupted
  <2>6. CASE WaitFails
    BY <2>6, QuietStep DEF WaitFails
  <2>7. CASE NetPoll
    BY <2>7, QuietStep DEF NetPoll
  <2>8. CASE WaitPipe
    BY <2>8, QuietStep DEF WaitPipe
  <2>9. CASE WaitFlags
    BY <2>9, QuietStep DEF WaitFlags
  <2>10. CASE NetHangup
    BY <2>10, QuietStep DEF NetHangup
  <2>11. CASE NetNothing
    BY <2>11, QuietStep DEF NetNothing, NetNext
  <2>12. CASE NetDrop
    BY <2>12, QuietStep DEF NetDrop, NetNext
  <2>13. CASE NetRefuse
    BY <2>13, QuietStep DEF NetRefuse, NetNext
  <2>14. CASE NetDone
    BY <2>14, QuietStep DEF NetDone
  <2>15. CASE CloseSock
    BY <2>15, QuietStep DEF CloseSock, Exit
  <2>16. CASE StatusPoll
    BY <2>16, QuietStep DEF StatusPoll
  <2>17. CASE StatusDone
    BY <2>17, QuietStep DEF StatusDone, Exit
  <2>18. CASE ReloadFails
    BY <2>18, QuietStep DEF ReloadFails
  <2>19. CASE AllocFails
    BY <2>19, QuietStep DEF AllocFails, Exit, Withdraw
  <2>20. QED
    BY <1>3, <2>1, <2>2, <2>3, <2>4, <2>5, <2>6, <2>7, <2>8, <2>9, <2>10,
       <2>11, <2>12, <2>13, <2>14, <2>15, <2>16, <2>17, <2>18, <2>19
       DEF Close
<1>4. CASE Env
  <2>1. CASE \E s \in External \ {"USR1"} : Interrupt(s)
    BY <2>1, QuietStep DEF Interrupt
  <2>2. CASE StraySignal
    BY <2>2, QuietStep DEF StraySignal
  <2>3. CASE WatchExpires
    BY <2>3, QuietStep DEF WatchExpires
  <2>4. CASE ReadTimerExpires
    BY <2>4, QuietStep DEF ReadTimerExpires
  <2>5. CASE LoginExits
    BY <2>5, QuietStep DEF LoginExits
  <2>6. CASE SlaveCloses
    BY <2>6, QuietStep DEF SlaveCloses
  <2>7. CASE LoginWrites
    BY <2>7, ProduceStep
  <2>8. CASE LoginReads
    BY <2>8, QuietStep DEF LoginReads
  <2>9. CASE \E kind \in Kinds : TerminalSends(kind)
    BY <2>9, QuietStep DEF TerminalSends
  <2>10. CASE \E how \in {"cleared", "failed"} : CallEnds(how)
    BY <2>10, QuietStep DEF CallEnds
  <2>11. QED
    BY <1>4, <2>1, <2>2, <2>3, <2>4, <2>5, <2>6, <2>7, <2>8, <2>9, <2>10
       DEF Env
<1>5. CASE UNCHANGED vars
  BY <1>5, QuietStep DEF vars
<1>6. QED
  BY <1>1, <1>2, <1>3, <1>4, <1>5 DEF Next, Terminated

\* The terminal gets a prefix of the output, in pieces, and nothing after the
\* session has closed: a session is a stream to its terminal.
THEOREM SessionIsStream ==
  ASSUME OneMode
  PROVE  Spec => StreamKept
<1>1. Init => Stream!StreamInit
  BY DEF Init, Stream!StreamInit, Setup
<1>2. Init => OrderInv
  BY OrderInit
<1>3. TypeOK /\ OrderInv /\ [Next]_vars => OrderInv'
  BY OrderNext
<1>4. TypeOK /\ TypeOK' /\ OrderInv /\ OrderInv' /\ [Next]_vars
        => [Stream!StreamNext]_(Stream!svars)
  BY StepOfStream DEF StreamStep
<1>5. QED
  BY <1>1, <1>2, <1>3, <1>4, TypeCorrect, PTL
     DEF Spec, StreamKept, Stream!StreamSpec
=============================================================================
