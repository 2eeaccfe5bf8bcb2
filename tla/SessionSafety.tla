--------------------------- MODULE SessionSafety ---------------------------
(***************************************************************************)
(* The safety invariants of a session, proved for every value of the       *)
(* constants.  Each rests on an inductive invariant of SessionProps, one   *)
(* that names what holds at each point of a pass, and on TypeCorrect.      *)
(***************************************************************************)
EXTENDS SessionProofs

\* Every step keeps what wakes the process.
LEMMA WakeNext ==
  ASSUME TypeOK, WakeInv, [Next]_vars
  PROVE  WakeInv'
<1> USE DEF WakeInv, Setup, Copying, Closing, Ended, Polls, ctl, sig, tim
<1>1. CASE Copy
  <2>1. CASE EnterCopy
    BY <2>1 DEF EnterCopy
  <2>2. CASE Again
    BY <2>2 DEF Again
  <2>3. CASE Leave
    BY <2>3 DEF Leave
  <2>4. CASE PollReturns
    BY <2>4 DEF PollReturns
  <2>5. CASE PollInterrupted
    BY <2>5 DEF PollInterrupted
  <2>6. CASE PollFails
    BY <2>6 DEF PollFails
  <2>7. CASE ReadPipe
    BY <2>7 DEF ReadPipe
  <2>8. CASE Inter
    BY <2>8 DEF Inter, DoInter
  <2>9. CASE Check
    BY <2>9 DEF Check, AfterMaster
  <2>10. CASE ReadDirect
    BY <2>10 DEF ReadDirect, AfterMaster
  <2>11. CASE ReadHeld
    BY <2>11 DEF ReadHeld, AfterMaster
  <2>12. CASE ReadEof
    BY <2>12 DEF ReadEof, AfterMaster
  <2>13. CASE ReadFails
    BY <2>13 DEF ReadFails, AfterMaster
  <2>14. CASE DirectWritten
    BY <2>14 DEF DirectWritten, AfterMaster
  <2>15. CASE ReadData
    BY <2>15 DEF ReadData
  <2>16. CASE ReadX29
    BY <2>16 DEF ReadX29
  <2>17. CASE ReadEmpty
    BY <2>17 DEF ReadEmpty, DoInter
  <2>18. CASE ReadEnded
    BY <2>18 DEF ReadEnded
  <2>19. CASE PtyTakes
    BY <2>19 DEF PtyTakes
  <2>20. CASE PtyShort
    BY <2>20 DEF PtyShort
  <2>21. CASE PtyInterrupted
    BY <2>21 DEF PtyInterrupted, DoInter
  <2>22. CASE PtyError
    BY <2>22 DEF PtyError
  <2>23. CASE DataWritten
    BY <2>23 DEF DataWritten
  <2>24. CASE FlushNothing
    BY <2>24 DEF FlushNothing
  <2>25. CASE Flush
    BY <2>25 DEF Flush
  <2>26. CASE Flushed
    BY <2>26 DEF Flushed
  <2>27. QED
    BY <1>1, <2>1, <2>2, <2>3, <2>4, <2>5, <2>6, <2>7, <2>8, <2>9, <2>10,
       <2>11, <2>12, <2>13, <2>14, <2>15, <2>16, <2>17, <2>18, <2>19, <2>20,
       <2>21, <2>22, <2>23, <2>24, <2>25, <2>26
       DEF Copy, ReadMaster, ReadSocket, WritePty
<1>2. CASE WriteSock
  <2>1. CASE WriteSome
    BY <2>1 DEF WriteSome
  <2>2. CASE DataInterrupted
    BY <2>2 DEF DataInterrupted, DataWrites, DoInter
  <2>3. CASE X29Interrupted
    BY <2>3 DEF X29Interrupted, X29Writes, X29Inter, Exit, Withdraw, Stops
  <2>4. CASE WriteError
    BY <2>4 DEF WriteError
  <2>5. CASE WritePipe
    BY <2>5 DEF WritePipe, SockWrites
  <2>6. QED
    BY <1>2, <2>1, <2>2, <2>3, <2>4, <2>5 DEF WriteSock
<1>3. CASE Close
  <2>1. CASE SetProfile
    BY <2>1 DEF SetProfile
  <2>2. CASE ForkLogin
    BY <2>2 DEF ForkLogin
  <2>3. CASE CloseMaster
    BY <2>3 DEF CloseMaster
  <2>4. CASE InvitationSent
    BY <2>4 DEF InvitationSent
  <2>5. CASE WaitInterrupted
    BY <2>5 DEF WaitInterrupted
  <2>6. CASE WaitFails
    BY <2>6 DEF WaitFails
  <2>7. CASE NetPoll
    BY <2>7 DEF NetPoll
  <2>8. CASE WaitPipe
    BY <2>8 DEF WaitPipe
  <2>9. CASE WaitFlags
    BY <2>9 DEF WaitFlags, Stops
  <2>10. CASE NetHangup
    BY <2>10 DEF NetHangup
  <2>11. CASE NetNothing
    BY <2>11 DEF NetNothing, NetNext
  <2>12. CASE NetDrop
    BY <2>12 DEF NetDrop, NetNext
  <2>13. CASE NetRefuse
    BY <2>13 DEF NetRefuse, NetNext
  <2>14. CASE NetDone
    BY <2>14 DEF NetDone
  <2>15. CASE CloseSock
    BY <2>15 DEF CloseSock, Exit
  <2>16. CASE StatusPoll
    BY <2>16 DEF StatusPoll
  <2>17. CASE StatusDone
    BY <2>17 DEF StatusDone, Exit
  <2>18. CASE ReloadFails
    BY <2>18 DEF ReloadFails
  <2>19. CASE AllocFails
    BY <2>19 DEF AllocFails, Exit, Withdraw
  <2>20. QED
    BY <1>3, <2>1, <2>2, <2>3, <2>4, <2>5, <2>6, <2>7, <2>8, <2>9, <2>10,
       <2>11, <2>12, <2>13, <2>14, <2>15, <2>16, <2>17, <2>18, <2>19
       DEF Close
<1>4. CASE Env
  <2>1. CASE \E s \in External \ {"USR1"} : Interrupt(s)
    <3>1. PICK s \in {"HUP", "EXIT"} : Interrupt(s)
      BY <2>1, SessionAssumption
    <3>2. QED
      BY <3>1 DEF Interrupt, Handler
  <2>2. CASE StraySignal
    BY <2>2 DEF StraySignal
  <2>3. CASE WatchExpires
    BY <2>3 DEF WatchExpires, Handler
  <2>4. CASE ReadTimerExpires
    BY <2>4 DEF ReadTimerExpires, Handler
  <2>5. CASE LoginExits
    BY <2>5 DEF LoginExits, Handler
  <2>6. CASE SlaveCloses
    BY <2>6 DEF SlaveCloses
  <2>7. CASE LoginWrites
    BY <2>7 DEF LoginWrites
  <2>8. CASE LoginReads
    BY <2>8 DEF LoginReads
  <2>9. CASE \E kind \in Kinds : TerminalSends(kind)
    BY <2>9 DEF TerminalSends
  <2>10. CASE \E how \in {"cleared", "failed"} : CallEnds(how)
    BY <2>10 DEF CallEnds
  <2>11. QED
    BY <1>4, <2>1, <2>2, <2>3, <2>4, <2>5, <2>6, <2>7, <2>8, <2>9, <2>10
       DEF Env
<1>5. CASE UNCHANGED vars
  BY <1>5 DEF vars
<1>6. QED
  BY <1>1, <1>2, <1>3, <1>4, <1>5 DEF Next, Terminated

\* No poll of a session is for ever, and none sleeps on an expired timer.
THEOREM NeverStuckInPoll == Spec => [](PollWakes /\ ExpiryNoticed)
<1>1. Init => WakeInv
  BY SessionAssumption DEF Init, WakeInv, Setup, Polls
<1>2. TypeOK /\ WakeInv /\ [Next]_vars => WakeInv'
  BY WakeNext
<1>3. WakeInv => PollWakes /\ ExpiryNoticed
  BY DEF WakeInv, PollWakes, ExpiryNoticed, Polls, Closing, Ended
<1>4. QED
  BY <1>1, <1>2, <1>3, TypeCorrect, PTL DEF Spec

\* In particular a timer, the pipe or an interruption ends every poll.
THEOREM PollsWake == Spec => []PollWakes
<1>1. QED
  BY NeverStuckInPoll, PTL

\* A reload of settings of one size keeps the size.
LEMMA ReloadSize ==
  ASSUME \A s, t \in Settings : s.size = t.size, TypeOK, Reload
  PROVE  setting'.size = setting.size
BY DEF Reload, TypeOK, TypeCfg

\* A reload of settings that hold output back keeps holding it back.
LEMMA ReloadHolds ==
  ASSUME \A s \in Settings : s.fwd # 0, TypeOK
  PROVE  setting.fwd # 0 /\ (Reload => setting'.fwd # 0)
BY DEF Reload, TypeOK, TypeCfg

\* A threshold that shrinks stays positive: the last read is part of totali.
LEMMA ShrunkPositive ==
  ASSUME TypeOK, LimitInv, buf # <<>>
  PROVE  Shrunk > 0
<1>1. totali \in Nat /\ lastread \in Nat
  BY DEF TypeOK, TypeBuf, TypeLimits, totali
<1>2. lastread > 0 /\ lastread <= totali
  BY DEF LimitInv
<1>3. QED
  BY <1>1, <1>2 DEF Shrunk

\* What a read from the pty does to the bytes held back.
LEMMA ReadHeldEffect ==
  ASSUME TypeOK, ReadHeld
  PROVE  \E k \in Nat \ {0} :
           /\ k <= freesize /\ freesize' = freesize - k
           /\ totali' = totali + k /\ totali \in Nat /\ freesize \in Nat
           /\ lastread' = k /\ buf' # <<>>
           /\ minlimit' = IF lastIsWrite THEN lastwrite + (totali + k) \div 2
                          ELSE minlimit
<1>1. PICK k \in 1..Least(Room, produced - taken) :
        /\ buf' = buf \o Pending(k)
        /\ freesize' = freesize - k
        /\ lastread' = k
        /\ minlimit' = IF lastIsWrite THEN lastwrite + (totali + k) \div 2
                       ELSE minlimit
  BY DEF ReadHeld
<1>2. k \in Nat \ {0} /\ k <= Room
  BY ReadRange
<1>3. Room = freesize
  BY DEF ReadHeld, Room
<1>4. Pending(k) \in Seq(Nat) /\ Len(Pending(k)) = k
  BY <1>2, PendingType DEF TypeOK
<1>5. buf \in Seq(Nat) /\ freesize \in Nat
  BY DEF TypeOK, TypeBuf
<1>6. buf' = buf \o Pending(k)
  BY <1>1
<1>7. Len(buf \o Pending(k)) = Len(buf) + k /\ Len(buf) \in Nat
  BY <1>4, <1>5
<1>8. totali' = totali + k /\ totali \in Nat
  BY <1>6, <1>7 DEF totali
<1>9. buf' # <<>>
  <2>1. Len(buf') # 0
    BY <1>2, <1>6, <1>7
  <2>2. QED
    BY <2>1
<1>10. QED
  BY <1>1, <1>2, <1>3, <1>5, <1>8, <1>9

\* A read that overlays held bytes leaves as many.
LEMMA ReadDirectEffect ==
  ASSUME TypeOK, ReadDirect
  PROVE  totali' = totali /\ (buf' = <<>> <=> buf = <<>>)
<1>1. PICK k \in 1..Least(Room, produced - taken) :
        buf' = [i \in 1..totali |-> IF i <= k THEN taken + i ELSE buf[i]]
  BY DEF ReadDirect
<1>2. k \in Nat
  BY ReadRange
<1>3. Len(buf') = totali /\ buf' \in Seq(Nat)
  BY <1>1, <1>2, OverlayType DEF TypeOK
<1>4. QED
  BY <1>3 DEF totali, TypeOK, TypeBuf

\* Every step keeps what Exit looks at in accord with the withdrawals, and the
\* steps that exit have withdrawn the entry, but for a lost log file.
LEMMA ListNext ==
  ASSUME TypeOK, ListInv, [Next]_vars
  PROVE  /\ ListInv'
         /\ pc # "gone" /\ pc' = "gone" => withdrawn' = 1 \/ LogLost
<1> USE DEF ListInv, Setup, Copying, Closing, Ended, ctl, entry
<1>1. CASE Copy
  <2>1. CASE EnterCopy
    BY <2>1 DEF EnterCopy
  <2>2. CASE Again
    BY <2>2 DEF Again
  <2>3. CASE Leave
    BY <2>3 DEF Leave
  <2>4. CASE PollReturns
    BY <2>4 DEF PollReturns
  <2>5. CASE PollInterrupted
    BY <2>5 DEF PollInterrupted
  <2>6. CASE PollFails
    BY <2>6 DEF PollFails
  <2>7. CASE ReadPipe
    BY <2>7 DEF ReadPipe
  <2>8. CASE Inter
    BY <2>8 DEF Inter, DoInter
  <2>9. CASE Check
    BY <2>9 DEF Check, AfterMaster
  <2>10. CASE ReadDirect
    BY <2>10 DEF ReadDirect, AfterMaster
  <2>11. CASE ReadHeld
    BY <2>11 DEF ReadHeld, AfterMaster
  <2>12. CASE ReadEof
    BY <2>12 DEF ReadEof, AfterMaster
  <2>13. CASE ReadFails
    BY <2>13 DEF ReadFails, AfterMaster
  <2>14. CASE DirectWritten
    BY <2>14 DEF DirectWritten, AfterMaster
  <2>15. CASE ReadData
    BY <2>15 DEF ReadData
  <2>16. CASE ReadX29
    BY <2>16 DEF ReadX29
  <2>17. CASE ReadEmpty
    BY <2>17 DEF ReadEmpty, DoInter
  <2>18. CASE ReadEnded
    BY <2>18 DEF ReadEnded
  <2>19. CASE PtyTakes
    BY <2>19 DEF PtyTakes
  <2>20. CASE PtyShort
    BY <2>20 DEF PtyShort
  <2>21. CASE PtyInterrupted
    BY <2>21 DEF PtyInterrupted, DoInter
  <2>22. CASE PtyError
    BY <2>22 DEF PtyError
  <2>23. CASE DataWritten
    BY <2>23 DEF DataWritten
  <2>24. CASE FlushNothing
    BY <2>24 DEF FlushNothing
  <2>25. CASE Flush
    BY <2>25 DEF Flush
  <2>26. CASE Flushed
    BY <2>26 DEF Flushed
  <2>27. QED
    BY <1>1, <2>1, <2>2, <2>3, <2>4, <2>5, <2>6, <2>7, <2>8, <2>9, <2>10,
       <2>11, <2>12, <2>13, <2>14, <2>15, <2>16, <2>17, <2>18, <2>19, <2>20,
       <2>21, <2>22, <2>23, <2>24, <2>25, <2>26
       DEF Copy, ReadMaster, ReadSocket, WritePty
<1>2. CASE WriteSock
  <2>1. CASE WriteSome
    BY <2>1 DEF WriteSome
  <2>2. CASE DataInterrupted
    BY <2>2 DEF DataInterrupted, DataWrites, DoInter
  <2>3. CASE X29Interrupted
    BY <2>3 DEF X29Interrupted, X29Writes, X29Inter, Exit, Withdraw, Stops
  <2>4. CASE WriteError
    BY <2>4 DEF WriteError
  <2>5. CASE WritePipe
    BY <2>5 DEF WritePipe, SockWrites
  <2>6. QED
    BY <1>2, <2>1, <2>2, <2>3, <2>4, <2>5 DEF WriteSock
<1>3. CASE Close
  <2>1. CASE SetProfile
    BY <2>1 DEF SetProfile
  <2>2. CASE ForkLogin
    BY <2>2 DEF ForkLogin
  <2>3. CASE CloseMaster
    BY <2>3 DEF CloseMaster, TakeOut, Withdraw
  <2>4. CASE InvitationSent
    BY <2>4 DEF InvitationSent
  <2>5. CASE WaitInterrupted
    BY <2>5 DEF WaitInterrupted
  <2>6. CASE WaitFails
    BY <2>6 DEF WaitFails
  <2>7. CASE NetPoll
    BY <2>7 DEF NetPoll
  <2>8. CASE WaitPipe
    BY <2>8 DEF WaitPipe
  <2>9. CASE WaitFlags
    BY <2>9 DEF WaitFlags
  <2>10. CASE NetHangup
    BY <2>10 DEF NetHangup
  <2>11. CASE NetNothing
    BY <2>11 DEF NetNothing, NetNext
  <2>12. CASE NetDrop
    BY <2>12 DEF NetDrop, NetNext
  <2>13. CASE NetRefuse
    BY <2>13 DEF NetRefuse, NetNext
  <2>14. CASE NetDone
    BY <2>14 DEF NetDone
  <2>15. CASE CloseSock
    BY <2>15 DEF CloseSock, Exit, Withdraw
  <2>16. CASE StatusPoll
    BY <2>16 DEF StatusPoll
  <2>17. CASE StatusDone
    BY <2>17 DEF StatusDone, Exit, Withdraw
  <2>18. CASE ReloadFails
    BY <2>18 DEF ReloadFails, LogLost, AtInter, SockWrites
  <2>19. CASE AllocFails
    BY <2>19 DEF AllocFails, Exit, Withdraw
  <2>20. QED
    BY <1>3, <2>1, <2>2, <2>3, <2>4, <2>5, <2>6, <2>7, <2>8, <2>9, <2>10,
       <2>11, <2>12, <2>13, <2>14, <2>15, <2>16, <2>17, <2>18, <2>19
       DEF Close
<1>4. CASE Env
  <2>1. CASE \E s \in External \ {"USR1"} : Interrupt(s)
    BY <2>1 DEF Interrupt, Handler
  <2>2. CASE StraySignal
    BY <2>2 DEF StraySignal
  <2>3. CASE WatchExpires
    BY <2>3 DEF WatchExpires, Handler
  <2>4. CASE ReadTimerExpires
    BY <2>4 DEF ReadTimerExpires, Handler
  <2>5. CASE LoginExits
    BY <2>5 DEF LoginExits, Handler
  <2>6. CASE SlaveCloses
    BY <2>6 DEF SlaveCloses
  <2>7. CASE LoginWrites
    BY <2>7 DEF LoginWrites
  <2>8. CASE LoginReads
    BY <2>8 DEF LoginReads
  <2>9. CASE \E kind \in Kinds : TerminalSends(kind)
    BY <2>9 DEF TerminalSends
  <2>10. CASE \E how \in {"cleared", "failed"} : CallEnds(how)
    BY <2>10 DEF CallEnds
  <2>11. QED
    BY <1>4, <2>1, <2>2, <2>3, <2>4, <2>5, <2>6, <2>7, <2>8, <2>9, <2>10
       DEF Env
<1>5. CASE UNCHANGED vars
  BY <1>5 DEF vars
<1>6. QED
  BY <1>1, <1>2, <1>3, <1>4, <1>5 DEF Next, Terminated

\* No session is withdrawn from the pts-addr table while do_copy serves it, and
\* each is withdrawn once after that, never again by the Exit that follows.
THEOREM WithdrawsOnce == Spec => []WithdrawnOnce
<1>1. Init => ListInv
  BY DEF Init, ListInv, Setup, Copying, Closing
<1>2. TypeOK /\ ListInv /\ [Next]_vars => ListInv'
  BY ListNext
<1>3. ListInv => WithdrawnOnce
  BY DEF ListInv, WithdrawnOnce
<1>4. QED
  BY <1>1, <1>2, <1>3, TypeCorrect, PTL DEF Spec

\* Each step with which a session exits leaves it withdrawn, but one: the exit
\* of loging.c for want of the log file, while the session is served.
THEOREM EntriesRemoved == Spec => EntryRemoved
<1>1. Init => ListInv
  BY DEF Init, ListInv, Setup, Copying, Closing
<1>2. TypeOK /\ ListInv /\ [Next]_vars => ListInv'
  BY ListNext
<1>3. TypeOK /\ ListInv /\ [Next]_vars
      => [pc # "gone" /\ pc' = "gone" => withdrawn' = 1 \/ LogLost]_vars
  BY ListNext
<1>4. QED
  BY <1>1, <1>2, <1>3, TypeCorrect, PTL DEF Spec, EntryRemoved

\* Every step keeps the threshold positive.
LEMMA LimitNext ==
  ASSUME TypeOK, LimitInv, [Next]_vars
  PROVE  LimitInv'
<1> USE DEF LimitInv, Setup, Copying, Closing, Ended, ctl, fill, limits, totali
<1>1. CASE Copy
  <2>1. CASE EnterCopy
    BY <2>1 DEF EnterCopy
  <2>2. CASE Again
    BY <2>2 DEF Again
  <2>3. CASE Leave
    BY <2>3 DEF Leave
  <2>4. CASE PollReturns
    BY <2>4 DEF PollReturns
  <2>5. CASE PollInterrupted
    BY <2>5 DEF PollInterrupted
  <2>6. CASE PollFails
    BY <2>6 DEF PollFails
  <2>7. CASE ReadPipe
    BY <2>7 DEF ReadPipe
  <2>8. CASE Inter
    BY <2>8 DEF Inter, DoInter
  <2>9. CASE Check
    BY <2>9 DEF Check, AfterMaster
  <2>10. CASE ReadDirect
    <3>1. totali' = totali /\ (buf' = <<>> <=> buf = <<>>)
      BY <2>10, ReadDirectEffect
    <3>2. UNCHANGED limits /\ pc' = "wdirect"
      BY <2>10 DEF ReadDirect
    <3>3. QED
      BY <3>1, <3>2
  <2>11. CASE ReadHeld
    <3>1. PICK k \in Nat \ {0} :
            /\ totali' = totali + k /\ totali \in Nat
            /\ lastread' = k /\ buf' # <<>>
            /\ minlimit' = IF lastIsWrite
                          THEN lastwrite + (totali + k) \div 2
                          ELSE minlimit
      BY <2>11, ReadHeldEffect
    <3>2. lastwrite' = lastwrite /\ lastwrite \in Nat
      BY <2>11 DEF ReadHeld, TypeOK, TypeLimits
    <3>3. pc' \notin Setup
      BY <2>11 DEF ReadHeld, AfterMaster
    <3>4. minlimit' > 0
      <4>1. CASE lastIsWrite
        BY <4>1, <3>1, <3>2
      <4>2. CASE ~lastIsWrite
        BY <4>2, <3>1
      <4>3. QED
        BY <4>1, <4>2
    <3>5. QED
      BY <3>1, <3>2, <3>3, <3>4
  <2>12. CASE ReadEof
    BY <2>12 DEF ReadEof, AfterMaster
  <2>13. CASE ReadFails
    BY <2>13 DEF ReadFails, AfterMaster
  <2>14. CASE DirectWritten
    BY <2>14 DEF DirectWritten, AfterMaster
  <2>15. CASE ReadData
    BY <2>15 DEF ReadData
  <2>16. CASE ReadX29
    BY <2>16 DEF ReadX29
  <2>17. CASE ReadEmpty
    BY <2>17 DEF ReadEmpty, DoInter
  <2>18. CASE ReadEnded
    BY <2>18 DEF ReadEnded
  <2>19. CASE PtyTakes
    BY <2>19 DEF PtyTakes
  <2>20. CASE PtyShort
    BY <2>20 DEF PtyShort
  <2>21. CASE PtyInterrupted
    BY <2>21 DEF PtyInterrupted, DoInter
  <2>22. CASE PtyError
    BY <2>22 DEF PtyError
  <2>23. CASE DataWritten
    BY <2>23 DEF DataWritten
  <2>24. CASE FlushNothing
    BY <2>24 DEF FlushNothing
  <2>25. CASE Flush
    <3>1. UNCHANGED <<buf, lastread, lastwrite>> /\ pc' = "wflush" /\ buf # <<>>
      BY <2>25 DEF Flush
    <3>2. minlimit' = Shrunk \/ minlimit' = minlimit
      BY <2>25 DEF Flush
    <3>3. Shrunk > 0
      BY <3>1, ShrunkPositive
    <3>4. minlimit' > 0
      BY <3>2, <3>3
    <3>5. QED
      BY <3>1, <3>4
  <2>26. CASE Flushed
    <3>1. totali \in Nat
      BY DEF TypeOK, TypeBuf
    <3>2. lastwrite' = totali + 1 /\ buf' = <<>> /\ minlimit' = minlimit
      BY <2>26 DEF Flushed
    <3>3. QED
      BY <3>1, <3>2
  <2>27. QED
    BY <1>1, <2>1, <2>2, <2>3, <2>4, <2>5, <2>6, <2>7, <2>8, <2>9, <2>10,
       <2>11, <2>12, <2>13, <2>14, <2>15, <2>16, <2>17, <2>18, <2>19, <2>20,
       <2>21, <2>22, <2>23, <2>24, <2>25, <2>26
       DEF Copy, ReadMaster, ReadSocket, WritePty
<1>2. CASE WriteSock
  <2>1. CASE WriteSome
    BY <2>1 DEF WriteSome
  <2>2. CASE DataInterrupted
    BY <2>2 DEF DataInterrupted, DataWrites, DoInter
  <2>3. CASE X29Interrupted
    BY <2>3 DEF X29Interrupted, X29Writes, X29Inter, Exit, Withdraw
  <2>4. CASE WriteError
    BY <2>4 DEF WriteError
  <2>5. CASE WritePipe
    BY <2>5 DEF WritePipe
  <2>6. QED
    BY <1>2, <2>1, <2>2, <2>3, <2>4, <2>5 DEF WriteSock
<1>3. CASE Close
  <2>1. CASE SetProfile
    BY <2>1 DEF SetProfile
  <2>2. CASE ForkLogin
    BY <2>2 DEF ForkLogin
  <2>3. CASE CloseMaster
    BY <2>3, SessionAssumption DEF CloseMaster
  <2>4. CASE InvitationSent
    BY <2>4 DEF InvitationSent
  <2>5. CASE WaitInterrupted
    BY <2>5 DEF WaitInterrupted
  <2>6. CASE WaitFails
    BY <2>6 DEF WaitFails
  <2>7. CASE NetPoll
    BY <2>7 DEF NetPoll
  <2>8. CASE WaitPipe
    BY <2>8 DEF WaitPipe
  <2>9. CASE WaitFlags
    BY <2>9 DEF WaitFlags
  <2>10. CASE NetHangup
    BY <2>10 DEF NetHangup
  <2>11. CASE NetNothing
    BY <2>11 DEF NetNothing, NetNext
  <2>12. CASE NetDrop
    BY <2>12 DEF NetDrop, NetNext
  <2>13. CASE NetRefuse
    BY <2>13 DEF NetRefuse, NetNext
  <2>14. CASE NetDone
    BY <2>14 DEF NetDone
  <2>15. CASE CloseSock
    BY <2>15 DEF CloseSock, Exit
  <2>16. CASE StatusPoll
    BY <2>16 DEF StatusPoll
  <2>17. CASE StatusDone
    BY <2>17 DEF StatusDone, Exit
  <2>18. CASE ReloadFails
    BY <2>18 DEF ReloadFails
  <2>19. CASE AllocFails
    BY <2>19 DEF AllocFails, Exit, Withdraw
  <2>20. QED
    BY <1>3, <2>1, <2>2, <2>3, <2>4, <2>5, <2>6, <2>7, <2>8, <2>9, <2>10,
       <2>11, <2>12, <2>13, <2>14, <2>15, <2>16, <2>17, <2>18, <2>19
       DEF Close
<1>4. CASE Env
  <2>1. CASE \E s \in External \ {"USR1"} : Interrupt(s)
    BY <2>1 DEF Interrupt, Handler
  <2>2. CASE StraySignal
    BY <2>2 DEF StraySignal
  <2>3. CASE WatchExpires
    BY <2>3 DEF WatchExpires, Handler
  <2>4. CASE ReadTimerExpires
    BY <2>4 DEF ReadTimerExpires, Handler
  <2>5. CASE LoginExits
    BY <2>5 DEF LoginExits, Handler
  <2>6. CASE SlaveCloses
    BY <2>6 DEF SlaveCloses
  <2>7. CASE LoginWrites
    BY <2>7 DEF LoginWrites
  <2>8. CASE LoginReads
    BY <2>8 DEF LoginReads
  <2>9. CASE \E kind \in Kinds : TerminalSends(kind)
    BY <2>9 DEF TerminalSends
  <2>10. CASE \E how \in {"cleared", "failed"} : CallEnds(how)
    BY <2>10 DEF CallEnds
  <2>11. QED
    BY <1>4, <2>1, <2>2, <2>3, <2>4, <2>5, <2>6, <2>7, <2>8, <2>9, <2>10
       DEF Env
<1>5. CASE UNCHANGED vars
  BY <1>5 DEF vars
<1>6. QED
  BY <1>1, <1>2, <1>3, <1>4, <1>5 DEF Next, Terminated

\* The flush threshold stays positive.
THEOREM ThresholdPositive == Spec => []MinlimitPositive
<1>1. Init => LimitInv
  BY SessionAssumption DEF Init, LimitInv, totali
<1>2. TypeOK /\ LimitInv /\ [Next]_vars => LimitInv'
  BY LimitNext
<1>3. TypeOK /\ LimitInv => MinlimitPositive
  BY DEF LimitInv, MinlimitPositive
<1>4. QED
  BY <1>1, <1>2, <1>3, TypeCorrect, PTL DEF Spec

\* Every step keeps the buffer the one allocated.
LEMMA BufferNext ==
  ASSUME \A s, t \in Settings : s.size = t.size, TypeOK, BufferInv, [Next]_vars
  PROVE  BufferInv'
<1> USE DEF BufferInv, Setup, Copying, Closing, Ended, ctl, cfg, fill, totali
<1>1. CASE Copy
  <2>1. CASE EnterCopy
    BY <2>1, SessionAssumption DEF EnterCopy, TypeOK, TypeCfg
  <2>2. CASE Again
    BY <2>2 DEF Again
  <2>3. CASE Leave
    BY <2>3 DEF Leave
  <2>4. CASE PollReturns
    BY <2>4 DEF PollReturns
  <2>5. CASE PollInterrupted
    BY <2>5 DEF PollInterrupted
  <2>6. CASE PollFails
    BY <2>6 DEF PollFails
  <2>7. CASE ReadPipe
    BY <2>7 DEF ReadPipe
  <2>8. CASE Inter
    BY <2>8, ReloadSize DEF Inter, DoInter
  <2>9. CASE Check
    BY <2>9 DEF Check, AfterMaster
  <2>10. CASE ReadDirect
    <3>1. totali' = totali /\ (buf' = <<>> <=> buf = <<>>)
      BY <2>10, ReadDirectEffect
    <3>2. UNCHANGED <<alloc, setting, freesize>> /\ pc = "rdm" /\ pc' = "wdirect"
      BY <2>10 DEF ReadDirect
    <3>3. QED
      BY <3>1, <3>2
  <2>11. CASE ReadHeld
    <3>1. PICK k \in Nat \ {0} :
            /\ k <= freesize /\ freesize' = freesize - k
            /\ totali' = totali + k /\ totali \in Nat /\ freesize \in Nat
      BY <2>11, ReadHeldEffect
    <3>2. UNCHANGED cfg /\ pc \in Copying /\ pc' \notin Setup
      BY <2>11 DEF ReadHeld, AfterMaster
    <3>3. QED
      BY <3>1, <3>2
  <2>12. CASE ReadEof
    BY <2>12 DEF ReadEof, AfterMaster
  <2>13. CASE ReadFails
    BY <2>13 DEF ReadFails, AfterMaster
  <2>14. CASE DirectWritten
    BY <2>14 DEF DirectWritten, AfterMaster
  <2>15. CASE ReadData
    BY <2>15 DEF ReadData
  <2>16. CASE ReadX29
    BY <2>16 DEF ReadX29
  <2>17. CASE ReadEmpty
    BY <2>17, ReloadSize DEF ReadEmpty, DoInter
  <2>18. CASE ReadEnded
    BY <2>18 DEF ReadEnded
  <2>19. CASE PtyTakes
    BY <2>19 DEF PtyTakes
  <2>20. CASE PtyShort
    BY <2>20 DEF PtyShort
  <2>21. CASE PtyInterrupted
    BY <2>21, ReloadSize DEF PtyInterrupted, DoInter
  <2>22. CASE PtyError
    BY <2>22 DEF PtyError
  <2>23. CASE DataWritten
    BY <2>23 DEF DataWritten
  <2>24. CASE FlushNothing
    BY <2>24 DEF FlushNothing
  <2>25. CASE Flush
    BY <2>25 DEF Flush
  <2>26. CASE Flushed
    BY <2>26, SessionAssumption DEF Flushed, FreeAgain, TypeOK, TypeCfg
  <2>27. QED
    BY <1>1, <2>1, <2>2, <2>3, <2>4, <2>5, <2>6, <2>7, <2>8, <2>9, <2>10,
       <2>11, <2>12, <2>13, <2>14, <2>15, <2>16, <2>17, <2>18, <2>19, <2>20,
       <2>21, <2>22, <2>23, <2>24, <2>25, <2>26
       DEF Copy, ReadMaster, ReadSocket, WritePty
<1>2. CASE WriteSock
  <2>1. CASE WriteSome
    BY <2>1 DEF WriteSome
  <2>2. CASE DataInterrupted
    BY <2>2, ReloadSize DEF DataInterrupted, DataWrites, DoInter
  <2>3. CASE X29Interrupted
    <3>1. setting'.size = setting.size
      BY <2>3, ReloadSize DEF X29Interrupted, X29Inter
    <3>2. UNCHANGED <<alloc, buf, freesize>> /\ pc' \in {pc, "gone"}
      BY <2>3 DEF X29Interrupted, X29Inter, Exit
    <3>3. QED
      BY <3>1, <3>2
  <2>4. CASE WriteError
    BY <2>4 DEF WriteError
  <2>5. CASE WritePipe
    BY <2>5 DEF WritePipe
  <2>6. QED
    BY <1>2, <2>1, <2>2, <2>3, <2>4, <2>5 DEF WriteSock
<1>3. CASE Close
  <2>1. CASE SetProfile
    BY <2>1 DEF SetProfile
  <2>2. CASE ForkLogin
    BY <2>2 DEF ForkLogin
  <2>3. CASE CloseMaster
    BY <2>3 DEF CloseMaster
  <2>4. CASE InvitationSent
    BY <2>4 DEF InvitationSent
  <2>5. CASE WaitInterrupted
    BY <2>5 DEF WaitInterrupted
  <2>6. CASE WaitFails
    BY <2>6 DEF WaitFails
  <2>7. CASE NetPoll
    BY <2>7 DEF NetPoll
  <2>8. CASE WaitPipe
    BY <2>8 DEF WaitPipe
  <2>9. CASE WaitFlags
    BY <2>9 DEF WaitFlags
  <2>10. CASE NetHangup
    BY <2>10 DEF NetHangup
  <2>11. CASE NetNothing
    BY <2>11 DEF NetNothing, NetNext
  <2>12. CASE NetDrop
    BY <2>12 DEF NetDrop, NetNext
  <2>13. CASE NetRefuse
    BY <2>13 DEF NetRefuse, NetNext
  <2>14. CASE NetDone
    BY <2>14 DEF NetDone
  <2>15. CASE CloseSock
    BY <2>15 DEF CloseSock, Exit
  <2>16. CASE StatusPoll
    BY <2>16 DEF StatusPoll
  <2>17. CASE StatusDone
    BY <2>17 DEF StatusDone, Exit
  <2>18. CASE ReloadFails
    BY <2>18 DEF ReloadFails
  <2>19. CASE AllocFails
    BY <2>19 DEF AllocFails, Exit, Withdraw
  <2>20. QED
    BY <1>3, <2>1, <2>2, <2>3, <2>4, <2>5, <2>6, <2>7, <2>8, <2>9, <2>10,
       <2>11, <2>12, <2>13, <2>14, <2>15, <2>16, <2>17, <2>18, <2>19
       DEF Close
<1>4. CASE Env
  <2>1. CASE \E s \in External \ {"USR1"} : Interrupt(s)
    BY <2>1 DEF Interrupt, Handler
  <2>2. CASE StraySignal
    BY <2>2 DEF StraySignal
  <2>3. CASE WatchExpires
    BY <2>3 DEF WatchExpires, Handler
  <2>4. CASE ReadTimerExpires
    BY <2>4 DEF ReadTimerExpires, Handler
  <2>5. CASE LoginExits
    BY <2>5 DEF LoginExits, Handler
  <2>6. CASE SlaveCloses
    BY <2>6 DEF SlaveCloses
  <2>7. CASE LoginWrites
    BY <2>7 DEF LoginWrites
  <2>8. CASE LoginReads
    BY <2>8 DEF LoginReads
  <2>9. CASE \E kind \in Kinds : TerminalSends(kind)
    BY <2>9 DEF TerminalSends
  <2>10. CASE \E how \in {"cleared", "failed"} : CallEnds(how)
    BY <2>10 DEF CallEnds
  <2>11. QED
    BY <1>4, <2>1, <2>2, <2>3, <2>4, <2>5, <2>6, <2>7, <2>8, <2>9, <2>10
       DEF Env
<1>5. CASE UNCHANGED vars
  BY <1>5 DEF vars
<1>6. QED
  BY <1>1, <1>2, <1>3, <1>4, <1>5 DEF Next, Terminated

\* While Buffer_size is not changed by a reload, reads stay inside the buffer.
THEOREM ReadsFit ==
  ASSUME \A s, t \in Settings : s.size = t.size
  PROVE  Spec => []ReadsFitBuffer
<1>1. Init => BufferInv
  BY SessionAssumption DEF Init, BufferInv, Setup, Copying
<1>2. TypeOK /\ BufferInv /\ [Next]_vars => BufferInv'
  BY BufferNext
<1>3. TypeOK /\ BufferInv => ReadsFitBuffer
  <2> SUFFICES ASSUME TypeOK, BufferInv, pc \in Copying PROVE ReadsFitBuffer
    BY DEF ReadsFitBuffer
  <2>1. setting.size \in Nat /\ totali \in Nat /\ freesize \in Nat
    BY SessionAssumption DEF TypeOK, TypeCfg, TypeBuf, totali
  <2>2. alloc = setting.size /\ totali + freesize = alloc
    BY DEF BufferInv
  <2>3. Room <= alloc
    BY <2>1, <2>2 DEF Room
  <2>4. QED
    BY <2>1, <2>2, <2>3 DEF ReadsFitBuffer
<1>4. QED
  BY <1>1, <1>2, <1>3, TypeCorrect, PTL DEF Spec

\* Every step keeps something that will send the held bytes on.
LEMMA HeldNext ==
  ASSUME \A s \in Settings : s.fwd # 0, TypeOK, HeldInv, [Next]_vars
  PROVE  HeldInv'
<1> USE DEF HeldInv, Setup, Copying, Closing, Ended, ctl, sig, tim, cfg, fill,
            totali
<1>1. CASE Copy
  <2>1. CASE EnterCopy
    BY <2>1 DEF EnterCopy
  <2>2. CASE Again
    BY <2>2 DEF Again
  <2>3. CASE Leave
    BY <2>3 DEF Leave
  <2>4. CASE PollReturns
    BY <2>4 DEF PollReturns
  <2>5. CASE PollInterrupted
    BY <2>5 DEF PollInterrupted
  <2>6. CASE PollFails
    BY <2>6 DEF PollFails
  <2>7. CASE ReadPipe
    BY <2>7 DEF ReadPipe
  <2>8. CASE Inter
    BY <2>8, ReloadHolds DEF Inter, DoInter
  <2>9. CASE Check
    BY <2>9 DEF Check, AfterMaster
  <2>10. CASE ReadDirect
    BY <2>10, ReloadHolds DEF ReadDirect, AfterMaster
  <2>11. CASE ReadHeld
    <3>1. PICK k \in 1..Least(Room, produced - taken) :
            /\ rtimer' = (totali + k < minlimit')
            /\ minEx' = (minEx \/ totali + k >= minlimit')
      BY <2>11 DEF ReadHeld
    <3>2. k \in Nat
      BY ReadRange
    <3>3. totali \in Nat /\ minlimit' \in Int
      BY <2>11, ThresholdType DEF TypeOK, TypeBuf
    <3>4. rtimer' \/ minEx'
      <4>1. CASE totali + k < minlimit'
        BY <4>1, <3>1
      <4>2. CASE totali + k >= minlimit'
        BY <4>2, <3>1
      <4>3. QED
        BY <4>1, <4>2, <3>2, <3>3
    <3>5. pc' \in {"rds", "flush"}
      BY <2>11 DEF ReadHeld, AfterMaster
    <3>6. QED
      BY <3>4, <3>5
  <2>12. CASE ReadEof
    BY <2>12 DEF ReadEof, AfterMaster
  <2>13. CASE ReadFails
    BY <2>13 DEF ReadFails, AfterMaster
  <2>14. CASE DirectWritten
    BY <2>14 DEF DirectWritten, AfterMaster
  <2>15. CASE ReadData
    BY <2>15 DEF ReadData
  <2>16. CASE ReadX29
    BY <2>16 DEF ReadX29
  <2>17. CASE ReadEmpty
    BY <2>17, ReloadHolds DEF ReadEmpty, DoInter
  <2>18. CASE ReadEnded
    BY <2>18 DEF ReadEnded
  <2>19. CASE PtyTakes
    BY <2>19 DEF PtyTakes
  <2>20. CASE PtyShort
    BY <2>20 DEF PtyShort
  <2>21. CASE PtyInterrupted
    BY <2>21, ReloadHolds DEF PtyInterrupted, DoInter
  <2>22. CASE PtyError
    BY <2>22 DEF PtyError
  <2>23. CASE DataWritten
    BY <2>23 DEF DataWritten
  <2>24. CASE FlushNothing
    BY <2>24, ReloadHolds DEF FlushNothing, Due, TypeOK, TypeCfg
  <2>25. CASE Flush
    BY <2>25 DEF Flush
  <2>26. CASE Flushed
    BY <2>26, ReloadHolds DEF Flushed
  <2>27. QED
    BY <1>1, <2>1, <2>2, <2>3, <2>4, <2>5, <2>6, <2>7, <2>8, <2>9, <2>10,
       <2>11, <2>12, <2>13, <2>14, <2>15, <2>16, <2>17, <2>18, <2>19, <2>20,
       <2>21, <2>22, <2>23, <2>24, <2>25, <2>26
       DEF Copy, ReadMaster, ReadSocket, WritePty
<1>2. CASE WriteSock
  <2>1. CASE WriteSome
    BY <2>1 DEF WriteSome
  <2>2. CASE DataInterrupted
    BY <2>2, ReloadHolds DEF DataInterrupted, DataWrites, DoInter
  <2>3. CASE X29Interrupted
    BY <2>3 DEF X29Interrupted, X29Writes, X29Inter, Exit, Withdraw
  <2>4. CASE WriteError
    BY <2>4 DEF WriteError
  <2>5. CASE WritePipe
    BY <2>5 DEF WritePipe
  <2>6. QED
    BY <1>2, <2>1, <2>2, <2>3, <2>4, <2>5 DEF WriteSock
<1>3. CASE Close
  <2>1. CASE SetProfile
    BY <2>1 DEF SetProfile
  <2>2. CASE ForkLogin
    BY <2>2 DEF ForkLogin
  <2>3. CASE CloseMaster
    BY <2>3 DEF CloseMaster
  <2>4. CASE InvitationSent
    BY <2>4 DEF InvitationSent
  <2>5. CASE WaitInterrupted
    BY <2>5 DEF WaitInterrupted
  <2>6. CASE WaitFails
    BY <2>6 DEF WaitFails
  <2>7. CASE NetPoll
    BY <2>7 DEF NetPoll
  <2>8. CASE WaitPipe
    BY <2>8 DEF WaitPipe
  <2>9. CASE WaitFlags
    BY <2>9 DEF WaitFlags
  <2>10. CASE NetHangup
    BY <2>10 DEF NetHangup
  <2>11. CASE NetNothing
    BY <2>11 DEF NetNothing, NetNext
  <2>12. CASE NetDrop
    BY <2>12 DEF NetDrop, NetNext
  <2>13. CASE NetRefuse
    BY <2>13 DEF NetRefuse, NetNext
  <2>14. CASE NetDone
    BY <2>14 DEF NetDone
  <2>15. CASE CloseSock
    BY <2>15 DEF CloseSock, Exit
  <2>16. CASE StatusPoll
    BY <2>16 DEF StatusPoll
  <2>17. CASE StatusDone
    BY <2>17 DEF StatusDone, Exit
  <2>18. CASE ReloadFails
    BY <2>18 DEF ReloadFails
  <2>19. CASE AllocFails
    BY <2>19 DEF AllocFails, Exit, Withdraw
  <2>20. QED
    BY <1>3, <2>1, <2>2, <2>3, <2>4, <2>5, <2>6, <2>7, <2>8, <2>9, <2>10,
       <2>11, <2>12, <2>13, <2>14, <2>15, <2>16, <2>17, <2>18, <2>19
       DEF Close
<1>4. CASE Env
  <2>1. CASE \E s \in External \ {"USR1"} : Interrupt(s)
    BY <2>1 DEF Interrupt, Handler
  <2>2. CASE StraySignal
    BY <2>2 DEF StraySignal
  <2>3. CASE WatchExpires
    BY <2>3 DEF WatchExpires, Handler
  <2>4. CASE ReadTimerExpires
    BY <2>4 DEF ReadTimerExpires, Handler
  <2>5. CASE LoginExits
    BY <2>5 DEF LoginExits, Handler
  <2>6. CASE SlaveCloses
    BY <2>6 DEF SlaveCloses
  <2>7. CASE LoginWrites
    BY <2>7 DEF LoginWrites
  <2>8. CASE LoginReads
    BY <2>8 DEF LoginReads
  <2>9. CASE \E kind \in Kinds : TerminalSends(kind)
    BY <2>9 DEF TerminalSends
  <2>10. CASE \E how \in {"cleared", "failed"} : CallEnds(how)
    BY <2>10 DEF CallEnds
  <2>11. QED
    BY <1>4, <2>1, <2>2, <2>3, <2>4, <2>5, <2>6, <2>7, <2>8, <2>9, <2>10
       DEF Env
<1>5. CASE UNCHANGED vars
  BY <1>5 DEF vars
<1>6. QED
  BY <1>1, <1>2, <1>3, <1>4, <1>5 DEF Next, Terminated

\* Where output is held back, no poll leaves held bytes behind.
THEOREM HeldBytesSent ==
  ASSUME \A s \in Settings : s.fwd # 0
  PROVE  Spec => []HeldBytesDue
<1>1. Init => HeldInv
  BY SessionAssumption DEF Init, HeldInv, Setup
<1>2. TypeOK /\ HeldInv /\ [Next]_vars => HeldInv'
  BY HeldNext
<1>3. TypeOK /\ HeldInv => HeldBytesDue
  BY DEF HeldInv, HeldBytesDue
<1>4. QED
  BY <1>1, <1>2, <1>3, TypeCorrect, PTL DEF Spec

\* Every step keeps what a pass that found the hang-up has flushed.
LEMMA HangupNext ==
  ASSUME \A s \in Settings : s.fwd # 0, TypeOK, HangupInv, [Next]_vars
  PROVE  HangupInv'
<1> USE DEF HangupInv, Setup, Copying, Closing, Ended, ctl, cfg, fill, totali
<1>1. CASE Copy
  <2>1. CASE EnterCopy
    BY <2>1 DEF EnterCopy
  <2>2. CASE Again
    BY <2>2 DEF Again
  <2>3. CASE Leave
    BY <2>3 DEF Leave
  <2>4. CASE PollReturns
    BY <2>4 DEF PollReturns
  <2>5. CASE PollInterrupted
    BY <2>5 DEF PollInterrupted
  <2>6. CASE PollFails
    BY <2>6 DEF PollFails
  <2>7. CASE ReadPipe
    BY <2>7 DEF ReadPipe
  <2>8. CASE Inter
    BY <2>8 DEF Inter, DoInter
  <2>9. CASE Check
    BY <2>9 DEF Check, AfterMaster, Found, CallLost
  <2>10. CASE ReadDirect
    BY <2>10 DEF ReadDirect, AfterMaster
  <2>11. CASE ReadHeld
    BY <2>11, ReloadHolds DEF ReadHeld, AfterMaster
  <2>12. CASE ReadEof
    BY <2>12 DEF ReadEof, AfterMaster
  <2>13. CASE ReadFails
    BY <2>13 DEF ReadFails, AfterMaster
  <2>14. CASE DirectWritten
    BY <2>14 DEF DirectWritten, AfterMaster
  <2>15. CASE ReadData
    BY <2>15 DEF ReadData
  <2>16. CASE ReadX29
    BY <2>16 DEF ReadX29
  <2>17. CASE ReadEmpty
    BY <2>17 DEF ReadEmpty, DoInter
  <2>18. CASE ReadEnded
    BY <2>18 DEF ReadEnded
  <2>19. CASE PtyTakes
    BY <2>19 DEF PtyTakes
  <2>20. CASE PtyShort
    BY <2>20 DEF PtyShort
  <2>21. CASE PtyInterrupted
    BY <2>21 DEF PtyInterrupted, DoInter
  <2>22. CASE PtyError
    BY <2>22 DEF PtyError
  <2>23. CASE DataWritten
    BY <2>23 DEF DataWritten
  <2>24. CASE FlushNothing
    BY <2>24, ReloadHolds DEF FlushNothing, Due
  <2>25. CASE Flush
    BY <2>25 DEF Flush
  <2>26. CASE Flushed
    BY <2>26 DEF Flushed, FreeAgain
  <2>27. QED
    BY <1>1, <2>1, <2>2, <2>3, <2>4, <2>5, <2>6, <2>7, <2>8, <2>9, <2>10,
       <2>11, <2>12, <2>13, <2>14, <2>15, <2>16, <2>17, <2>18, <2>19, <2>20,
       <2>21, <2>22, <2>23, <2>24, <2>25, <2>26
       DEF Copy, ReadMaster, ReadSocket, WritePty
<1>2. CASE WriteSock
  <2>1. CASE WriteSome
    BY <2>1 DEF WriteSome
  <2>2. CASE DataInterrupted
    BY <2>2 DEF DataInterrupted, DataWrites, DoInter
  <2>3. CASE X29Interrupted
    BY <2>3 DEF X29Interrupted, X29Writes, X29Inter, Exit, Withdraw
  <2>4. CASE WriteError
    BY <2>4 DEF WriteError
  <2>5. CASE WritePipe
    BY <2>5 DEF WritePipe
  <2>6. QED
    BY <1>2, <2>1, <2>2, <2>3, <2>4, <2>5 DEF WriteSock
<1>3. CASE Close
  <2>1. CASE SetProfile
    BY <2>1 DEF SetProfile
  <2>2. CASE ForkLogin
    BY <2>2 DEF ForkLogin
  <2>3. CASE CloseMaster
    BY <2>3 DEF CloseMaster
  <2>4. CASE InvitationSent
    BY <2>4 DEF InvitationSent
  <2>5. CASE WaitInterrupted
    BY <2>5 DEF WaitInterrupted
  <2>6. CASE WaitFails
    BY <2>6 DEF WaitFails
  <2>7. CASE NetPoll
    BY <2>7 DEF NetPoll
  <2>8. CASE WaitPipe
    BY <2>8 DEF WaitPipe
  <2>9. CASE WaitFlags
    BY <2>9 DEF WaitFlags
  <2>10. CASE NetHangup
    BY <2>10 DEF NetHangup
  <2>11. CASE NetNothing
    BY <2>11 DEF NetNothing, NetNext
  <2>12. CASE NetDrop
    BY <2>12 DEF NetDrop, NetNext
  <2>13. CASE NetRefuse
    BY <2>13 DEF NetRefuse, NetNext
  <2>14. CASE NetDone
    BY <2>14 DEF NetDone
  <2>15. CASE CloseSock
    BY <2>15 DEF CloseSock, Exit
  <2>16. CASE StatusPoll
    BY <2>16 DEF StatusPoll
  <2>17. CASE StatusDone
    BY <2>17 DEF StatusDone, Exit
  <2>18. CASE ReloadFails
    BY <2>18 DEF ReloadFails
  <2>19. CASE AllocFails
    BY <2>19 DEF AllocFails, Exit, Withdraw
  <2>20. QED
    BY <1>3, <2>1, <2>2, <2>3, <2>4, <2>5, <2>6, <2>7, <2>8, <2>9, <2>10,
       <2>11, <2>12, <2>13, <2>14, <2>15, <2>16, <2>17, <2>18, <2>19
       DEF Close
<1>4. CASE Env
  <2>1. CASE \E s \in External \ {"USR1"} : Interrupt(s)
    BY <2>1 DEF Interrupt, Handler
  <2>2. CASE StraySignal
    BY <2>2 DEF StraySignal
  <2>3. CASE WatchExpires
    BY <2>3 DEF WatchExpires, Handler
  <2>4. CASE ReadTimerExpires
    BY <2>4 DEF ReadTimerExpires, Handler
  <2>5. CASE LoginExits
    BY <2>5 DEF LoginExits, Handler
  <2>6. CASE SlaveCloses
    BY <2>6 DEF SlaveCloses
  <2>7. CASE LoginWrites
    BY <2>7 DEF LoginWrites
  <2>8. CASE LoginReads
    BY <2>8 DEF LoginReads
  <2>9. CASE \E kind \in Kinds : TerminalSends(kind)
    BY <2>9 DEF TerminalSends
  <2>10. CASE \E how \in {"cleared", "failed"} : CallEnds(how)
    BY <2>10 DEF CallEnds
  <2>11. QED
    BY <1>4, <2>1, <2>2, <2>3, <2>4, <2>5, <2>6, <2>7, <2>8, <2>9, <2>10
       DEF Env
<1>5. CASE UNCHANGED vars
  BY <1>5 DEF vars
<1>6. QED
  BY <1>1, <1>2, <1>3, <1>4, <1>5 DEF Next, Terminated

\* A session that leaves for a hang-up has sent what it held.
THEOREM FlushedAtHangup ==
  ASSUME \A s \in Settings : s.fwd # 0
  PROVE  Spec => []HangupFlushed
<1>1. Init => HangupInv
  BY SessionAssumption DEF Init, HangupInv
<1>2. TypeOK /\ HangupInv /\ [Next]_vars => HangupInv'
  BY HangupNext
<1>3. TypeOK /\ HangupInv => HangupFlushed
  BY DEF HangupInv, HangupFlushed
<1>4. QED
  BY <1>1, <1>2, <1>3, TypeCorrect, PTL DEF Spec
=============================================================================
