------------------------------ MODULE CopyLoop ------------------------------
(***************************************************************************)
(* The loop of do_copy (do_copy.c): poll the call, the pty and the signal  *)
(* pipe; react to signals; copy what can be read; and hold back what the   *)
(* login process writes until a packet is full enough, the terminal has    *)
(* been quiet for Forwardtimer, or the pty hangs up.                       *)
(***************************************************************************)
EXTENDS SessionCalls

Least(a, b) == IF a < b THEN a ELSE b
Pending(n) == [i \in 1..n |-> taken + i]

\* The head of do_copy.  malloc() does not clear the byte at bufd.
EnterCopy ==
  /\ pc = "setsig"
  /\ pc' = "loop" /\ done' = 0
  /\ alloc' = setting.size /\ freesize' = setting.size
  /\ qbit' \in {0, 1}
  /\ UNCHANGED <<rev, sig, tim, setting, buf, limits, fwdEx, minEx, wsk, wpt,
                 pty, x25, entry>>

Again ==
  /\ pc = "loop" /\ done = 0
  /\ pc' = "poll" /\ wtimer' = TRUE
  /\ UNCHANGED <<rev, done, sig, rtimer, cfg, fill, wsk, wpt, pty, x25, entry>>

Leave ==
  /\ pc = "loop" /\ done # 0
  /\ pc' = "out"
  /\ UNCHANGED <<rev, done, sig, tim, cfg, fill, wsk, wpt, pty, x25, entry>>

PollReturns ==
  /\ pc = "poll" /\ ~eintr /\ Revents # {}
  /\ rev' = Revents
  /\ pc' = IF wake THEN "pipe" ELSE "check"
  /\ UNCHANGED <<done, sig, tim, cfg, fill, wsk, wpt, pty, x25, entry>>

\* poll() says EINTR and reports nothing; do_copy goes on with do_inter.
PollInterrupted ==
  /\ pc = "poll" /\ eintr
  /\ eintr' = FALSE /\ intr' = TRUE
  /\ rev' = {} /\ pc' = "inter"
  /\ UNCHANGED <<done, flags, wake, tim, cfg, fill, wsk, wpt, pty, x25, entry>>

PollFails ==
  /\ pc = "poll" /\ ~eintr /\ "poll" \in Faults
  /\ done' = 11 /\ pc' = "out" /\ intr' = FALSE
  /\ UNCHANGED <<rev, flags, wake, eintr, tim, cfg, fill, wsk, wpt, pty, x25,
                 entry>>

ReadPipe ==
  /\ pc = "pipe"
  /\ wake' = FALSE /\ pc' = "inter"
  /\ UNCHANGED <<rev, done, flags, eintr, intr, tim, cfg, fill, wsk, wpt, pty,
                 x25, entry>>

Inter ==
  /\ pc = "inter"
  /\ DoInter
  /\ pc' = "check"
  /\ UNCHANGED <<rev, wake, eintr, intr, tim, alloc, buf, freesize, limits,
                 minEx, qbit, wsk, wpt, produced, taken, inq, slave, x25,
                 entry>>

\* Where a pass goes on after the pty has been looked at.
AfterMaster == IF "sIn" \in rev THEN "rds" ELSE "flush"

CallLost == rev \cap {"sErr", "sHup"} # {}

\* Why do_copy is to leave, from what poll reported; the mutant does not look
\* at the pty.
FoundOnlyCall ==
  IF "sErr" \in rev THEN 10 ELSE IF "sHup" \in rev THEN 2 ELSE done
Found ==
  IF "sErr" \in rev THEN 10 ELSE IF "sHup" \in rev THEN 2
  ELSE IF "mHup" \in rev THEN 3 ELSE done

\* A call that is over ends the loop at once; a pty hung up after this pass.
Check ==
  /\ pc = "check"
  /\ done' = Found
  /\ pc' = IF CallLost THEN "out" ELSE IF "mIn" \in rev THEN "rdm"
           ELSE AfterMaster
  /\ UNCHANGED <<rev, sig, tim, cfg, fill, wsk, wpt, pty, x25, entry>>

\* The bytes read() is allowed to return from the pty; the mutant forgets that
\* some of the buffer is taken.
RoomAll == setting.size
Room == IF setting.fwd = 0 THEN setting.size ELSE freesize

\* Forwardtimer is 0: what is read, at bufd2, is sent as it is.
ReadDirect ==
  /\ pc = "rdm" /\ setting.fwd = 0
  /\ \E k \in 1..Least(Room, produced - taken) :
       /\ taken' = taken + k
       /\ buf' = [i \in 1..totali |-> IF i <= k THEN taken + i ELSE buf[i]]
       /\ StartWrite(Pending(k))
  /\ pc' = "wdirect"
  /\ UNCHANGED <<rev, done, sig, tim, cfg, freesize, limits, fwdEx, minEx,
                 qbit, wpt, produced, inq, slave, login, x25, entry>>

DirectWritten ==
  /\ pc = "wdirect" /\ out = <<>>
  /\ pc' = AfterMaster
  /\ UNCHANGED <<rev, done, sig, tim, cfg, fill, wsk, wpt, pty, x25, entry>>

\* Forwardtimer is not 0: what is read joins the bytes held back.  If they are
\* enough the packet is due, else the idle timer starts again.
ReadHeld ==
  /\ pc = "rdm" /\ setting.fwd # 0
  /\ \E k \in 1..Least(Room, produced - taken) :
       /\ taken' = taken + k
       /\ buf' = buf \o Pending(k)
       /\ freesize' = freesize - k
       /\ lastread' = k
       /\ minlimit' = IF lastIsWrite THEN lastwrite + (totali + k) \div 2
                      ELSE minlimit
       /\ minEx' = (minEx \/ totali + k >= minlimit')
       /\ rtimer' = (totali + k < minlimit')
  /\ incrd' = (incrd \/ lastIsWrite)
  /\ pc' = AfterMaster
  /\ UNCHANGED <<rev, done, sig, wtimer, cfg, lastwrite, lastIsWrite, fwdEx,
                 qbit, wsk, wpt, produced, inq, slave, login, x25, entry>>

\* read() for no bytes at all returns 0, which do_copy takes for an EOF.
ReadEof ==
  /\ pc = "rdm" /\ Room = 0
  /\ done' = 6
  /\ pc' = AfterMaster
  /\ UNCHANGED <<rev, sig, tim, cfg, fill, wsk, wpt, pty, x25, entry>>

ReadFails ==
  /\ pc = "rdm" /\ "master" \in Faults
  /\ done' = 1 /\ intr' = FALSE
  /\ pc' = AfterMaster
  /\ UNCHANGED <<rev, flags, wake, eintr, tim, cfg, fill, wsk, wpt, pty, x25,
                 entry>>

ReadMaster == ReadDirect \/ ReadHeld \/ ReadEof \/ ReadFails

\* A data packet from the terminal goes to the pty.
ReadData ==
  /\ pc = "rds" /\ net # <<>> /\ Head(net) = "data"
  /\ net' = Tail(net)
  /\ lastIsWrite' = FALSE
  /\ pc' = "wpty"
  /\ UNCHANGED <<rev, done, sig, tim, cfg, buf, freesize, minlimit, lastread,
                 lastwrite, incrd, fwdEx, minEx, qbit, wsk, wpt, pty, pkts,
                 sock, sent, entry>>

DataWritten ==
  /\ pc = "wpty" /\ wpos = DataLen
  /\ pc' = "flush"
  /\ wpos' = 0 /\ wseen' = 0 /\ wpart' = FALSE
  /\ UNCHANGED <<rev, done, sig, tim, cfg, fill, wsk, pty, x25, entry>>

\* An X.29 message; an invitation to clear and a break set the net timeout on
\* the timer, which the next pass of the loop sets anew.
ReadX29 ==
  /\ pc = "rds" /\ net # <<>> /\ Head(net) \in {"clear", "break", "set"}
  /\ net' = Tail(net)
  /\ wtimer' = (wtimer \/ Head(net) # "set")
  /\ pc' = "flush"
  /\ UNCHANGED <<rev, done, sig, rtimer, cfg, fill, wsk, wpt, pty, pkts, sock,
                 sent, entry>>

\* A packet without user data is one byte, the Q bit: do_copy takes it for an
\* error and acts on what errno holds from earlier.
ReadEmpty ==
  /\ pc = "rds" /\ net # <<>> /\ Head(net) = "empty"
  /\ net' = Tail(net)
  /\ IF intr THEN DoInter
     ELSE done' = 10 /\ UNCHANGED <<flags, setting, fwdEx, login>>
  /\ pc' = "flush"
  /\ UNCHANGED <<rev, wake, eintr, intr, tim, alloc, buf, freesize, limits,
                 minEx, qbit, wsk, wpt, produced, taken, inq, slave, pkts, sock,
                 sent, entry>>

\* The call has ended since poll() looked: EOF, or an error.
ReadEnded ==
  /\ pc = "rds" /\ sock # "open"
  /\ \/ done' = 9 /\ UNCHANGED intr
     \/ done' = 10 /\ intr' = FALSE
  /\ pc' = "flush"
  /\ UNCHANGED <<rev, flags, wake, eintr, tim, cfg, fill, wsk, wpt, pty, x25,
                 entry>>

ReadSocket == ReadData \/ ReadX29 \/ ReadEmpty \/ ReadEnded

\* Held bytes are to be sent now; the mutants forget the hang-up, the idle
\* timer or the threshold.
DueNotOnHangup == (fwdEx \/ minEx) /\ setting.fwd # 0
DueNotWhenIdle == (done = 3 \/ minEx) /\ setting.fwd # 0
DueNotWhenFull == (done = 3 \/ fwdEx) /\ setting.fwd # 0
Due == (done = 3 \/ fwdEx \/ minEx) /\ setting.fwd # 0

FlushNothing ==
  /\ pc = "flush" /\ ~(Due /\ buf # <<>>)
  /\ IF Due THEN fwdEx' = FALSE /\ minEx' = FALSE ELSE UNCHANGED <<fwdEx, minEx>>
  /\ pc' = "loop"
  /\ UNCHANGED <<rev, done, sig, tim, cfg, buf, freesize, limits, qbit, wsk,
                 wpt, pty, x25, entry>>

\* After an idle time the threshold shrinks to what came then, less a quarter
\* of the last read; the mutant takes all of it.
ShrunkToNothing == totali - lastread
Shrunk == totali - lastread \div 4

Flush ==
  /\ pc = "flush" /\ Due /\ buf # <<>>
  /\ minlimit' = IF fwdEx /\ ~incrd THEN Shrunk ELSE minlimit
  /\ fwdEx' = FALSE /\ minEx' = FALSE
  /\ lastIsWrite' = TRUE /\ incrd' = FALSE
  /\ qbit' = 0
  /\ StartWrite(buf)
  /\ pc' = "wflush"
  /\ UNCHANGED <<rev, done, sig, tim, cfg, buf, freesize, lastread, lastwrite,
                 wpt, pty, x25, entry>>

\* What of the buffer is free after a flush; the mutant counts the Q bit too.
FreeAgainPlusOne == setting.size + 1
FreeAgain == setting.size

\* The buffer is free again.  writensockint counts the Q bit, and what it has
\* not written when it stops early; Done is set then and the count is not used.
Flushed ==
  /\ pc = "wflush" /\ out = <<>>
  /\ lastwrite' = totali + 1
  /\ buf' = <<>> /\ freesize' = FreeAgain
  /\ pc' = "loop"
  /\ UNCHANGED <<rev, done, sig, tim, cfg, minlimit, lastread, lastIsWrite,
                 incrd, fwdEx, minEx, qbit, wsk, wpt, pty, x25, entry>>

Copy ==
  \/ EnterCopy
  \/ Again
  \/ Leave
  \/ PollReturns
  \/ PollInterrupted
  \/ PollFails
  \/ ReadPipe
  \/ Inter
  \/ Check
  \/ ReadMaster
  \/ DirectWritten
  \/ ReadSocket
  \/ WritePty
  \/ DataWritten
  \/ FlushNothing
  \/ Flush
  \/ Flushed
=============================================================================
