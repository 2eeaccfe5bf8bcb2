---------------------------- MODULE SessionCalls ----------------------------
(***************************************************************************)
(* The calls of a session that may sleep and be interrupted: what it does  *)
(* about signals (the two do_inter functions), writing a message to the    *)
(* X.25 socket (writensockint) and writing a packet to the pty (writen,    *)
(* with the loop do_copy puts around it).                                  *)
(*                                                                         *)
(* do_inter is one step.  That loses one behaviour only: a SIGHUP that     *)
(* comes while the configuration is being read is forgotten.               *)
(***************************************************************************)
EXTENDS SessionEnv

Stops == flags \cap {"ALRM", "EXIT"} # {}

Reload == setting' \in IF "HUP" \in flags THEN Settings ELSE {setting}

\* recv_exit_status; Flag_exitstatus_recvd is set once login is "reaped".
RecvExitStatus ==
  login' = IF "CHLD" \in flags /\ login = "zombie" THEN "reaped" ELSE login

\* Why do_copy is to leave its loop; the mutants forget the watchdog, the stop.
ReasonNoWatchdog == IF "EXIT" \in flags THEN 8 ELSE done
ReasonNoStop     == IF "ALRM" \in flags THEN 7 ELSE done
Reason ==
  IF "EXIT" \in flags THEN 8 ELSE IF "ALRM" \in flags THEN 7 ELSE done

\* do_inter of do_copy.c; the caller takes Stops for its result.
DoInter ==
  /\ Reload
  /\ done' = Reason
  /\ fwdEx' = (fwdEx \/ "IDLE" \in flags)
  /\ RecvExitStatus
  /\ flags' = {}

\* send_pts_addr(getpid(),"-","-").
Withdraw == withdrawn' = withdrawn + 1

\* Exit: the entry of the pts-addr table is withdrawn if it is still there.
\* The mutant is a plain exit.
ExitPlain ==
  /\ pc' = "gone"
  /\ UNCHANGED entry
Exit ==
  /\ pc' = "gone"
  /\ IF sendStatus = 1 THEN Withdraw ELSE UNCHANGED withdrawn
  /\ UNCHANGED sendStatus

\* do_inter of x29proto.c: to be stopped here is to exit at once.
X29Inter ==
  /\ Reload
  /\ flags' = flags \ {"HUP", "ALRM", "EXIT"}
  /\ IF Stops THEN Exit ELSE UNCHANGED <<pc, entry>>
  /\ UNCHANGED <<done, fwdEx, login>>

DataWrites == {"wdirect", "wflush"}
X29Writes  == {"x29set", "inv"}

\* writensockint starts on a message.
StartWrite(msg) == out' = msg /\ cerr' = 0

\* What is left when write() took k bytes and the Q bit, which goes out again
\* before the rest; the mutant does not step back to make room for it.
RestSkips(k) == SubSeq(out, k + 2, Len(out))
Rest(k) == SubSeq(out, k + 1, Len(out))

\* write() takes k of the bytes left; data bytes are sent to the terminal.
WriteSome ==
  /\ pc \in SockWrites /\ ~eintr /\ out # <<>> /\ sock = "open"
  /\ \E k \in 1..Len(out) :
       /\ out' = Rest(k)
       /\ sent' = IF pc \in DataWrites THEN sent \o SubSeq(out, 1, k) ELSE sent
  /\ cerr' = 0
  /\ UNCHANGED <<ctl, sig, tim, cfg, fill, wpt, pty, net, pkts, sock, entry>>

\* Interrupted while it writes data: it goes on, unless it is to stop.
DataInterrupted ==
  /\ pc \in DataWrites /\ eintr
  /\ eintr' = FALSE /\ intr' = TRUE
  /\ DoInter
  /\ out' = IF Stops THEN <<>> ELSE out
  /\ UNCHANGED <<pc, rev, wake, tim, alloc, buf, freesize, limits, minEx, qbit,
                 cerr, wpt, produced, taken, inq, slave, x25, entry>>

\* Interrupted while it writes an X.29 message: the message is given up.
X29Interrupted ==
  /\ pc \in X29Writes /\ eintr
  /\ eintr' = FALSE /\ intr' = TRUE
  /\ X29Inter
  /\ out' = <<>>
  /\ UNCHANGED <<rev, wake, tim, alloc, buf, freesize, limits, minEx, qbit,
                 cerr, wpt, produced, taken, inq, slave, x25>>

\* write() fails; the third failure in a row is given to the error handler,
\* which is wr_error of do_copy.c for data and does nothing for X.29 messages.
WriteError ==
  /\ pc \in SockWrites /\ ~eintr /\ out # <<>>
  /\ sock # "open" \/ "sock" \in Faults
  /\ intr' = FALSE
  /\ IF cerr < 2
     THEN cerr' = cerr + 1 /\ UNCHANGED <<out, done>>
     ELSE /\ cerr' = 0 /\ out' = <<>>
          /\ done' = IF pc \in DataWrites THEN 10 ELSE done
  /\ UNCHANGED <<pc, rev, flags, wake, eintr, tim, cfg, fill, wpt, pty, x25,
                 entry>>

\* On a call that has ended write() raises SIGPIPE, which nobody handles.
WritePipe ==
  /\ pc \in SockWrites /\ ~eintr /\ out # <<>> /\ sock # "open"
  /\ pc' = "killed"
  /\ UNCHANGED <<rev, done, sig, tim, cfg, fill, wsk, wpt, pty, x25, entry>>

WriteSock ==
  WriteSome \/ DataInterrupted \/ X29Interrupted \/ WriteError \/ WritePipe

\* writen: the pty takes the next byte of the packet.
PtyTakes ==
  /\ pc = "wpty" /\ ~eintr /\ wpos < DataLen /\ inq < PtyCapacity
  /\ inq' = inq + 1
  /\ wpos' = wpos + 1
  /\ wseen' = IF wpos = wseen THEN wpos + 1 ELSE wseen
  /\ wpart' = TRUE
  /\ UNCHANGED <<ctl, sig, tim, cfg, fill, wsk, produced, taken, slave, login,
                 x25, entry>>

\* Interrupted after some bytes, write() tells how many: writen goes on.
PtyShort ==
  /\ pc = "wpty" /\ eintr /\ wpart
  /\ eintr' = FALSE /\ wpart' = FALSE
  /\ UNCHANGED <<ctl, flags, wake, intr, tim, cfg, fill, wsk, wpos, wseen, pty,
                 x25, entry>>

\* Interrupted before any, writen returns -1: do_inter, and writen is called
\* again with the whole packet.
PtyInterrupted ==
  /\ pc = "wpty" /\ eintr /\ ~wpart
  /\ eintr' = FALSE /\ intr' = TRUE
  /\ DoInter
  /\ wpos' = 0
  /\ UNCHANGED <<pc, rev, wake, tim, alloc, buf, freesize, limits, minEx, qbit,
                 wsk, wseen, wpart, produced, taken, inq, slave, x25, entry>>

\* Any other error: Done is set, and writen is called again all the same.
PtyError ==
  /\ pc = "wpty" /\ ~eintr /\ ~wpart /\ wpos < DataLen /\ "pty" \in Faults
  /\ done' = 1 /\ intr' = FALSE
  /\ wpos' = 0
  /\ UNCHANGED <<pc, rev, flags, wake, eintr, tim, cfg, fill, wsk, wseen,
                 wpart, pty, x25, entry>>

WritePty == PtyTakes \/ PtyShort \/ PtyInterrupted \/ PtyError
=============================================================================
