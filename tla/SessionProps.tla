---------------------------- MODULE SessionProps ----------------------------
(***************************************************************************)
(* What a session is expected to keep, and what the source says of it that *)
(* it does not keep.                                                       *)
(***************************************************************************)
EXTENDS Session

\* A read stays inside the memory allocated at the head of do_copy: what is
\* held back and what may still be read fit together (bufd2, totali, freesize),
\* and so does what is read from the call into bufn.
ReadsFitBuffer ==
  pc \in Copying =>
    /\ totali + freesize <= alloc
    /\ pc = "rdm" => Room <= alloc
    /\ pc = "rds" => setting.size <= alloc

\* Bytes taken from the pty and not yet handed to the socket.
InHand == IF pc = "wdirect" THEN buf \o out
          ELSE IF pc = "wflush" THEN out ELSE buf

\* The terminal gets the output of the login process in order, each byte once,
\* and while do_copy has no reason to leave no byte is missing: what was read
\* from the pty is sent or in hand (do_copy.c, the buffer bufd2, writensockint).
OutputInOrder ==
  /\ sent = Ids(Len(sent))
  /\ done = 0 /\ pc \in Copying => sent \o InHand = Ids(taken)

\* Whenever do_copy sleeps on held bytes, the idle timer runs or has expired:
\* the branches around Flag_Minlimit_ex never leave bytes behind.
HeldBytesDue == pc = "poll" /\ buf # <<>> => rtimer \/ "IDLE" \in flags

\* No poll of a session is for ever: Wtimer runs, or the pipe or EINTR ends it
\* (set_watch_dog and set_net_timeout against the handlers of sighandler.c).
PollWakes == pc \in Polls => wtimer \/ wake \/ eintr

\* An expired timer is never slept on: its flag is looked at before the next
\* poll sleeps, as the pipe is drained before the flags are read and not after.
ExpiryNoticed ==
  /\ pc \in Polls /\ "ALRM" \in flags => wake \/ eintr
  /\ pc = "poll" /\ "IDLE" \in flags => wake \/ eintr

\* The threshold at which a packet is sent at once never falls to 0, whatever
\* came between two flushes (minlimit, lastreadmaster, lastwritesock).
MinlimitPositive == minlimit > 0

\* When do_copy leaves because the pty hung up, it has sent what it held back.
HangupFlushed == pc = "out" /\ done = 3 /\ setting.fwd # 0 => buf = <<>>

\* The pts-addr table has a session as long as do_copy serves it, and once it
\* is out of there one message has withdrawn it, never a second, although Exit
\* follows on each way out (send_pts_addr, Flag_pts_addr_send_status).
WithdrawnOnce ==
  /\ pc \in Setup \cup Copying \cup {"out"} => withdrawn = 0
  /\ pc \in Closing \ {"out"} => withdrawn = 1
  /\ withdrawn <= 1

\* A session that exits has withdrawn its entry, wherever it does, with one
\* exception that leaves a dead session in the table: a SIGHUP on which the log
\* file cannot be had while the session is served (Exit; loging.c 35, 49).
LogLost == "log" \in Faults /\ AtInter /\ "HUP" \in flags /\ sendStatus = 1
EntryRemoved ==
  [][pc # "gone" /\ pc' = "gone" => withdrawn' = 1 \/ LogLost]_vars

\* Every session is a stream to its terminal.
Stream == INSTANCE TerminalStream
  WITH written <- produced, delivered <- sent, open <- pc \in Setup \cup Copying
StreamKept == Stream!StreamSpec

-----------------------------------------------------------------------------
\* The session has neither left the copy loop nor been ended before it.
Serving == pc \in Setup \cup Copying

\* do_copy is in writen with a packet that the pty has no room for, and the
\* login process has closed it: nobody will make room, and the loop around
\* writen looks at nothing else, no stop, no watchdog, no end of the call
\* (do_copy.c 459-469).  It stays there.
PtyStuck == pc = "wpty" /\ wpos < DataLen /\ inq = PtyCapacity /\ ~slave

\* What the login process writes reaches the terminal, or the session is on
\* its way out: the threshold and the idle timer between them see to it, and
\* the watchdog is not needed for it (do_copy.c 401-417, 509-541).  The one
\* session of which that is not so is in PtyStuck for ever.
OutputForwarded ==
  \A n \in 1..MaxOutput :
    produced >= n ~> Len(sent) >= n \/ ~Serving \/ []PtyStuck

\* A stop that do_copy can see, the flag with the pipe written, makes it leave
\* its loop, not only the watchdog after it, or it finds do_copy in the one
\* call that it never leaves (do_copy.c 134-139, 459-469).
StopLeaves == "EXIT" \in flags /\ wake ~> ~Serving \/ []PtyStuck

\* So does the end of the login process (POLLHUP, do_copy.c 353-357), with
\* the same exception.
HangupLeaves == ~slave ~> ~Serving \/ []PtyStuck

\* An expired watchdog ends the session altogether (do_copy.c 128-133, and
\* wait_net after it), however much there is to copy, if the two ends of the
\* session stay there and go on taking what they are sent.
WatchdogEnds == pc \in Copying /\ "ALRM" \in flags ~> pc \in Ended
LoginStays   == [](slave /\ login \in {"none", "run"})
ExpiredEnds  == LoginStays /\ LoginServes /\ TerminalServes => WatchdogEnds

\* Once the invitation to clear is sent the session ends without help from
\* anyone: Net_timeout bounds both waits (wait_net, wait_exitstatus).
WaitsEnd == pc = "netpoll" ~> pc \in Ended

-----------------------------------------------------------------------------
\* What makes these invariants inductive.

\* The pipe tells of a timer's signal until the flags are read, and while the
\* process waits its timer runs or has expired.
WakeInv ==
  /\ pc \in Setup => ~wtimer /\ ~rtimer
  /\ "ALRM" \in flags
       => wake \/ pc \in {"inter", "netflags", "stflags"} \cup Ended
  /\ "IDLE" \in flags => wake \/ pc \in {"inter"} \cup Closing \cup Ended
  /\ \/ pc \in Polls \cup {"netpipe", "netflags", "stpipe", "stflags"}
     \/ pc = "netsock" /\ done = 0
     => wtimer \/ "ALRM" \in flags

\* What Exit looks at tells whether the entry was withdrawn.
ListInv ==
  /\ withdrawn \in {0, 1}
  /\ pc \in Setup \cup Copying \cup {"out"} => sendStatus = 1 /\ withdrawn = 0
  /\ pc \in Closing \ {"out"} => sendStatus = 2 /\ withdrawn = 1

\* The buffer is the one allocated, and what is not held of it is free.
BufferInv ==
  /\ pc \in Setup => buf = <<>>
  /\ pc \in Copying => alloc = setting.size /\ totali + freesize = alloc

\* What was read last is part of what is held.
LimitInv ==
  /\ minlimit > 0 /\ lastwrite > 0
  /\ pc \in Setup => buf = <<>>
  /\ buf # <<>> => lastread > 0 /\ lastread <= totali

\* At each point of a pass, what will send the held bytes on.
HeldInv ==
  /\ pc \in Setup => buf = <<>>
  /\ pc # "wdirect"
  /\ pc \in {"loop", "poll", "pipe"} /\ buf # <<>> => rtimer \/ "IDLE" \in flags
  /\ pc \in {"inter", "check", "rdm", "rds", "wpty", "flush"} /\ buf # <<>>
       => rtimer \/ "IDLE" \in flags \/ fwdEx \/ minEx

\* A pass that found the hang-up has flushed.
HangupInv ==
  pc \in {"loop", "out"} /\ done = 3 /\ setting.fwd # 0 => buf = <<>>

\* What was read is sent or in hand, whole; or something of it was dropped, on
\* the way out, and nothing is left in this pass that could follow it.
Whole == sent \o InHand = Ids(taken)
Dropped ==
  /\ done # 0 /\ pc \in {"wdirect", "rds", "wpty", "flush", "wflush", "loop"}
  /\ pc \in DataWrites => out = <<>>
  /\ pc \in {"rds", "wpty", "flush"} => buf = <<>>

OrderInv ==
  /\ sent = Ids(Len(sent))
  /\ pc \in Setup => buf = <<>> /\ sent = <<>> /\ taken = 0
  /\ pc = "wdirect" => setting.fwd = 0
  /\ pc \in Copying /\ setting.fwd = 0 => buf = <<>>
  /\ pc \in Copying => Whole \/ Dropped

-----------------------------------------------------------------------------
\* What the source says and the code does not keep.

\* do_copy.c 424, "Read EOF from master side pts.", is said when the login
\* side has closed.
EofIsReal == done = 6 => ~slave

\* writen.c 63, "write all nbytes to fd": each byte of a packet once.
InputOnce == [][wpos' = wpos + 1 => wpos = wseen]_vars
=============================================================================
