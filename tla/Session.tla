------------------------------ MODULE Session ------------------------------
(***************************************************************************)
(* A whole session: what do_main_work does for an accepted call after      *)
(* sig_unblock (pad_svr3.c), the copy loop, and the end of do_copy, with   *)
(* wait_net and wait_exitstatus (do_copy.c).                               *)
(***************************************************************************)
EXTENDS CopyLoop

\* x29set_default sends the X.3 profile.
SetProfile ==
  /\ pc = "x29set" /\ out = <<>>
  /\ pc' = "fork"
  /\ UNCHANGED <<rev, done, sig, tim, cfg, fill, wsk, wpt, pty, x25, entry>>

\* fork and do_login: the login process runs on the slave side of the pty.
ForkLogin ==
  /\ pc = "fork"
  /\ login' = "run"
  /\ pc' = "setsig"
  /\ UNCHANGED <<rev, done, sig, tim, cfg, fill, wsk, wpt, produced, taken, inq,
                 slave, x25, entry>>

\* do_copy withdraws the entry, and notes it for Exit; the mutant does not.
TakeOutUnnoted == Withdraw /\ UNCHANGED sendStatus
TakeOut == Withdraw /\ sendStatus' = 2

\* The end of do_copy: the timers are stopped, the buffers freed, the master
\* closed and the table entry withdrawn, with whatever was still held back.
CloseMaster ==
  /\ pc = "out"
  /\ wtimer' = FALSE /\ rtimer' = FALSE
  /\ alloc' = 0 /\ buf' = <<>> /\ freesize' = 0
  /\ minlimit' = DatalengthMin /\ lastread' = 10 /\ lastwrite' = 10
  /\ minEx' = FALSE /\ lastIsWrite' = FALSE /\ incrd' = FALSE /\ qbit' = 0
  /\ inq' = 0
  /\ TakeOut
  /\ IF done \in {2, 9, 10}
     THEN pc' = "close" /\ UNCHANGED wsk
     ELSE pc' = "inv" /\ StartWrite(<<0>>)
  /\ UNCHANGED <<rev, done, sig, setting, fwdEx, wpt, produced, taken, slave,
                 login, x25>>

\* x29inv_clear has returned: wait_net begins.
InvitationSent ==
  /\ pc = "inv" /\ out = <<>>
  /\ pc' = "netpoll" /\ done' = 0 /\ wtimer' = TRUE
  /\ UNCHANGED <<rev, sig, rtimer, cfg, fill, wsk, wpt, pty, x25, entry>>

\* poll() in wait_net and wait_exitstatus, interrupted: the loop polls again.
WaitInterrupted ==
  /\ pc \in {"netpoll", "stpoll"} /\ eintr
  /\ eintr' = FALSE /\ intr' = TRUE
  /\ UNCHANGED <<ctl, flags, wake, tim, cfg, fill, wsk, wpt, pty, x25, entry>>

WaitFails ==
  /\ pc \in {"netpoll", "stpoll"} /\ ~eintr /\ "poll" \in Faults
  /\ done' = 11 /\ intr' = FALSE
  /\ pc' = IF pc = "netpoll" THEN "netdone" ELSE "stdone"
  /\ UNCHANGED <<rev, flags, wake, eintr, tim, cfg, fill, wsk, wpt, pty, x25,
                 entry>>

NetPoll ==
  /\ pc = "netpoll" /\ ~eintr /\ NetEvents \cup PipeEvents # {}
  /\ rev' = NetEvents \cup PipeEvents
  /\ pc' = IF wake THEN "netpipe" ELSE "netsock"
  /\ UNCHANGED <<done, sig, tim, cfg, fill, wsk, wpt, pty, x25, entry>>

WaitPipe ==
  /\ pc \in {"netpipe", "stpipe"}
  /\ wake' = FALSE
  /\ pc' = IF pc = "netpipe" THEN "netflags" ELSE "stflags"
  /\ UNCHANGED <<rev, done, flags, eintr, intr, tim, cfg, fill, wsk, wpt, pty,
                 x25, entry>>

\* The timeout and the exit signal end either wait; the exit of the login
\* process ends the second.
WaitFlags ==
  /\ pc \in {"netflags", "stflags"}
  /\ done' = IF Stops \/ (pc = "stflags" /\ "CHLD" \in flags) THEN 1 ELSE done
  /\ RecvExitStatus
  /\ flags' = flags \ {"ALRM", "EXIT", "CHLD"}
  /\ pc' = IF pc = "netflags" THEN "netsock"
           ELSE IF done' = 0 THEN "stpoll" ELSE "stdone"
  /\ UNCHANGED <<rev, wake, eintr, intr, tim, cfg, fill, wsk, wpt, produced,
                 taken, inq, slave, x25, entry>>

NetNext(d) == IF d = 0 THEN "netpoll" ELSE "netdone"

NetHangup ==
  /\ pc = "netsock" /\ CallLost
  /\ done' = 1 /\ pc' = "netdone"
  /\ UNCHANGED <<rev, sig, tim, cfg, fill, wsk, wpt, pty, x25, entry>>

NetNothing ==
  /\ pc = "netsock" /\ "sIn" \notin rev /\ ~CallLost
  /\ pc' = NetNext(done)
  /\ UNCHANGED <<rev, done, sig, tim, cfg, fill, wsk, wpt, pty, x25, entry>>

\* A packet that arrives while the call is being cleared is dropped.
NetDrop ==
  /\ pc = "netsock" /\ "sIn" \in rev /\ ~CallLost
  /\ net # <<>> /\ Head(net) # "empty"
  /\ net' = Tail(net)
  /\ pc' = NetNext(done)
  /\ UNCHANGED <<rev, done, sig, tim, cfg, fill, wsk, wpt, pty, pkts, sock,
                 sent, entry>>

\* Nothing, one byte or an error, by what errno holds: it is ignored after an
\* interruption and else ends the wait.
NetRefuse ==
  /\ pc = "netsock" /\ "sIn" \in rev /\ ~CallLost
  /\ \/ net # <<>> /\ Head(net) = "empty" /\ net' = Tail(net) /\ UNCHANGED intr
     \/ sock # "open" /\ UNCHANGED net /\ intr' \in {intr, FALSE}
  /\ done' = IF intr' THEN done ELSE 1
  /\ pc' = NetNext(done')
  /\ UNCHANGED <<rev, flags, wake, eintr, tim, cfg, fill, wsk, wpt, pty, pkts,
                 sock, sent, entry>>

\* The end of wait_net.
NetDone ==
  /\ pc = "netdone"
  /\ wtimer' = FALSE /\ pc' = "close"
  /\ UNCHANGED <<rev, done, sig, rtimer, cfg, fill, wsk, wpt, pty, x25, entry>>

\* close_sock, and wait_exitstatus unless the status is there already; then
\* do_main_work ends with Exit(0).
CloseSock ==
  /\ pc = "close"
  /\ sock' = "closed" /\ net' = <<>>
  /\ IF login = "reaped"
     THEN Exit /\ UNCHANGED <<done, wtimer>>
     ELSE pc' = "stpoll" /\ done' = 0 /\ wtimer' = TRUE /\ UNCHANGED entry
  /\ UNCHANGED <<rev, sig, rtimer, cfg, fill, wsk, wpt, pty, pkts, sent>>

StatusPoll ==
  /\ pc = "stpoll" /\ ~eintr /\ wake
  /\ pc' = "stpipe"
  /\ UNCHANGED <<rev, done, sig, tim, cfg, fill, wsk, wpt, pty, x25, entry>>

StatusDone ==
  /\ pc = "stdone"
  /\ wtimer' = FALSE /\ Exit
  /\ UNCHANGED <<rev, done, sig, rtimer, cfg, fill, wsk, wpt, pty, x25>>

\* Where one of the two do_inter is about to run.
AtInter ==
  \/ pc = "inter"
  \/ pc \in SockWrites /\ eintr
  \/ pc = "wpty" /\ eintr /\ ~wpart
  \/ pc = "rds" /\ net # <<>> /\ Head(net) = "empty" /\ intr

\* On a SIGHUP they read the configuration and close and open the log file.  A
\* log file that cannot be had ends the process by exit, without what Exit does;
\* a configuration file that has to be written first kills it (fclose of NULL).
ReloadFails ==
  /\ AtInter /\ "HUP" \in flags
  /\ \/ "log" \in Faults /\ pc' = "gone"
     \/ "cfg" \in Faults /\ pc' = "killed"
  /\ UNCHANGED <<rev, done, sig, tim, cfg, fill, wsk, wpt, pty, x25, entry>>

\* Exit for want of memory (the profile, do_copy, both waits), of a process for
\* the login, of a pipe or of timers.
AllocFails ==
  /\ "alloc" \in Faults
  /\ \/ pc \in {"fork", "setsig"}
     \/ pc = "close" /\ login # "reaped"
     \/ pc = "x29set" /\ out = <<0>>
     \/ pc = "inv" /\ out = <<>>
  /\ Exit
  /\ UNCHANGED <<rev, done, sig, tim, cfg, fill, wsk, wpt, pty, x25>>

Close ==
  \/ SetProfile
  \/ ForkLogin
  \/ CloseMaster
  \/ InvitationSent
  \/ WaitInterrupted
  \/ WaitFails
  \/ NetPoll
  \/ WaitPipe
  \/ WaitFlags
  \/ NetHangup
  \/ NetNothing
  \/ NetDrop
  \/ NetRefuse
  \/ NetDone
  \/ CloseSock
  \/ StatusPoll
  \/ StatusDone
  \/ ReloadFails
  \/ AllocFails

Terminated == pc \in Ended /\ UNCHANGED vars

Next == Copy \/ WriteSock \/ Close \/ Env \/ Terminated

Spec == Init /\ [][Next]_vars

-----------------------------------------------------------------------------
\* The session process runs on whenever no call holds it up.
Prompt ==
  \/ Copy \/ Close \/ DataInterrupted \/ X29Interrupted
  \/ sock # "open" /\ (WriteError \/ WritePipe)

\* The two ends: the login process reads its input, the terminal, with the
\* network before it, takes what it is sent.
LoginServes    == WF_vars(LoginReads)
TerminalServes == WF_vars(WriteSome)

\* The process is scheduled, the idle timer expires, the two ends serve; the
\* watchdog may expire but is not counted on.
ForwardSpec ==
  /\ Spec /\ WF_vars(Prompt) /\ WF_vars(ReadTimerExpires)
  /\ LoginServes /\ TerminalServes

\* The process is scheduled and its timers expire; the two ends may be stuck.
FairSpec ==
  Spec /\ WF_vars(Prompt) /\ WF_vars(ReadTimerExpires) /\ WF_vars(WatchExpires)

=============================================================================
