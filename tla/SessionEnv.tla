----------------------------- MODULE SessionEnv -----------------------------
(***************************************************************************)
(* What surrounds the session process: the signal handlers that interrupt  *)
(* it (sighandler.c), its two interval timers (watchdog.c), the login      *)
(* process with the pty it runs on, and the X.25 call with the terminal at *)
(* its other end.  Every action may happen between any two steps of the    *)
(* session process.                                                        *)
(***************************************************************************)
EXTENDS SessionState

MasterOpen == pc \in Setup \cup Copying \cup {"out"}

\* What poll() reports on the three descriptors of do_copy.
PtyEvents ==
  {e \in {"mIn", "mHup"} : \/ e = "mIn" /\ produced > taken
                           \/ e = "mHup" /\ ~slave}
NetEvents ==
  {e \in {"sIn", "sHup", "sErr"} : \/ e = "sIn" /\ net # <<>>
                                   \/ e = "sIn" /\ sock # "open"
                                   \/ e = "sHup" /\ sock = "cleared"
                                   \/ e = "sErr" /\ sock = "failed"}
PipeEvents == IF wake THEN {"pipe"} ELSE {}
Revents == PtyEvents \cup NetEvents \cup PipeEvents

\* The session may be asleep in a system call that a signal interrupts.
Blocked ==
  \/ pc = "poll" /\ Revents = {}
  \/ pc = "netpoll" /\ NetEvents \cup PipeEvents = {}
  \/ pc = "stpoll" /\ ~wake
  \/ pc = "wpty" /\ wpos < DataLen /\ inq = PtyCapacity
  \/ pc \in SockWrites /\ sock = "open" /\ out # <<>>

\* chil_sig_exit and its siblings: set the flag, write to Chil_pipefd.  Until
\* chil_setsignal the handlers are those of the listener, without the pipe.
\* The signal finds the process asleep in the call, or just before it.
\* (The mutant forgets the pipe.)
HandlerMute(s) ==
  /\ flags' = flags \cup {s}
  /\ eintr' \in {eintr, eintr \/ Blocked}
  /\ UNCHANGED <<wake, intr>>

Handler(s) ==
  /\ flags' = flags \cup {s}
  /\ wake' = (wake \/ pc \notin Setup)
  /\ eintr' \in {eintr, eintr \/ Blocked}
  /\ UNCHANGED intr

Running == pc \notin Ended

Interrupt(s) ==
  /\ Running /\ s \notin flags
  /\ Handler(s)
  /\ UNCHANGED <<ctl, tim, cfg, fill, wsk, wpt, pty, x25, entry>>

\* SIGUSR1 goes to the whole process group and finds here the handler of the
\* monitor, whose flag a session never reads: all it does is to interrupt.
StraySignal ==
  /\ Running /\ Blocked
  /\ eintr' = TRUE
  /\ UNCHANGED <<ctl, flags, wake, intr, tim, cfg, fill, wsk, wpt, pty, x25,
                 entry>>

WatchExpires ==
  /\ Running /\ wtimer
  /\ wtimer' = FALSE
  /\ Handler("ALRM")
  /\ UNCHANGED <<ctl, rtimer, cfg, fill, wsk, wpt, pty, x25, entry>>

ReadTimerExpires ==
  /\ Running /\ rtimer
  /\ rtimer' = FALSE
  /\ Handler("IDLE")
  /\ UNCHANGED <<ctl, wtimer, cfg, fill, wsk, wpt, pty, x25, entry>>

\* The login process ends and SIGCHLD is sent.  Its side of the pty is closed
\* with it, which the master notices unless it was never opened.
LoginExits ==
  /\ Running /\ login = "run"
  /\ login' = "zombie"
  /\ slave' \in {FALSE, slave /\ produced = 0}
  /\ Handler("CHLD")
  /\ UNCHANGED <<ctl, tim, cfg, fill, wsk, wpt, produced, taken, inq, x25,
                 entry>>

\* It closes the pty and lives on.
SlaveCloses ==
  /\ login = "run" /\ slave
  /\ slave' = FALSE
  /\ UNCHANGED <<ctl, sig, tim, cfg, fill, wsk, wpt, produced, taken, inq,
                 login, x25, entry>>

LoginWrites ==
  /\ MasterOpen /\ slave /\ login = "run"
  /\ produced < MaxOutput /\ produced - taken < PtyCapacity
  /\ produced' = produced + 1
  /\ UNCHANGED <<ctl, sig, tim, cfg, fill, wsk, wpt, taken, inq, slave, login,
                 x25, entry>>

LoginReads ==
  /\ MasterOpen /\ slave /\ login = "run" /\ inq > 0
  /\ inq' = inq - 1
  /\ UNCHANGED <<ctl, sig, tim, cfg, fill, wsk, wpt, produced, taken, slave,
                 login, x25, entry>>

TerminalSends(kind) ==
  /\ Running /\ sock = "open" /\ pkts < MaxPackets
  /\ pkts' = pkts + 1 /\ net' = Append(net, kind)
  /\ UNCHANGED <<ctl, sig, tim, cfg, fill, wsk, wpt, pty, sock, sent, entry>>

\* The call ends: cleared by the other side, or lost.
CallEnds(how) ==
  /\ Running /\ sock = "open"
  /\ sock' = how
  /\ UNCHANGED <<ctl, sig, tim, cfg, fill, wsk, wpt, pty, net, pkts, sent,
                 entry>>

Env ==
  \/ \E s \in External \ {"USR1"} : Interrupt(s)
  \/ "USR1" \in External /\ StraySignal
  \/ WatchExpires
  \/ ReadTimerExpires
  \/ "login" \in Ends /\ LoginExits
  \/ "slave" \in Ends /\ SlaveCloses
  \/ LoginWrites
  \/ LoginReads
  \/ \E kind \in Kinds : TerminalSends(kind)
  \/ \E how \in Ends \cap {"cleared", "failed"} : CallEnds(how)
=============================================================================
