---------------------------- MODULE SessionState ----------------------------
(***************************************************************************)
(* The state of one session process of pad_svr: the child that             *)
(* do_main_work (pad_svr3.c) forks for an accepted X.25 call, which copies *)
(* bytes between the call and the pseudo terminal of a login process       *)
(* (do_copy.c), together with the login process, the pty and the call.     *)
(*                                                                         *)
(* Bytes the login process writes are numbered 1, 2, 3, ... so that loss,  *)
(* duplication and reordering show; bytes of the other direction are       *)
(* counted within the packet being copied.                                 *)
(***************************************************************************)
EXTENDS Integers, Sequences, FiniteSets

CONSTANTS
  Settings,       \* the [fwd, size] pairs the configuration file may hold
  DatalengthMin,  \* packet size of the call, the first flush threshold
  PtyCapacity,    \* bytes the pty holds in each direction
  DataLen,        \* bytes of user data in a packet (it fits Buffer_size)
  MaxOutput,      \* bound: bytes the login process writes
  MaxPackets,     \* bound: packets the terminal sends
  Kinds,          \* the kinds of packet it sends
  External,       \* the signals the operator sends to the session
  Ends,           \* what may end: the login process, its pty, the call
  Faults          \* the calls that may fail: reads and writes, "log" for the
                  \* log file, "cfg" for the configuration file, "alloc" for
                  \* memory, fork, pipe and timers

PacketKinds == {"data", "empty", "clear", "break", "set"}

ASSUME SessionAssumption ==
  /\ Settings \subseteq [fwd : Nat, size : Nat]
  /\ Settings # {}
  /\ \A s \in Settings : s.size >= DataLen
  /\ DatalengthMin \in Nat \ {0}
  /\ PtyCapacity \in Nat \ {0}
  /\ DataLen \in Nat \ {0}
  /\ MaxOutput \in Nat
  /\ MaxPackets \in Nat
  /\ Kinds \subseteq PacketKinds
  /\ External \subseteq {"HUP", "EXIT", "USR1"}
  /\ Ends \subseteq {"login", "slave", "cleared", "failed"}
  /\ Faults \subseteq {"poll", "master", "pty", "sock", "log", "cfg", "alloc"}

VARIABLES
  pc,          \* where the session process is
  rev,         \* what the last poll reported and the pass still looks at
  done,        \* Done, the reason for leaving a loop (0: none yet)
  flags,       \* the Flag_* variables that are 1, by signal
  wake,        \* Chil_pipefd has unread bytes
  eintr,       \* the blocking call in progress returns EINTR
  intr,        \* errno = EINTR, what the last failed call left there
  wtimer,      \* Wtimer (SIGALRM) is armed
  rtimer,      \* Rtimer (SIGRTMIN) is armed
  setting,     \* Forwardtimer and Buffer_size
  alloc,       \* bytes allocated behind bufd2 and bufn2
  buf,         \* the totali bytes at bufd2
  freesize, minlimit, lastread, lastwrite,
  fwdEx,       \* Flag_Forwardtimer_ex
  minEx,       \* Flag_Minlimit_ex
  lastIsWrite, \* Flag_Last_writesock
  incrd,       \* Flag_minlimit_incrd
  qbit,        \* the byte at bufd, sent as the Q bit
  out,         \* writensockint: bytes it still has to write
  cerr,        \* writensockint: consecutive errors
  wpos,        \* writen: bytes of the packet written since it was called
  wseen,       \* bytes of the packet that the pty has had
  wpart,       \* the write in progress has moved some bytes
  produced, taken, inq, slave, login,  \* pty and login process
  net, pkts, sock, sent,               \* the X.25 call
  sendStatus,  \* Flag_pts_addr_send_status: 1 listed, 2 withdrawn by do_copy
  withdrawn    \* messages sent that withdraw the table entry

ctl  == <<pc, rev, done>>
sig  == <<flags, wake, eintr, intr>>
tim  == <<wtimer, rtimer>>
cfg  == <<setting, alloc>>
limits == <<minlimit, lastread, lastwrite, lastIsWrite, incrd>>
fill == <<buf, freesize, limits, fwdEx, minEx, qbit>>
wsk  == <<out, cerr>>
wpt  == <<wpos, wseen, wpart>>
pty  == <<produced, taken, inq, slave, login>>
x25  == <<net, pkts, sock, sent>>
entry == <<sendStatus, withdrawn>>
vars == <<ctl, sig, tim, cfg, fill, wsk, wpt, pty, x25, entry>>

Signals == {"HUP", "CHLD", "ALRM", "EXIT", "IDLE"}
Events  == {"pipe", "mIn", "mHup", "sIn", "sHup", "sErr"}

Setup   == {"x29set", "fork", "setsig"}
Copying == {"loop", "poll", "pipe", "inter", "check", "rdm", "wdirect",
            "rds", "wpty", "flush", "wflush"}
Closing == {"out", "inv", "netpoll", "netpipe", "netflags", "netsock",
            "netdone", "close", "stpoll", "stpipe", "stflags", "stdone"}
Ended   == {"gone", "killed"}

SockWrites == {"x29set", "wdirect", "wflush", "inv"}
Polls      == {"poll", "netpoll", "stpoll"}

totali == Len(buf)
Ids(n) == [i \in 1..n |-> i]

\* The call is accepted, the pty open and the session listed; the flags may
\* be left over from the listening process (do_main_work up to sig_unblock).
Init ==
  /\ pc = "x29set" /\ rev = {} /\ done = 0
  /\ flags \in SUBSET ((External \ {"USR1"}) \cup {"CHLD"})
  /\ wake = FALSE /\ eintr = FALSE /\ intr = FALSE
  /\ wtimer = FALSE /\ rtimer = FALSE
  /\ setting \in Settings /\ alloc = 0
  /\ buf = <<>> /\ freesize = 0 /\ minlimit = DatalengthMin
  /\ lastread = 10 /\ lastwrite = 10
  /\ fwdEx = FALSE /\ minEx = FALSE /\ lastIsWrite = FALSE /\ incrd = FALSE
  /\ qbit = 0
  /\ out = <<0>> /\ cerr = 0
  /\ wpos = 0 /\ wseen = 0 /\ wpart = FALSE
  /\ produced = 0 /\ taken = 0 /\ inq = 0 /\ slave = TRUE /\ login = "none"
  /\ net = <<>> /\ pkts = 0 /\ sock = "open" /\ sent = <<>>
  /\ sendStatus = 1 /\ withdrawn = 0

\* Every variable keeps its kind; the codes of done are those do_copy assigns
\* (4 and 5, which its final switch still knows, are no longer assigned).
TypeCtl ==
  /\ pc \in Setup \cup Copying \cup Closing \cup Ended
  /\ rev \subseteq Events
  /\ done \in {0, 1, 2, 3, 6, 7, 8, 9, 10, 11}
TypeSig ==
  /\ flags \subseteq Signals
  /\ wake \in BOOLEAN /\ eintr \in BOOLEAN /\ intr \in BOOLEAN
TypeTim == wtimer \in BOOLEAN /\ rtimer \in BOOLEAN
TypeCfg == setting \in Settings /\ alloc \in Nat
TypeBuf == buf \in Seq(Nat) /\ freesize \in Nat
TypeLimits ==
  /\ minlimit \in Int /\ lastread \in Nat /\ lastwrite \in Nat
  /\ lastIsWrite \in BOOLEAN /\ incrd \in BOOLEAN
TypeDue == fwdEx \in BOOLEAN /\ minEx \in BOOLEAN /\ qbit \in {0, 1}
TypeWsk == out \in Seq(Nat) /\ cerr \in 0..2
TypeWpt == wpos \in 0..DataLen /\ wseen \in 0..DataLen /\ wpart \in BOOLEAN
TypePty ==
  /\ produced \in 0..MaxOutput /\ taken \in 0..produced
  /\ inq \in 0..PtyCapacity /\ slave \in BOOLEAN
  /\ login \in {"none", "run", "zombie", "reaped"}
TypeX25 ==
  /\ net \in Seq(Kinds) /\ pkts \in 0..MaxPackets
  /\ sock \in {"open", "cleared", "failed", "closed"}
  /\ sent \in Seq(Nat)
TypeEntry == sendStatus \in {1, 2} /\ withdrawn \in Nat
TypeOK ==
  /\ TypeCtl /\ TypeSig /\ TypeTim /\ TypeCfg /\ TypeBuf /\ TypeLimits
  /\ TypeDue /\ TypeWsk /\ TypeWpt /\ TypePty /\ TypeX25
  /\ TypeEntry
=============================================================================
