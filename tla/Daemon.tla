------------------------------- MODULE Daemon -------------------------------
(***************************************************************************)
(* The processes of pad_svr around its sessions: the monitor (monitor.c),  *)
(* which starts the listener again after an error and keeps the pts-addr   *)
(* table; the listener (do_main_work, pad_svr3.c), which accepts calls and *)
(* forks a session for each; and the sessions, as far as these two see     *)
(* them (module Session is the inside of one).  They meet in signals, exit *)
(* codes and the messages of the FIFO (pts_addr.c).                        *)
(***************************************************************************)
EXTENDS PtsTable, FiniteSets

CONSTANTS
  Calls,      \* the calls that come in, one session each
  Pids,       \* the process ids the system gives to sessions
  FifoSize,   \* messages the FIFO holds
  MaxForks,   \* bound: listeners started one after the other
  External,   \* what the operator sends: "TERM", "HUP", "USR1", "STOP"
  Faults      \* what may fail: "listener", "monitor", "session", and
              \* "reload", which ends the process that reads the files again

ASSUME DaemonAssumption ==
  /\ Pids \subseteq Nat \ {Free}
  /\ FifoSize \in Nat \ {0}
  /\ MaxForks \in Nat \ {0}
  /\ External \subseteq {"TERM", "HUP", "USR1", "STOP"}
  /\ Faults \subseteq {"listener", "monitor", "session", "reload"}

VARIABLES
  mpc,      \* where the monitor is
  mpend,    \* signals pending for it: all are blocked outside sigsuspend
  mflags,   \* its Flag_* variables that are 1
  need,     \* flag_need_start
  forked,   \* listeners started so far
  lis,      \* where each listener is
  lfl,      \* its Flag_* variables that are 1
  lint,     \* its accept() returns EINTR
  ses,      \* how far each session is
  pid,      \* its process id
  par,      \* the listener that forked it
  fifo,     \* messages on their way to the monitor
  tab,      \* the pts-addr table
  astray,   \* calls with a message that was never sent or did not fit
  reread    \* "asked": a reread was asked for and no listener has read since

mon  == <<mpc, mpend, mflags, need>>
list == <<forked, lis, lfl, lint>>
sess == <<ses, pid, par>>
dvars == <<mon, list, sess, fifo, tab, astray, reread>>

Gens   == 1..MaxForks
Alive  == {"boot", "open", "top", "accept", "reap", "clear",
           "inter"}
Exited == {"exit0", "exit1", "killed"}
InUse  == {"new", "listed", "plain", "left", "zombie"}

Init ==
  /\ mpc = "fork" /\ mpend = {} /\ mflags = {} /\ need = TRUE
  /\ forked = 0
  /\ lis = [g \in Gens |-> "none"] /\ lfl = [g \in Gens |-> {}]
  /\ lint = [g \in Gens |-> FALSE]
  /\ ses = [c \in Calls |-> "none"] /\ pid = [c \in Calls |-> Free]
  /\ par = [c \in Calls |-> 0]
  /\ fifo = <<>> /\ tab = <<Free>> /\ astray = {}
  /\ reread = "no"

TypeOK ==
  /\ mpc \in {"fork", "wait", "chld", "io", "exit", "gone", "lost"}
  /\ mpend \subseteq {"CHLD", "HUP", "IO", "USR1"}
  /\ mflags \subseteq {"CHLD", "HUP", "IO", "USR1"}
  /\ need \in BOOLEAN /\ forked \in 0..MaxForks
  /\ lis \in [Gens -> {"none", "reaped"} \cup Alive \cup Exited]
  /\ lfl \in [Gens -> SUBSET {"CHLD", "HUP", "EXIT"}]
  /\ lint \in [Gens -> BOOLEAN]
  /\ ses \in [Calls -> {"none", "gone"} \cup InUse]
  /\ pid \in [Calls -> Pids \cup {Free}] /\ par \in [Calls -> 0..MaxForks]
  /\ fifo \in Seq([op : {"ins", "del"}, pid : Pids]) /\ Len(fifo) <= FifoSize
  /\ tab \in Seq(Nat) /\ astray \subseteq Calls
  /\ reread \in {"no", "asked", "done"}

-----------------------------------------------------------------------------
\* The monitor.  Signals reach it in sigsuspend only.

MonitorLives == mpc \notin {"gone", "lost"}

StartListener ==
  /\ mpc = "fork" /\ forked < MaxForks
  /\ forked' = forked + 1 /\ need' = FALSE
  /\ lis' = [lis EXCEPT ![forked + 1] = "boot"]
  /\ mpc' = "wait"
  /\ UNCHANGED <<mpend, mflags, lfl, lint, sess, fifo, tab, astray, reread>>

ForkFails ==
  /\ mpc = "fork" /\ "monitor" \in Faults
  /\ mpc' = "exit"
  /\ UNCHANGED <<mpend, mflags, need, list, sess, fifo, tab, astray, reread>>

\* sigsuspend returns after the handlers of all that is pending.
Wake ==
  /\ mpc = "wait" /\ mpend # {}
  /\ mflags' = mpend /\ mpend' = {}
  /\ mpc' = "chld"
  /\ UNCHANGED <<need, list, sess, fifo, tab, astray, reread>>

Dead == {g \in Gens : lis[g] \in Exited}

\* SIGHUP: the monitor reads its files again.  One that is not there ends it
\* without Exit (fclose of NULL, exit in openFdlog), the listener goes on.
Reloaded ==
  {"io"} \cup IF "HUP" \in mflags /\ "reload" \in Faults THEN {"lost"} ELSE {}

NoChild ==
  /\ mpc = "chld" /\ "CHLD" \notin mflags
  /\ mpc' \in Reloaded
  /\ UNCHANGED <<mpend, mflags, need, list, sess, fifo, tab, astray, reread>>

\* wait() sleeps until the listener has ended; the mutant does not sleep, and
\* takes what it has for an error.
WaitNot(g) == g = forked
WaitFor(g) == g \in Dead

\* Only an error of the listener has it started again.
Child ==
  /\ mpc = "chld" /\ "CHLD" \in mflags
  /\ \E g \in Gens :
       /\ WaitFor(g)
       /\ need' = (lis[g] \notin {"exit0", "killed"})
       /\ mpc' \in IF need' THEN Reloaded ELSE {"exit"}
       /\ lis' = IF g \in Dead THEN [lis EXCEPT ![g] = "reaped"] ELSE lis
  /\ UNCHANGED <<mpend, mflags, forked, lfl, lint, sess, fifo, tab, astray,
                 reread>>

\* read_fifo reads until nothing is left; the mutant reads one message.
MoreOne == FALSE
More == "IO" \in mflags

ReadFifo ==
  /\ mpc = "io" /\ "IO" \in mflags /\ fifo # <<>>
  /\ tab' = Receive(tab, Head(fifo))
  /\ fifo' = Tail(fifo)
  /\ mflags' = IF More THEN mflags ELSE mflags \ {"IO"}
  /\ UNCHANGED <<mpc, mpend, need, list, sess, astray, reread>>

\* The rest of the pass: SIGUSR1 (the table is written out) changes nothing
\* that is modelled here.
PassDone ==
  /\ mpc = "io" /\ ("IO" \notin mflags \/ fifo = <<>>)
  /\ mflags' = {}
  /\ mpc' = IF need THEN "fork" ELSE "wait"
  /\ UNCHANGED <<mpend, need, list, sess, fifo, tab, astray, reread>>

\* Exit: the pid file and the FIFO are removed.
MonitorExits ==
  /\ mpc = "exit"
  /\ mpc' = "gone"
  /\ UNCHANGED <<mpend, mflags, need, list, sess, fifo, tab, astray, reread>>

Monitor ==
  \/ StartListener \/ ForkFails \/ Wake \/ NoChild \/ Child \/ ReadFifo
  \/ PassDone \/ MonitorExits

-----------------------------------------------------------------------------
\* The listener.  Its flags are looked at when accept() is interrupted only.

\* What the end of process g means: SIGCHLD for the monitor, and its sessions
\* have no parent any more that would wait for them.
Ends(g, how) ==
  /\ lis' = [lis EXCEPT ![g] = how]
  /\ mpend' = mpend \cup {"CHLD"}
  /\ ses' = [c \in Calls |-> IF par[c] = g /\ ses[c] = "zombie" THEN "gone"
                             ELSE ses[c]]

Boot(g) ==
  /\ lis[g] = "boot"
  /\ lis' = [lis EXCEPT ![g] = "open"]
  /\ UNCHANGED <<mon, forked, lfl, lint, sess, fifo, tab, astray, reread>>

OpenListen(g) ==
  /\ lis[g] = "open"
  /\ lis' = [lis EXCEPT ![g] = "top"]
  /\ UNCHANGED <<mon, forked, lfl, lint, sess, fifo, tab, astray, reread>>

\* Exit(1): the socket cannot be opened, accept or fork fails.
Fails(g) ==
  /\ lis[g] = "open" \/ (lis[g] = "accept" /\ ~lint[g])
  /\ "listener" \in Faults /\ forked < MaxForks
  /\ Ends(g, "exit1")
  /\ UNCHANGED <<mpc, mflags, need, forked, lfl, lint, pid, par, fifo, tab,
                 astray, reread>>

Accept(g) ==
  /\ lis[g] = "top"
  /\ lis' = [lis EXCEPT ![g] = "accept"]
  /\ UNCHANGED <<mon, forked, lfl, lint, sess, fifo, tab, astray, reread>>

\* A call: a session is forked, and the listener goes back to accept.
Accepted(g, c) ==
  /\ lis[g] = "accept" /\ ~lint[g] /\ ses[c] = "none"
  /\ \E p \in Pids :
       /\ \A d \in Calls : pid[d] = p => ses[d] \notin InUse
       /\ pid' = [pid EXCEPT ![c] = p]
  /\ ses' = [ses EXCEPT ![c] = "new"]
  /\ par' = [par EXCEPT ![c] = g]
  /\ lis' = [lis EXCEPT ![g] = "top"]
  /\ UNCHANGED <<mon, forked, lfl, lint, fifo, tab, astray, reread>>

Interrupted(g) ==
  /\ lis[g] = "accept" /\ lint[g]
  /\ lis' = [lis EXCEPT ![g] = "reap"]
  /\ lint' = [lint EXCEPT ![g] = FALSE]
  /\ UNCHANGED <<mon, forked, lfl, sess, fifo, tab, astray, reread>>

\* do_inter, first the children that have ended: they are waited for, and then
\* Flag_Chld is reset, also when a child has ended between the two ...
Reap(g) ==
  /\ lis[g] = "reap" /\ "CHLD" \in lfl[g]
  /\ ses' = [c \in Calls |-> IF par[c] = g /\ ses[c] = "zombie" THEN "gone"
                             ELSE ses[c]]
  /\ lis' = [lis EXCEPT ![g] = "clear"]
  /\ UNCHANGED <<mon, forked, lfl, lint, pid, par, fifo, tab, astray, reread>>

ClearChld(g) ==
  /\ lis[g] = "clear"
  /\ lfl' = [lfl EXCEPT ![g] = @ \ {"CHLD"}]
  /\ lis' = [lis EXCEPT ![g] = "inter"]
  /\ UNCHANGED <<mon, forked, lint, sess, fifo, tab, astray, reread>>

NoReap(g) ==
  /\ lis[g] = "reap" /\ "CHLD" \notin lfl[g]
  /\ lis' = [lis EXCEPT ![g] = "inter"]
  /\ UNCHANGED <<mon, forked, lfl, lint, sess, fifo, tab, astray, reread>>

\* ... then the configuration and the stop; the mutant does not stop.
StopsNot(g) == FALSE
Stops(g) == "EXIT" \in lfl[g]

Inter(g) ==
  /\ lis[g] = "inter"
  /\ lfl' = [lfl EXCEPT ![g] = @ \ {"HUP", "EXIT"}]
  /\ reread' = IF "HUP" \in lfl[g] /\ reread = "asked" THEN "done" ELSE reread
  /\ IF Stops(g) THEN Ends(g, "exit0")
     ELSE lis' = [lis EXCEPT ![g] = "top"] /\ UNCHANGED <<mpend, ses>>
  /\ UNCHANGED <<mpc, mflags, need, forked, lint, pid, par, fifo, tab, astray>>

\* A reload that fails ends the listener: an error for the monitor if the log
\* cannot be opened, else, without a configuration, a kill.
ReloadEnds(g) ==
  /\ lis[g] = "inter" /\ "HUP" \in lfl[g] /\ "reload" \in Faults
  /\ \/ Ends(g, "exit1") /\ forked < MaxForks
     \/ Ends(g, "killed")
  /\ UNCHANGED <<mpc, mflags, need, forked, lfl, lint, pid, par, fifo, tab,
                 astray, reread>>

Listener(g) ==
  \/ Boot(g) \/ OpenListen(g) \/ Fails(g) \/ Accept(g)
  \/ Interrupted(g) \/ Reap(g) \/ ClearChld(g) \/ NoReap(g)
  \/ Inter(g) \/ ReloadEnds(g)

-----------------------------------------------------------------------------
\* The sessions, as the table and the listener see them.

\* A handler of the listener runs: the flag, and the end of a sleeping accept.
Handler(g, s) ==
  /\ lfl' = [lfl EXCEPT ![g] = @ \cup {s}]
  /\ lint' = [lint EXCEPT ![g] = @ \/ lis[g] = "accept"]

\* send_pts_addr: the write does not sleep, and fails when the FIFO is full;
\* the mutant writes all the same.
FitsAlways == TRUE
Fits == Len(fifo) < FifoSize

\* The FIFO is O_ASYNC and the monitor's (open_fifo_rd): what is written to it
\* raises SIGIO.  In the mutant it does not.
RaisesNothing == UNCHANGED mpend
RaisesIo == mpend' = mpend \cup {"IO"}

Send(c, m) ==
  IF Fits
  THEN /\ fifo' = Append(fifo, m)
       /\ RaisesIo
       /\ UNCHANGED astray
  ELSE astray' = astray \cup {c} /\ UNCHANGED <<fifo, mpend>>

\* open_fifo_wr fails once the monitor has removed the FIFO.
Announce(c) ==
  /\ ses[c] = "new"
  /\ IF mpc # "gone"
     THEN ses' = [ses EXCEPT ![c] = "listed"] /\ Send(c, Insert(pid[c]))
     ELSE ses' = [ses EXCEPT ![c] = "plain"] /\ UNCHANGED <<fifo, mpend, astray>>
  /\ UNCHANGED <<mpc, mflags, need, list, pid, par, tab, reread>>

Withdraw(c) ==
  /\ ses[c] = "listed"
  /\ ses' = [ses EXCEPT ![c] = "left"]
  /\ Send(c, Delete(pid[c]))
  /\ UNCHANGED <<mpc, mflags, need, list, pid, par, tab, reread>>

\* The process ends: regularly, before it is listed, or killed by SIGPIPE.
SessionEnds(c) ==
  /\ \/ ses[c] \in {"left", "plain"} /\ UNCHANGED astray
     \/ ses[c] = "new" /\ "session" \in Faults /\ UNCHANGED astray
     \/ ses[c] = "listed" /\ "session" \in Faults /\ astray' = astray \cup {c}
  /\ IF lis[par[c]] \in Alive
     THEN ses' = [ses EXCEPT ![c] = "zombie"] /\ Handler(par[c], "CHLD")
     ELSE ses' = [ses EXCEPT ![c] = "gone"] /\ UNCHANGED <<lfl, lint>>
  /\ UNCHANGED <<mon, forked, lis, pid, par, fifo, tab, reread>>

Sessions == \E c \in Calls : Announce(c) \/ Withdraw(c) \/ SessionEnds(c)

-----------------------------------------------------------------------------
\* The operator.

Up == {g \in Gens : lis[g] \in Alive}

\* The stop command, SIGTERM to the group.  The monitor blocks it; a listener
\* that has not yet set its handlers is killed.
Stop ==
  /\ "TERM" \in External /\ MonitorLives
  /\ \E g \in Up :
       IF lis[g] = "boot"
       THEN Ends(g, "killed") /\ UNCHANGED <<lfl, lint>>
       ELSE Handler(g, "EXIT") /\ UNCHANGED <<lis, mpend, ses>>
  /\ UNCHANGED <<mpc, mflags, need, forked, pid, par, fifo, tab, astray, reread>>

\* The reread command, SIGUSR1 to the group: the monitor writes the table out,
\* and the listener, which has the same handler, is interrupted.
Reread ==
  /\ "USR1" \in External /\ MonitorLives
  /\ mpend' = mpend \cup {"USR1"}
  /\ lint' = [g \in Gens |-> lint[g] \/ lis[g] = "accept"]
  /\ reread' = "asked"
  /\ UNCHANGED <<mpc, mflags, need, forked, lis, lfl, sess, fifo, tab, astray>>

Hangup ==
  /\ "HUP" \in External /\ MonitorLives
  /\ mpend' = mpend \cup {"HUP"}
  /\ lfl' = [g \in Gens |-> lfl[g] \cup IF g \in Up THEN {"HUP"} ELSE {}]
  /\ lint' = [g \in Gens |-> lint[g] \/ lis[g] = "accept"]
  /\ UNCHANGED <<mpc, mflags, need, forked, lis, sess, fifo, tab, astray,
                 reread>>

\* The listener is stopped, or goes on: SIGCHLD with nobody to wait for.
Suspended ==
  /\ "STOP" \in External /\ Up # {}
  /\ mpend' = mpend \cup {"CHLD"}
  /\ UNCHANGED <<mpc, mflags, need, list, sess, fifo, tab, astray, reread>>

Operator == Stop \/ Reread \/ Hangup \/ Suspended

Incoming == \E g \in Gens, c \in Calls : Accepted(g, c)

Next ==
  \/ Monitor \/ (\E g \in Gens : Listener(g)) \/ Incoming
  \/ Sessions \/ Operator

Spec == Init /\ [][Next]_dvars

\* Every process is scheduled; calls come, sessions end and the operator acts
\* when they like.
FairSpec ==
  /\ Spec /\ WF_dvars(Monitor)
  /\ \A g \in Gens : WF_dvars(Listener(g))

-----------------------------------------------------------------------------
\* A message never lies in the FIFO unnoticed: SIGIO is pending, or the
\* monitor is about to read, up to its exit (read_fifo's loop, O_ASYNC).
FifoNoticed ==
  fifo # <<>> => \/ mpc \in {"exit", "gone", "lost"} \/ "IO" \in mpend
                 \/ "IO" \in mflags /\ mpc \in {"chld", "io"}

\* The monitor sleeps in wait() for a listener that was only stopped.
WaitsForNobody == mpc = "chld" /\ "CHLD" \in mflags /\ Dead = {}

\* What is sent to the monitor is read, whatever signals come with it, unless
\* the monitor ends or a SIGCHLD that told of no exit has it wait for a listener
\* that lives (do_monitor, read_fifo).
MessagesRead ==
  fifo # <<>> ~> fifo = <<>> \/ ~MonitorLives \/ WaitsForNobody

\* The table once the monitor has read all that was sent.
Settled == ReceiveAll(tab, fifo)

\* No message of a session with this number went astray.
Sound(p) == \A c \in astray : pid[c] # p

\* The table has each listed session once and none that has withdrawn, also
\* when slots and process ids are used again (ins_entry, clean_entry).
TableFollows ==
  \A c \in Calls : Sound(pid[c]) =>
    /\ ses[c] = "listed" => Cardinality(Slots(Settled, Stored(pid[c]))) = 1
    /\ ses[c] = "left" => Slots(Settled, Stored(pid[c])) = {}

\* The pts-addr table is a register of the sessions in service: also a number
\* that has had a message lost is right again for the next session that has it
\* (ins_entry, clean_entry, which frees every slot of a number).  A number is
\* entered if it is in the table or will be, and is not taken out after that.
InOrAhead(p) == Slots(tab, Stored(p)) # {} \/ \E i \in DOMAIN fifo : fifo[i] = Insert(p)
NotTakenOut(p) ==
  \A i \in DOMAIN fifo :
    fifo[i] = Delete(p) => \E j \in DOMAIN fifo : j > i /\ fifo[j] = Insert(p)

Told    == {pid[c] : c \in {d \in Calls : ses[d] = "listed"}}
Entered == {p \in Pids : InOrAhead(p) /\ NotTakenOut(p)}
Wrong   == {pid[c] : c \in astray}

Register == INSTANCE PtsRegister
  WITH Ids <- Pids, told <- Told, entered <- Entered, wrong <- Wrong
RegisterKept == Register!RegisterSpec

\* The monitor never has two listeners at the same address, not even after a
\* SIGCHLD that told of no exit (monitor.c 87-101).
OneListener == \A g, h \in Up : g = h

\* Neither a monitor nor a listener is left.
Down == ~MonitorLives /\ Up = {}

\* The listener has failed in a reload with its stop still to be looked at.
StopUnread(g) == lis[g] \notin Alive /\ {"HUP", "EXIT"} \subseteq lfl[g]

\* A stop that finds the listener in accept() ends the daemon, restarts and
\* calls that come notwithstanding, unless a reload that came with it fails
\* and is taken for an error (do_inter, do_monitor).
StopHeard ==
  \A g \in Gens : lis[g] = "accept" /\ lint[g] /\ "EXIT" \in lfl[g]
                    ~> Down \/ StopUnread(g)

\* cmdopt.c 24, "stop - stop deamon": wherever it finds the listener.
StopStops == \A g \in Gens : "EXIT" \in lfl[g] ~> Down

\* cmdopt.c 25, "reread - reread cfg file": it is read after the command.
RereadReads == reread = "asked" ~> reread = "done" \/ mpc = "gone"
=============================================================================
