---------------------------- MODULE DaemonProofs ----------------------------
(***************************************************************************)
(* Proofs about the daemon, for any number of calls, process ids and       *)
(* restarts and any size of the FIFO.                                      *)
(***************************************************************************)
EXTENDS Daemon, Recursion

-----------------------------------------------------------------------------
\* A message in the FIFO is announced: FifoNoticed is inductive as it stands.

\* Every step keeps what lies in the FIFO announced.
LEMMA NoticedStep == ASSUME FifoNoticed, [Next]_dvars PROVE FifoNoticed'
<1> USE DEF FifoNoticed
<1>1. CASE UNCHANGED dvars
  BY <1>1 DEF dvars, mon
<1>2. CASE Monitor
  <2>1. CASE StartListener
    BY <2>1 DEF StartListener
  <2>2. CASE ForkFails
    BY <2>2 DEF ForkFails
  <2>3. CASE Wake
    BY <2>3 DEF Wake
  <2>4. CASE NoChild
    BY <2>4 DEF NoChild, Reloaded
  <2>5. CASE Child
    BY <2>5 DEF Child, Reloaded
  <2>6. CASE ReadFifo
    BY <2>6 DEF ReadFifo, More
  <2>7. CASE PassDone
    BY <2>7 DEF PassDone
  <2>8. CASE MonitorExits
    BY <2>8 DEF MonitorExits
  <2> QED
    BY <1>2, <2>1, <2>2, <2>3, <2>4, <2>5, <2>6, <2>7, <2>8 DEF Monitor
<1>3. ASSUME NEW g \in Gens, Listener(g) PROVE FifoNoticed'
  <2>1. CASE Boot(g)
    BY <2>1 DEF Boot, mon
  <2>2. CASE OpenListen(g)
    BY <2>2 DEF OpenListen, mon
  <2>3. CASE Fails(g)
    BY <2>3 DEF Fails, Ends
  <2>4. CASE Accept(g)
    BY <2>4 DEF Accept, mon
  <2>5. CASE Interrupted(g)
    BY <2>5 DEF Interrupted, mon
  <2>6. CASE Reap(g)
    BY <2>6 DEF Reap, mon
  <2>7. CASE ClearChld(g)
    BY <2>7 DEF ClearChld, mon
  <2>8. CASE NoReap(g)
    BY <2>8 DEF NoReap, mon
  <2>9. CASE Inter(g)
    BY <2>9 DEF Inter, Ends
  <2>10. CASE ReloadEnds(g)
    BY <2>10 DEF ReloadEnds, Ends
  <2> QED
    BY <1>3, <2>1, <2>2, <2>3, <2>4, <2>5, <2>6, <2>7, <2>8, <2>9, <2>10
       DEF Listener
<1>4. CASE Incoming
  BY <1>4 DEF Incoming, Accepted, mon
<1>5. ASSUME NEW c \in Calls, Announce(c) \/ Withdraw(c) \/ SessionEnds(c)
      PROVE  FifoNoticed'
  <2>1. CASE Announce(c)
    BY <2>1 DEF Announce, Send, RaisesIo
  <2>2. CASE Withdraw(c)
    BY <2>2 DEF Withdraw, Send, RaisesIo
  <2>3. CASE SessionEnds(c)
    BY <2>3 DEF SessionEnds, mon
  <2> QED
    BY <1>5, <2>1, <2>2, <2>3
<1>6. CASE Operator
  <2>1. CASE Stop
    BY <2>1 DEF Stop, Ends
  <2>2. CASE Reread
    BY <2>2 DEF Reread
  <2>3. CASE Hangup
    BY <2>3 DEF Hangup
  <2>4. CASE Suspended
    BY <2>4 DEF Suspended
  <2> QED
    BY <1>6, <2>1, <2>2, <2>3, <2>4 DEF Operator
<1> QED
  BY <1>1, <1>2, <1>3, <1>4, <1>5, <1>6 DEF Next, Sessions

\* No message for the pts-addr table lies in the FIFO without the monitor
\* being told of it (pts_addr.c, O_ASYNC and the loop of read_fifo).
THEOREM MessagesNoticed == Spec => []FifoNoticed
<1>1. Init => FifoNoticed
  BY DEF Init, FifoNoticed
<1>2. FifoNoticed /\ [Next]_dvars => FifoNoticed'
  BY NoticedStep
<1> QED
  BY <1>1, <1>2, PTL DEF Spec

-----------------------------------------------------------------------------
\* One listener at a time.  A listener that lives, or has ended and was not yet
\* waited for, is the last one started; when one is to be started there is none.

ListenerInv ==
  /\ lis \in [Gens -> {"none", "reaped"} \cup Alive \cup Exited]
  /\ forked \in 0..MaxForks
  /\ \A g \in Gens : lis[g] \in Alive \cup Exited => g = forked
  /\ need \/ mpc = "fork" => \A g \in Gens : lis[g] \notin Alive \cup Exited

\* A step of a live listener that starts none, its end included.
LEMMA ListenerLives ==
  ASSUME ListenerInv, UNCHANGED <<forked, need, mpc>>, NEW g \in Gens,
         lis[g] \in Alive, NEW s \in Alive \cup Exited,
         lis' = [lis EXCEPT ![g] = s]
  PROVE  ListenerInv'
<1>1. lis' \in [Gens -> {"none", "reaped"} \cup Alive \cup Exited]
  BY DEF ListenerInv
<1>2. g = forked /\ ~need
  BY DEF ListenerInv
<1>3. mpc # "fork"
  BY DEF ListenerInv
<1>4. \A h \in Gens : lis'[h] \in Alive \cup Exited => h = forked
  BY <1>2 DEF ListenerInv
<1> QED
  BY <1>1, <1>2, <1>3, <1>4 DEF ListenerInv

\* A step that touches no listener and asks for none.
LEMMA ListenerSame ==
  ASSUME ListenerInv, UNCHANGED <<forked, lis, need>>,
         mpc' = "fork" => need \/ mpc = "fork"
  PROVE  ListenerInv'
  BY DEF ListenerInv, Gens, Alive, Exited
\* A step of the monitor: only the fork makes a listener live, and it is only
\* reached when the last one has been waited for.
LEMMA MonitorStep == ASSUME ListenerInv, Monitor PROVE ListenerInv'
<1>1. CASE StartListener
  <2>1. forked' = forked + 1 /\ forked' \in Gens /\ forked' \in 0..MaxForks
    BY <1>1, DaemonAssumption DEF StartListener, ListenerInv, Gens
  <2>2. lis' = [lis EXCEPT ![forked'] = "boot"] /\ mpc' = "wait" /\ need' = FALSE
    BY <1>1, <2>1 DEF StartListener
  <2>3. lis' \in [Gens -> {"none", "reaped"} \cup Alive \cup Exited]
    BY <2>1, <2>2 DEF ListenerInv, Alive
  <2>4. \A g \in Gens : lis[g] \notin Alive \cup Exited
    BY <1>1 DEF StartListener, ListenerInv
  <2>5. \A g \in Gens : g # forked' => lis'[g] = lis[g]
    BY <2>1, <2>2 DEF ListenerInv
  <2> QED
    BY <2>1, <2>2, <2>3, <2>4, <2>5 DEF ListenerInv
<1>2. CASE ForkFails
  BY <1>2, ListenerSame DEF ForkFails, list
<1>3. CASE Wake
  BY <1>3, ListenerSame DEF Wake, list
<1>4. CASE NoChild
  BY <1>4, ListenerSame DEF NoChild, Reloaded, list
<1>5. CASE Child
  <2>1. PICK g \in Gens :
          /\ g \in Dead
          /\ mpc' \in {"io", "lost", "exit"}
          /\ lis' = [lis EXCEPT ![g] = "reaped"]
    BY <1>5 DEF Child, WaitFor, Reloaded
  <2>2. g = forked
    BY <2>1 DEF Dead, ListenerInv
  <2>3. lis' \in [Gens -> {"none", "reaped"} \cup Alive \cup Exited]
    BY <2>1 DEF ListenerInv
  <2>4. \A h \in Gens : lis'[h] \notin Alive \cup Exited
    BY <2>1, <2>2 DEF ListenerInv, Alive, Exited
  <2>5. forked' = forked
    BY <1>5 DEF Child
  <2> QED
    BY <2>1, <2>3, <2>4, <2>5 DEF ListenerInv
<1>6. CASE ReadFifo
  BY <1>6, ListenerSame DEF ReadFifo, list
<1>7. CASE PassDone
  BY <1>7, ListenerSame DEF PassDone, list
<1>8. CASE MonitorExits
  BY <1>8, ListenerSame DEF MonitorExits, list
<1> QED
  BY <1>1, <1>2, <1>3, <1>4, <1>5, <1>6, <1>7, <1>8 DEF Monitor

\* A step of a listener.
LEMMA ListenerStep ==
  ASSUME ListenerInv, NEW g \in Gens, Listener(g)
  PROVE  ListenerInv'
<1>1. CASE Boot(g)
  BY <1>1, ListenerLives DEF Boot, mon, Alive
<1>2. CASE OpenListen(g)
  BY <1>2, ListenerLives DEF OpenListen, mon, Alive
<1>3. CASE Fails(g)
  BY <1>3, ListenerLives DEF Fails, Ends, Alive, Exited
<1>4. CASE Accept(g)
  BY <1>4, ListenerLives DEF Accept, mon, Alive
<1>5. CASE Interrupted(g)
  BY <1>5, ListenerLives DEF Interrupted, mon, Alive
<1>6. CASE Reap(g)
  BY <1>6, ListenerLives DEF Reap, mon, Alive
<1>7. CASE ClearChld(g)
  BY <1>7, ListenerLives DEF ClearChld, mon, Alive
<1>8. CASE NoReap(g)
  BY <1>8, ListenerLives DEF NoReap, mon, Alive
<1>9. CASE Inter(g)
  BY <1>9, ListenerLives DEF Inter, Ends, mon, Alive, Exited
<1>10. CASE ReloadEnds(g)
  BY <1>10, ListenerLives DEF ReloadEnds, Ends, Alive, Exited
<1> QED
  BY <1>1, <1>2, <1>3, <1>4, <1>5, <1>6, <1>7, <1>8, <1>9, <1>10 DEF Listener

\* A step of the operator: a stop may kill a listener that has no handlers yet.
LEMMA OperatorStep == ASSUME ListenerInv, Operator PROVE ListenerInv'
<1>1. CASE Stop
  <2>1. PICK g \in Up :
          IF lis[g] = "boot" THEN lis' = [lis EXCEPT ![g] = "killed"]
          ELSE lis' = lis
    BY <1>1 DEF Stop, Ends
  <2>2. g \in Gens /\ lis[g] \in Alive
    BY <2>1 DEF Up
  <2>3. UNCHANGED <<forked, need, mpc>>
    BY <1>1 DEF Stop
  <2> QED
    BY <2>1, <2>2, <2>3, ListenerLives, ListenerSame DEF Exited
<1>2. CASE Reread
  BY <1>2, ListenerSame DEF Reread
<1>3. CASE Hangup
  BY <1>3, ListenerSame DEF Hangup
<1>4. CASE Suspended
  BY <1>4, ListenerSame DEF Suspended, list
<1> QED
  BY <1>1, <1>2, <1>3, <1>4 DEF Operator

\* Every step keeps the listeners apart.
LEMMA DaemonStep == ASSUME ListenerInv, [Next]_dvars PROVE ListenerInv'
<1>1. CASE UNCHANGED dvars
  BY <1>1, ListenerSame DEF dvars, mon, list
<1>2. CASE Incoming
  <2>1. PICK g \in Gens, c \in Calls : Accepted(g, c)
    BY <1>2 DEF Incoming
  <2> QED
    BY <2>1, ListenerLives DEF Accepted, mon, Alive
<1>3. CASE Sessions
  <2>1. PICK c \in Calls : Announce(c) \/ Withdraw(c) \/ SessionEnds(c)
    BY <1>3 DEF Sessions
  <2>2. UNCHANGED <<forked, lis, need, mpc>>
    BY <2>1 DEF Announce, Withdraw, SessionEnds, list, mon
  <2> QED
    BY <2>2, ListenerSame
<1> QED
  BY <1>1, <1>2, <1>3, MonitorStep, ListenerStep, OperatorStep DEF Next

\* The monitor starts a listener only when the last one has ended, so that two
\* never meet at one address (monitor.c, flag_need_start and wait).
THEOREM NeverTwoListeners == Spec => []OneListener
<1>1. Init => ListenerInv
  BY DaemonAssumption DEF Init, ListenerInv, Gens, Alive, Exited
<1>2. ListenerInv /\ [Next]_dvars => ListenerInv'
  BY DaemonStep
<1>3. ListenerInv => OneListener
  BY DEF ListenerInv, OneListener, Up
<1> QED
  BY <1>1, <1>2, <1>3, PTL DEF Spec
-----------------------------------------------------------------------------
\* Type correctness.

Message == [op : {"ins", "del"}, pid : Pids]

\* What is stored of a process id is a number.
LEMMA StoredType == ASSUME NEW p \in Nat PROVE Stored(p) \in Nat
  BY DEF Stored, MaxPid

\* The table stays a list of numbers, whatever message comes.
LEMMA ReceiveType ==
  ASSUME NEW t \in Seq(Nat), NEW m \in Message
  PROVE  Receive(t, m) \in Seq(Nat)
<1>1. m.pid \in Nat /\ Stored(m.pid) \in Nat
  BY DaemonAssumption, StoredType DEF Message
<1>2. InsEntry(t, m.pid) \in Seq(Nat)
  <2>1. CASE FindFree(t) <= Len(t)
    <3>1. InsEntry(t, m.pid) = [t EXCEPT ![FindFree(t)] = Stored(m.pid)]
      BY <2>1 DEF InsEntry
    <3>2. t \in [1..Len(t) -> Nat]
      OBVIOUS
    <3>3. [t EXCEPT ![FindFree(t)] = Stored(m.pid)] \in [1..Len(t) -> Nat]
      BY <1>1, <3>2, Zenon
    <3> QED
      BY <3>1, <3>3
  <2>2. CASE ~(FindFree(t) <= Len(t))
    BY <1>1, <2>2 DEF InsEntry
  <2> QED
    BY <2>1, <2>2
<1>3. CleanEntry(t, m.pid) \in Seq(Nat)
  <2>1. CleanEntry(t, m.pid) \in [1..Len(t) -> Nat]
    BY DEF CleanEntry, Free
  <2> QED
    BY <2>1
<1> QED
  BY <1>2, <1>3 DEF Receive

\* What lies in the FIFO.
LEMMA FifoType ==
  TypeOK => /\ fifo \in Seq(Message) /\ Len(fifo) <= FifoSize
            /\ FifoSize \in Nat
  BY DaemonAssumption DEF TypeOK, Message

\* A message that is sent leaves a FIFO of messages that is not overfull.
LEMMA SendType ==
  ASSUME TypeOK, NEW c \in Calls, NEW m \in Message, Send(c, m)
  PROVE  /\ fifo' \in Seq(Message) /\ Len(fifo') <= FifoSize
         /\ mpend' \subseteq {"CHLD", "HUP", "IO", "USR1"}
         /\ astray' \subseteq Calls
<1>1. fifo \in Seq(Message) /\ Len(fifo) <= FifoSize /\ FifoSize \in Nat
  BY FifoType
<1>2. CASE Fits
  <2>1. Append(fifo, m) \in Seq(Message) /\ Len(Append(fifo, m)) = Len(fifo) + 1
    BY <1>1
  <2>2. Len(fifo) < FifoSize /\ Len(fifo) \in Nat
    BY <1>1, <1>2 DEF Fits
  <2>3. fifo' = Append(fifo, m) /\ mpend' = mpend \cup {"IO"} /\ astray' = astray
    BY <1>2 DEF Send, RaisesIo
  <2> QED
    BY <1>1, <2>1, <2>2, <2>3 DEF TypeOK
<1>3. CASE ~Fits
  BY <1>1, <1>3 DEF Send, RaisesIo, TypeOK
<1> QED
  BY <1>2, <1>3

\* A message from the FIFO.
LEMMA HeadType ==
  ASSUME TypeOK, fifo # <<>>
  PROVE  /\ Head(fifo) \in Message /\ Tail(fifo) \in Seq(Message)
         /\ Len(Tail(fifo)) <= FifoSize
<1>1. fifo \in Seq(Message) /\ Len(fifo) <= FifoSize /\ FifoSize \in Nat
  BY FifoType
<1>2. Len(Tail(fifo)) = Len(fifo) - 1 /\ Len(fifo) \in Nat
  BY <1>1
<1>3. Head(fifo) \in Message /\ Tail(fifo) \in Seq(Message)
  BY <1>1
<1> QED
  BY <1>1, <1>2, <1>3

\* The monitor keeps the types.
LEMMA MonitorType == ASSUME TypeOK, Monitor PROVE TypeOK'
<1> USE DEF TypeOK
<1>1. CASE StartListener
  <2>1. forked' \in 0..MaxForks
    BY <1>1, DaemonAssumption DEF StartListener
  <2>2. lis' \in [Gens -> {"none", "reaped"} \cup Alive \cup Exited]
    BY <1>1 DEF StartListener, Alive
  <2> QED
    BY <1>1, <2>1, <2>2 DEF StartListener, sess
<1>2. CASE ForkFails
  BY <1>2 DEF ForkFails, list, sess
<1>3. CASE Wake
  BY <1>3 DEF Wake, list, sess
<1>4. CASE NoChild
  BY <1>4 DEF NoChild, Reloaded, list, sess
<1>5. CASE Child
  <2>1. lis' \in [Gens -> {"none", "reaped"} \cup Alive \cup Exited]
    BY <1>5 DEF Child
  <2>2. need' \in BOOLEAN /\ mpc' \in {"io", "lost", "exit"}
    BY <1>5 DEF Child, Reloaded
  <2> QED
    BY <1>5, <2>1, <2>2 DEF Child, sess
<1>6. CASE ReadFifo
  <2>1. tab' \in Seq(Nat) /\ fifo' \in Seq(Message) /\ Len(fifo') <= FifoSize
    BY <1>6, HeadType, ReceiveType DEF ReadFifo
  <2>2. mflags' \subseteq {"CHLD", "HUP", "IO", "USR1"}
    BY <1>6 DEF ReadFifo
  <2> QED
    BY <1>6, <2>1, <2>2 DEF ReadFifo, list, sess, Message
<1>7. CASE PassDone
  BY <1>7 DEF PassDone, list, sess
<1>8. CASE MonitorExits
  BY <1>8 DEF MonitorExits, list, sess
<1> QED
  BY <1>1, <1>2, <1>3, <1>4, <1>5, <1>6, <1>7, <1>8 DEF Monitor

\* A process that ends leaves its place, a signal and no zombies.
LEMMA EndsType ==
  ASSUME TypeOK, NEW g \in Gens, NEW how \in Exited, Ends(g, how)
  PROVE  /\ lis' \in [Gens -> {"none", "reaped"} \cup Alive \cup Exited]
         /\ mpend' \subseteq {"CHLD", "HUP", "IO", "USR1"}
         /\ ses' \in [Calls -> {"none", "gone"} \cup InUse]
  BY DEF TypeOK, Ends

\* A handler leaves its flag.
LEMMA FlagType ==
  ASSUME TypeOK, NEW g \in Gens, NEW s \in {"CHLD", "EXIT"}, Handler(g, s)
  PROVE  /\ lfl' \in [Gens -> SUBSET {"CHLD", "HUP", "EXIT"}]
         /\ lint' \in [Gens -> BOOLEAN]
<1>1. lfl[g] \cup {s} \in SUBSET {"CHLD", "HUP", "EXIT"}
  BY DEF TypeOK
<1>2. (lint[g] \/ lis[g] = "accept") \in BOOLEAN
  BY DEF TypeOK
<1> QED
  BY <1>1, <1>2 DEF TypeOK, Handler

\* A listener keeps the types.
LEMMA ListenerType ==
  ASSUME TypeOK, NEW g \in Gens, Listener(g)
  PROVE  TypeOK'
<1> USE DEF TypeOK
<1>1. CASE Boot(g)
  BY <1>1 DEF Boot, mon, sess, Alive
<1>2. CASE OpenListen(g)
  BY <1>2 DEF OpenListen, mon, sess, Alive
<1>3. CASE Fails(g)
  <2>1. Ends(g, "exit1") /\ "exit1" \in Exited
    BY <1>3 DEF Fails, Exited
  <2> QED
    BY <1>3, <2>1, EndsType DEF Fails
<1>4. CASE Accept(g)
  BY <1>4 DEF Accept, mon, sess, Alive
<1>5. CASE Interrupted(g)
  BY <1>5 DEF Interrupted, mon, sess, Alive
<1>6. CASE Reap(g)
  <2>1. ses' \in [Calls -> {"none", "gone"} \cup InUse]
    BY <1>6 DEF Reap
  <2>2. lis' \in [Gens -> {"none", "reaped"} \cup Alive \cup Exited]
    BY <1>6 DEF Reap, Alive
  <2> QED
    BY <1>6, <2>1, <2>2 DEF Reap, mon
<1>7. CASE ClearChld(g)
  <2>1. lfl' \in [Gens -> SUBSET {"CHLD", "HUP", "EXIT"}]
    BY <1>7 DEF ClearChld
  <2>2. lis' \in [Gens -> {"none", "reaped"} \cup Alive \cup Exited]
    BY <1>7 DEF ClearChld, Alive
  <2> QED
    BY <1>7, <2>1, <2>2 DEF ClearChld, mon, sess
<1>8. CASE NoReap(g)
  BY <1>8 DEF NoReap, mon, sess, Alive
<1>9. CASE Inter(g)
  <2>1. lfl' \in [Gens -> SUBSET {"CHLD", "HUP", "EXIT"}]
    BY <1>9 DEF Inter
  <2>2. reread' \in {"no", "asked", "done"}
    BY <1>9 DEF Inter
  <2>3. /\ lis' \in [Gens -> {"none", "reaped"} \cup Alive \cup Exited]
        /\ mpend' \subseteq {"CHLD", "HUP", "IO", "USR1"}
        /\ ses' \in [Calls -> {"none", "gone"} \cup InUse]
    <3>1. CASE Stops(g)
      BY <1>9, <3>1, EndsType DEF Inter, Exited
    <3>2. CASE ~Stops(g)
      BY <1>9, <3>2 DEF Inter, Alive
    <3> QED
      BY <3>1, <3>2
  <2> QED
    BY <1>9, <2>1, <2>2, <2>3 DEF Inter
<1>10. CASE ReloadEnds(g)
  BY <1>10, EndsType DEF ReloadEnds, Exited
<1> QED
  BY <1>1, <1>2, <1>3, <1>4, <1>5, <1>6, <1>7, <1>8, <1>9, <1>10 DEF Listener

\* A session that has begun has a process id and a parent.
IdInv == \A c \in Calls : ses[c] # "none" => pid[c] \in Pids /\ par[c] \in Gens

\* A step that gives no call a session keeps the ids.
LEMMA IdSame ==
  ASSUME IdInv, UNCHANGED <<pid, par>>,
         \A c \in Calls : ses'[c] # "none" => ses[c] # "none"
  PROVE  IdInv'
  BY DEF IdInv

LEMMA IdStep == ASSUME TypeOK, IdInv, [Next]_dvars PROVE IdInv'
<1>1. ASSUME UNCHANGED sess PROVE IdInv'
  BY <1>1, IdSame DEF sess
<1>2. ASSUME NEW g \in Gens, NEW how, Ends(g, how), UNCHANGED <<pid, par>>
      PROVE  IdInv'
  <2>1. \A c \in Calls : ses'[c] # "none" => ses[c] # "none"
    BY <1>2 DEF Ends
  <2> QED
    BY <1>2, <2>1, IdSame
<1>3. CASE Monitor
  <2>1. UNCHANGED sess
    BY <1>3 DEF Monitor, StartListener, ForkFails, Wake, NoChild, Child, ReadFifo,
       PassDone, MonitorExits
  <2> QED
    BY <1>1, <2>1
<1>4. ASSUME NEW g \in Gens, Listener(g) PROVE IdInv'
  <2>1. CASE Boot(g) \/ OpenListen(g) \/ Accept(g) \/ Interrupted(g)
             \/ ClearChld(g) \/ NoReap(g)
    BY <2>1, <1>1 DEF Boot, OpenListen, Accept, Interrupted, ClearChld, NoReap
  <2>2. CASE Fails(g)
    BY <2>2, <1>2 DEF Fails
  <2>3. CASE Reap(g)
    <3>1. \A c \in Calls : ses'[c] # "none" => ses[c] # "none"
      BY <2>3 DEF Reap
    <3> QED
      BY <2>3, <3>1, IdSame DEF Reap
  <2>4. CASE Inter(g)
    <3>1. CASE Stops(g)
      BY <2>4, <3>1, <1>2 DEF Inter
    <3>2. CASE ~Stops(g)
      BY <2>4, <3>2, <1>1 DEF Inter, sess
    <3> QED
      BY <3>1, <3>2
  <2>5. CASE ReloadEnds(g)
    BY <2>5, <1>2 DEF ReloadEnds
  <2> QED
    BY <1>4, <2>1, <2>2, <2>3, <2>4, <2>5 DEF Listener
<1>5. ASSUME NEW g \in Gens, NEW c \in Calls, Accepted(g, c) PROVE IdInv'
  <2>1. PICK p \in Pids : pid' = [pid EXCEPT ![c] = p]
    BY <1>5 DEF Accepted
  <2>2. \A d \in Calls :
          /\ pid'[d] = (IF d = c THEN p ELSE pid[d])
          /\ par'[d] = (IF d = c THEN g ELSE par[d])
          /\ d # c => ses'[d] = ses[d]
    <3>1. /\ ses' = [ses EXCEPT ![c] = "new"]
          /\ ses \in [Calls -> {"none", "gone"} \cup InUse]
          /\ par' = [par EXCEPT ![c] = g] /\ par \in [Calls -> 0..MaxForks]
          /\ pid \in [Calls -> Pids \cup {Free}]
      BY <1>5 DEF Accepted, TypeOK
    <3> QED
      BY <2>1, <3>1
  <2>3. ASSUME NEW d \in Calls, ses'[d] # "none"
        PROVE  pid'[d] \in Pids /\ par'[d] \in Gens
    <3>1. CASE d = c
      BY <2>2, <3>1
    <3>2. CASE d # c
      BY <2>2, <2>3, <3>2 DEF IdInv
    <3> QED
      BY <3>1, <3>2
  <2> QED
    BY <2>3 DEF IdInv
<1>6. ASSUME NEW c \in Calls, Announce(c) \/ Withdraw(c) \/ SessionEnds(c)
      PROVE  IdInv'
  <2>1. ses[c] # "none" /\ UNCHANGED <<pid, par>>
    BY <1>6 DEF Announce, Withdraw, SessionEnds
  <2>2. \A d \in Calls : d # c => ses'[d] = ses[d]
    BY <1>6 DEF Announce, Withdraw, SessionEnds, TypeOK
  <2> QED
    BY <2>1, <2>2, IdSame
<1>7. CASE Operator
  <2>1. CASE Stop
    BY <2>1, <1>1, <1>2 DEF Stop, Up, sess
  <2>2. CASE Reread \/ Hangup \/ Suspended
    BY <2>2, <1>1 DEF Reread, Hangup, Suspended
  <2> QED
    BY <1>7, <2>1, <2>2 DEF Operator
<1> QED
  BY <1>1, <1>3, <1>4, <1>5, <1>6, <1>7 DEF Next, Sessions, Incoming, dvars

\* A session keeps the types.
LEMMA SessionStepType ==
  ASSUME TypeOK, IdInv, NEW c \in Calls,
         Announce(c) \/ Withdraw(c) \/ SessionEnds(c)
  PROVE  TypeOK'
<1>1. ses[c] # "none"
  BY DEF Announce, Withdraw, SessionEnds
<1>2. pid[c] \in Pids /\ par[c] \in Gens
  BY <1>1 DEF IdInv
<1>3. Insert(pid[c]) \in Message /\ Delete(pid[c]) \in Message
  BY <1>2 DEF Insert, Delete, Message
<1>4. CASE Announce(c)
  <2>1. ses' \in [Calls -> {"none", "gone"} \cup InUse]
    BY <1>4 DEF Announce, TypeOK, InUse
  <2>2. /\ fifo' \in Seq(Message) /\ Len(fifo') <= FifoSize
        /\ mpend' \subseteq {"CHLD", "HUP", "IO", "USR1"}
        /\ astray' \subseteq Calls
    <3>1. CASE mpc # "gone"
      BY <1>3, <1>4, <3>1, SendType DEF Announce
    <3>2. CASE mpc = "gone"
      BY <1>4, <3>2, FifoType DEF Announce, TypeOK
    <3> QED
      BY <3>1, <3>2
  <2> QED
    BY <1>4, <2>1, <2>2 DEF Announce, TypeOK, Message, list
<1>5. CASE Withdraw(c)
  <2>1. ses' \in [Calls -> {"none", "gone"} \cup InUse]
    BY <1>5 DEF Withdraw, TypeOK, InUse
  <2>2. /\ fifo' \in Seq(Message) /\ Len(fifo') <= FifoSize
        /\ mpend' \subseteq {"CHLD", "HUP", "IO", "USR1"}
        /\ astray' \subseteq Calls
    BY <1>3, <1>5, SendType DEF Withdraw
  <2> QED
    BY <1>5, <2>1, <2>2 DEF Withdraw, TypeOK, Message, list
<1>6. CASE SessionEnds(c)
  <2>1. ses' \in [Calls -> {"none", "gone"} \cup InUse]
    BY <1>6 DEF SessionEnds, TypeOK, InUse
  <2>2. astray' \subseteq Calls
    BY <1>6 DEF SessionEnds, TypeOK
  <2>3. /\ lfl' \in [Gens -> SUBSET {"CHLD", "HUP", "EXIT"}]
        /\ lint' \in [Gens -> BOOLEAN]
    <3>1. CASE lis[par[c]] \in Alive
      BY <1>2, <1>6, <3>1, FlagType DEF SessionEnds
    <3>2. CASE lis[par[c]] \notin Alive
      BY <1>6, <3>2 DEF SessionEnds, TypeOK
    <3> QED
      BY <3>1, <3>2
  <2> QED
    BY <1>6, <2>1, <2>2, <2>3 DEF SessionEnds, TypeOK, mon
<1> QED
  BY <1>4, <1>5, <1>6

\* A call keeps the types.
LEMMA CallType ==
  ASSUME TypeOK, NEW g \in Gens, NEW c \in Calls, Accepted(g, c)
  PROVE  TypeOK'
<1> USE DEF TypeOK
<1>1. pid' \in [Calls -> Pids \cup {Free}]
  BY DEF Accepted
<1>2. par' \in [Calls -> 0..MaxForks]
  BY DEF Accepted, Gens
<1>3. /\ ses' \in [Calls -> {"none", "gone"} \cup InUse]
      /\ lis' \in [Gens -> {"none", "reaped"} \cup Alive \cup Exited]
  BY DEF Accepted, InUse, Alive
<1> QED
  BY <1>1, <1>2, <1>3 DEF Accepted, mon

\* The operator keeps the types.
LEMMA OperatorType == ASSUME TypeOK, Operator PROVE TypeOK'
<1> USE DEF TypeOK
<1>1. CASE Stop
  <2>1. PICK g \in Gens :
          IF lis[g] = "boot" THEN Ends(g, "killed") /\ UNCHANGED <<lfl, lint>>
          ELSE Handler(g, "EXIT") /\ UNCHANGED <<lis, mpend, ses>>
    BY <1>1 DEF Stop, Up
  <2>2. CASE lis[g] = "boot"
    <3>1. "killed" \in Exited
      BY DEF Exited
    <3> QED
      BY <1>1, <2>1, <2>2, <3>1, EndsType DEF Stop
  <2>3. CASE lis[g] # "boot"
    BY <1>1, <2>1, <2>3, FlagType DEF Stop
  <2> QED
    BY <2>2, <2>3
<1>2. CASE Reread
  <2>1. lint' \in [Gens -> BOOLEAN]
    BY <1>2 DEF Reread
  <2> QED
    BY <1>2, <2>1 DEF Reread, sess
<1>3. CASE Hangup
  <2>1. lint' \in [Gens -> BOOLEAN]
    BY <1>3 DEF Hangup
  <2>2. lfl' \in [Gens -> SUBSET {"CHLD", "HUP", "EXIT"}]
    <3>1. \A g \in Gens :
            (lfl[g] \cup IF g \in Up THEN {"HUP"} ELSE {})
              \in SUBSET {"CHLD", "HUP", "EXIT"}
      OBVIOUS
    <3> QED
      BY <1>3, <3>1 DEF Hangup
  <2> QED
    BY <1>3, <2>1, <2>2 DEF Hangup, sess
<1>4. CASE Suspended
  BY <1>4 DEF Suspended, list, sess
<1> QED
  BY <1>1, <1>2, <1>3, <1>4 DEF Operator

\* Every step keeps the types.
LEMMA DaemonTypeStep == ASSUME TypeOK, IdInv, [Next]_dvars PROVE TypeOK'
<1>1. CASE UNCHANGED dvars
  BY <1>1 DEF dvars, mon, list, sess, TypeOK
<1>2. CASE \E g \in Gens, c \in Calls : Accepted(g, c)
  BY <1>2, CallType
<1>3. CASE \E c \in Calls : Announce(c) \/ Withdraw(c) \/ SessionEnds(c)
  BY <1>3, SessionStepType
<1>4. CASE \E g \in Gens : Listener(g)
  BY <1>4, ListenerType
<1>5. CASE Monitor \/ Operator
  BY <1>5, MonitorType, OperatorType
<1> QED
  BY <1>1, <1>2, <1>3, <1>4, <1>5 DEF Next, Incoming, Sessions

\* Every variable of the daemon keeps its kind, and the FIFO never holds more
\* than it can (monitor.c, pad_svr3.c, pts_addr.c).
THEOREM DaemonTypeCorrect == Spec => []TypeOK
<1>1. Init => TypeOK /\ IdInv
  BY DaemonAssumption DEF Init, TypeOK, IdInv, Free, Gens
<1>2. TypeOK /\ IdInv /\ [Next]_dvars => (TypeOK /\ IdInv)'
  BY IdStep, DaemonTypeStep
<1> QED
  BY <1>1, <1>2, PTL DEF Spec
-----------------------------------------------------------------------------
\* The pts-addr table.  ReceiveAll is a recursive function: what it gives for a
\* sequence is what the step by step reading of it gives.

\* A reading of q from the table t, message by message.
Reading(g, t, q) ==
  /\ g \in [0..Len(q) -> Seq(Nat)] /\ g[0] = t
  /\ \A n \in 1..Len(q) : g[n] = Receive(g[n - 1], q[n])

\* There is a reading, and ReceiveAll is the end of it.
LEMMA ReadingExists ==
  ASSUME NEW t \in Seq(Nat), NEW q \in Seq(Message)
  PROVE  \E g : Reading(g, t, q) /\ ReceiveAll(t, q) = g[Len(q)]
<1> DEFINE N == Len(q)
           h == [x \in (1..N) \X Seq(Nat) |-> Receive(x[2], q[x[1]])]
           D(g) == [n \in 0..N |->
                      IF n = 0 THEN t ELSE Receive(g[n - 1], q[n])]
<1>1. N \in Nat
  OBVIOUS
<1>2. h \in [(1..N) \X Seq(Nat) -> Seq(Nat)]
  <2>1. ASSUME NEW x \in (1..N) \X Seq(Nat)
        PROVE  Receive(x[2], q[x[1]]) \in Seq(Nat)
    <3>1. x[2] \in Seq(Nat) /\ q[x[1]] \in Message
      OBVIOUS
    <3>2. QED
      BY <3>1, ReceiveType
  <2>2. QED
    BY <2>1
<1>3. \A n \in 1..N : \A u \in Seq(Nat) : h[<<n, u>>] = Receive(u, q[n])
  OBVIOUS
<1> HIDE DEF h
<1>4. PICK g \in [0..N -> Seq(Nat)] : Steps(g, N, t, h)
  <2> HIDE DEF N
  <2>1. QED
    BY <1>1, <1>2, RecursionExists
<1>5. \A n \in 1..N : g[n - 1] \in Seq(Nat)
  OBVIOUS
<1>6. g[0] = t /\ \A n \in 1..N : g[n] = Receive(g[n - 1], q[n])
  <2> HIDE DEF N
  <2>1. QED
    BY <1>3, <1>4, <1>5 DEF Steps
<1>7. g = D(g)
  BY <1>6
<1> DEFINE a == CHOOSE f : f = D(f)
<1>8. a = D(a)
  BY <1>7
<1>9. ReceiveAll(t, q) = a[N]
  BY DEF ReceiveAll
<1> HIDE DEF a
<1>10. a[0] = t /\ \A n \in 1..N : a[n] = Receive(a[n - 1], q[n])
  BY <1>1, <1>8
<1>11. a \in [0..N -> Seq(Nat)]
  <2> DEFINE S == {n \in 0..N : a[n] \in Seq(Nat)}
  <2>1. 0 \in S
    BY <1>1, <1>10
  <2>2. ASSUME NEW n \in 0..(N - 1), n \in S PROVE n + 1 \in S
    <3>1. n + 1 \in 1..N /\ (n + 1) - 1 = n
      BY <1>1
    <3>2. a[n + 1] = Receive(a[n], q[n + 1]) /\ q[n + 1] \in Message
      BY <1>10, <3>1
    <3>3. a[n] \in Seq(Nat)
      BY <2>2
    <3>4. a[n + 1] \in Seq(Nat)
      BY <3>2, <3>3, ReceiveType
    <3>5. QED
      BY <3>1, <3>4
  <2>3. 0..N \subseteq S
    <3> HIDE DEF S, N
    <3>1. QED
      BY <1>1, <2>1, <2>2, InductionUpTo
  <2>4. QED
    BY <1>8, <2>3
<1>12. QED
  BY <1>9, <1>10, <1>11 DEF Reading

\* Any reading ends in what ReceiveAll gives.
LEMMA ReadingEnds ==
  ASSUME NEW t \in Seq(Nat), NEW q \in Seq(Message), NEW f, Reading(f, t, q)
  PROVE  f[Len(q)] = ReceiveAll(t, q) /\ ReceiveAll(t, q) \in Seq(Nat)
<1> DEFINE N == Len(q)
<1>1. PICK g : Reading(g, t, q) /\ ReceiveAll(t, q) = g[N]
  BY ReadingExists
<1> DEFINE S == {n \in 0..N : f[n] = g[n]}
<1>2. N \in Nat
  OBVIOUS
<1>3. 0 \in S
  BY <1>1, <1>2 DEF Reading
<1>4. ASSUME NEW n \in 0..(N - 1), n \in S PROVE n + 1 \in S
  <2>1. n + 1 \in 1..N /\ (n + 1) - 1 = n
    BY <1>2
  <2>2. /\ f[n + 1] = Receive(f[n], q[n + 1])
        /\ g[n + 1] = Receive(g[n], q[n + 1])
    BY <1>1, <2>1 DEF Reading
  <2>3. QED
    BY <1>4, <2>1, <2>2
<1>5. 0..N \subseteq S
  <2> HIDE DEF S, N
  <2>1. QED
    BY <1>2, <1>3, <1>4, InductionUpTo
<1>6. QED
  BY <1>1, <1>2, <1>5 DEF Reading

\* A message more is received last.
LEMMA ReceiveAppend ==
  ASSUME NEW t \in Seq(Nat), NEW q \in Seq(Message), NEW m \in Message
  PROVE  ReceiveAll(t, Append(q, m)) = Receive(ReceiveAll(t, q), m)
<1> DEFINE N == Len(q)
           r == Append(q, m)
<1>1. PICK g : Reading(g, t, q) /\ ReceiveAll(t, q) = g[N]
  BY ReadingExists
<1> DEFINE f == [n \in 0..(N + 1) |->
                   IF n = N + 1 THEN Receive(g[N], m) ELSE g[n]]
<1>2. /\ N \in Nat /\ Len(r) = N + 1 /\ r \in Seq(Message)
      /\ r[N + 1] = m /\ \A n \in 1..N : r[n] = q[n]
  OBVIOUS
<1>3. g[N] \in Seq(Nat) /\ Receive(g[N], m) \in Seq(Nat)
  <2>1. g[N] \in Seq(Nat)
    BY <1>1, <1>2 DEF Reading
  <2>2. QED
    BY <2>1, ReceiveType
<1>4. f[N + 1] = Receive(g[N], m) /\ \A n \in 0..N : f[n] = g[n]
  BY <1>2
<1>5. f \in [0..(N + 1) -> Seq(Nat)]
  BY <1>1, <1>2, <1>3 DEF Reading
<1> HIDE DEF f, r
<1>6. ASSUME NEW n \in 1..(N + 1) PROVE f[n] = Receive(f[n - 1], r[n])
  <2>1. n - 1 \in 0..N
    BY <1>2
  <2>2. CASE n = N + 1
    BY <1>2, <1>4, <2>1, <2>2
  <2>3. CASE n # N + 1
    <3>1. n \in 1..N /\ n \in 0..N
      BY <1>2, <2>3
    <3>2. g[n] = Receive(g[n - 1], q[n])
      BY <1>1, <3>1 DEF Reading
    <3>3. f[n] = g[n] /\ f[n - 1] = g[n - 1] /\ r[n] = q[n]
      BY <1>2, <1>4, <2>1, <3>1
    <3>4. QED
      BY <3>2, <3>3
  <2>4. QED
    BY <2>2, <2>3
<1>7. f[0] = t
  BY <1>1, <1>2, <1>4 DEF Reading
<1>8. Reading(f, t, r)
  BY <1>2, <1>5, <1>6, <1>7 DEF Reading
<1>9. f[N + 1] = ReceiveAll(t, r)
  BY <1>2, <1>8, ReadingEnds
<1>10. QED
  BY <1>1, <1>4, <1>9 DEF r

\* Receiving the first message and then the others is receiving all.
LEMMA ReceiveTail ==
  ASSUME NEW t \in Seq(Nat), NEW q \in Seq(Message), q # <<>>
  PROVE  ReceiveAll(Receive(t, Head(q)), Tail(q)) = ReceiveAll(t, q)
<1> DEFINE N == Len(q)
           r == Tail(q)
           u == Receive(t, Head(q))
<1>1. PICK g : Reading(g, t, q) /\ ReceiveAll(t, q) = g[N]
  BY ReadingExists
<1> DEFINE f == [n \in 0..(N - 1) |-> g[n + 1]]
<1>2. /\ N \in Nat /\ N >= 1 /\ Len(r) = N - 1 /\ r \in Seq(Message)
      /\ Head(q) = q[1] /\ Head(q) \in Message
      /\ \A n \in 1..(N - 1) : r[n] = q[n + 1]
  OBVIOUS
<1>3. u \in Seq(Nat)
  BY <1>2, ReceiveType
<1>4. g[1] = u
  BY <1>1, <1>2 DEF Reading
<1>5. \A n \in 0..(N - 1) : f[n] = g[n + 1]
  OBVIOUS
<1>6. f \in [0..(N - 1) -> Seq(Nat)]
  BY <1>1, <1>2 DEF Reading
<1> HIDE DEF f, r, u
<1>7. ASSUME NEW n \in 1..(N - 1) PROVE f[n] = Receive(f[n - 1], r[n])
  <2>1. n - 1 \in 0..(N - 1) /\ n + 1 \in 1..N /\ n \in 0..(N - 1)
    BY <1>2
  <2>2. g[n + 1] = Receive(g[n], q[n + 1])
    BY <1>1, <2>1 DEF Reading
  <2>3. f[n - 1] = g[n] /\ f[n] = g[n + 1]
    BY <1>5, <2>1
  <2>4. QED
    BY <1>2, <2>2, <2>3
<1>8. f[0] = u /\ f[N - 1] = g[N]
  BY <1>2, <1>4, <1>5
<1>9. Reading(f, u, r)
  BY <1>2, <1>6, <1>7, <1>8 DEF Reading
<1>10. f[N - 1] = ReceiveAll(u, r)
  BY <1>2, <1>3, <1>9, ReadingEnds
<1>11. QED
  BY <1>1, <1>8, <1>10 DEF r, u

\* Without a message nothing changes.
LEMMA ReceiveNone ==
  ASSUME NEW t \in Seq(Nat)
  PROVE  ReceiveAll(t, <<>>) = t
<1>1. <<>> \in Seq(Message) /\ Len(<<>>) = 0
  OBVIOUS
<1>2. PICK g : Reading(g, t, <<>>) /\ ReceiveAll(t, <<>>) = g[Len(<<>>)]
  BY <1>1, ReadingExists
<1>3. QED
  BY <1>1, <1>2 DEF Reading

-----------------------------------------------------------------------------
\* What one message does to the slots of a number.

\* The slot for a new entry is a free one or one more.
LEMMA FoundFree ==
  ASSUME NEW t \in Seq(Nat)
  PROVE  FindFree(t) \in FreeSlots(t) \/ FindFree(t) = Len(t) + 1
<1>1. CASE FreeSlots(t) = {}
  BY <1>1 DEF FindFree
<1>2. CASE FreeSlots(t) # {}
  <2>1. FreeSlots(t) \subseteq Nat
    BY DEF FreeSlots
  <2>2. \E i \in FreeSlots(t) : \A j \in FreeSlots(t) : i <= j
    BY <1>2, <2>1, LeastElement
  <2>3. FindFree(t) = CHOOSE i \in FreeSlots(t) :
                         \A j \in FreeSlots(t) : i <= j
    BY <1>2 DEF FindFree
  <2>4. QED
    BY <2>2, <2>3
<1>3. QED
  BY <1>1, <1>2

\* A process id of no more than MAXCHARPID digits is stored as it is.
LEMMA StoredWhole ==
  ASSUME NEW p \in 1..MaxPid
  PROVE  Stored(p) = p /\ p \in Nat
<1>1. p \in Nat /\ p <= MaxPid
  <2>1. MaxPid \in Int
    BY DEF MaxPid
  <2>2. QED
    BY <2>1
<1>2. QED
  BY <1>1, SMT DEF Stored

\* An insertion gives a number that was in no slot one, and takes it from no
\* other number.
LEMMA InsertSlots ==
  ASSUME NEW t \in Seq(Nat), NEW p \in 1..MaxPid
  PROVE  /\ Slots(t, p) = {} => \E i : Slots(InsEntry(t, p), p) = {i}
         /\ Slots(InsEntry(t, p), p) # {}
         /\ \A n \in Nat \ {Free, p} : Slots(InsEntry(t, p), n) = Slots(t, n)
<1> DEFINE k == FindFree(t)
           u == InsEntry(t, p)
<1>1. Stored(p) = p /\ p \in Nat /\ p # Free
  BY StoredWhole, SMT DEF Free
<1>2. k \in FreeSlots(t) \/ k = Len(t) + 1
  BY FoundFree
<1>3. CASE k \in FreeSlots(t)
  <2>1. k \in 1..Len(t) /\ t[k] = Free
    BY <1>3 DEF FreeSlots
  <2>2. u = [t EXCEPT ![k] = p]
    BY <1>1, <2>1 DEF InsEntry
  <2>3. Len(u) = Len(t) /\ \A i \in 1..Len(t) : u[i] = IF i = k THEN p ELSE t[i]
    BY <2>1, <2>2
  <2> HIDE DEF k, u
  <2>4. \A n \in Nat \ {Free, p} : Slots(u, n) = Slots(t, n)
    BY <2>1, <2>3 DEF Slots
  <2>5. Slots(t, p) = {} => Slots(u, p) = {k}
    BY <2>1, <2>3 DEF Slots
  <2>6. k \in Slots(u, p)
    BY <2>1, <2>3 DEF Slots
  <2>7. QED
    BY <2>4, <2>5, <2>6 DEF u
<1>4. CASE k = Len(t) + 1
  <2>1. u = Append(t, p)
    BY <1>1, <1>4 DEF InsEntry
  <2>2. /\ Len(u) = Len(t) + 1 /\ u[k] = p
        /\ \A i \in 1..Len(t) : u[i] = t[i]
    BY <1>1, <1>4, <2>1
  <2> HIDE DEF k, u
  <2>3. \A n \in Nat \ {Free, p} : Slots(u, n) = Slots(t, n)
    BY <1>4, <2>2 DEF Slots
  <2>4. Slots(t, p) = {} => Slots(u, p) = {k}
    BY <1>4, <2>2 DEF Slots
  <2>5. k \in Slots(u, p)
    BY <1>4, <2>2 DEF Slots
  <2>6. QED
    BY <2>3, <2>4, <2>5 DEF u
<1>5. QED
  BY <1>2, <1>3, <1>4

\* A deletion frees every slot of a number, and none of another.
LEMMA DeleteSlots ==
  ASSUME NEW t \in Seq(Nat), NEW p \in 1..MaxPid
  PROVE  /\ Slots(CleanEntry(t, p), p) = {}
         /\ \A n \in Nat \ {Free, p} : Slots(CleanEntry(t, p), n) = Slots(t, n)
<1> DEFINE u == CleanEntry(t, p)
<1>1. /\ u \in Seq(Nat) /\ Len(u) = Len(t)
      /\ \A i \in 1..Len(t) : u[i] = IF t[i] = p THEN Free ELSE t[i]
  <2>1. u = [i \in 1..Len(t) |-> IF t[i] = p THEN Free ELSE t[i]]
    BY DEF CleanEntry
  <2>2. u \in [1..Len(t) -> Nat]
    BY <2>1 DEF Free
  <2>3. QED
    BY <2>1, <2>2
<1> HIDE DEF u
<1>2. p # Free
  BY DEF Free
<1>3. Slots(u, p) = {}
  BY <1>1, <1>2 DEF Slots
<1>4. \A n \in Nat \ {Free, p} : Slots(u, n) = Slots(t, n)
  BY <1>1 DEF Slots
<1>5. QED
  BY <1>3, <1>4 DEF u
-----------------------------------------------------------------------------
\* The table, once all that was sent is read, has a slot for each number that a
\* listed session has and no slot for any other, unless a message of a session
\* with the number went astray.  A number is in use once.

Listed(p) == \E c \in Calls : ses[c] = "listed" /\ pid[c] = p
OneSlot(p) == \E i : Slots(Settled, p) = {i}

TableInv ==
  /\ \A c \in astray : ses[c] # "none"
  /\ \A c, d \in Calls :
       ses[c] \in InUse /\ ses[d] \in InUse /\ pid[c] = pid[d] => c = d
  /\ \A p \in Pids : Sound(p) =>
       /\ Listed(p) => OneSlot(p)
       /\ ~Listed(p) => Slots(Settled, p) = {}

\* A step that leaves the settled table alone, and lists or withdraws no session
\* but one whose message goes astray.
LEMMA TableQuiet ==
  ASSUME TableInv, Settled' = Settled, pid' = pid, astray \subseteq astray',
         \A c \in astray' : ses'[c] # "none",
         \A c \in Calls : ses'[c] \in InUse => ses[c] \in InUse,
         \A c \in Calls : \/ ses'[c] = "listed" <=> ses[c] = "listed"
                          \/ c \in astray'
  PROVE  TableInv'
<1>1. \A c, d \in Calls :
        ses'[c] \in InUse /\ ses'[d] \in InUse /\ pid'[c] = pid'[d] => c = d
  BY DEF TableInv
<1>2. ASSUME NEW p \in Pids, Sound(p)'
      PROVE  /\ Listed(p)' => OneSlot(p)'
             /\ ~Listed(p)' => (Slots(Settled, p) = {})'
  <2>1. Sound(p)
    BY <1>2 DEF Sound
  <2>2. Listed(p)' <=> Listed(p)
    BY <1>2 DEF Listed, Sound
  <2>3. Slots(Settled, p)' = Slots(Settled, p)
    BY DEF Slots
  <2>4. QED
    BY <2>1, <2>2, <2>3 DEF TableInv, OneSlot
<1>3. QED
  BY <1>1, <1>2 DEF TableInv

\* A step in which at most zombies are waited for.
LEMMA TableSame ==
  ASSUME TableInv, TypeOK, UNCHANGED <<tab, fifo, astray, pid>>,
         \A c \in Calls : ses'[c] \in {ses[c], "gone"} /\
           (ses'[c] # ses[c] => ses[c] = "zombie")
  PROVE  TableInv'
<1>1. Settled' = Settled
  BY DEF Settled
<1>2. \A c \in astray' : ses'[c] # "none"
  BY DEF TableInv, TypeOK
<1>3. \A c \in Calls : /\ ses'[c] \in InUse => ses[c] \in InUse
                       /\ ses'[c] = "listed" <=> ses[c] = "listed"
  BY DEF InUse
<1>4. QED
  BY <1>1, <1>2, <1>3, TableQuiet

\* The settled table is a list of numbers, and follows what is sent and read.
LEMMA SettledType == TypeOK => Settled \in Seq(Nat)
<1>1. SUFFICES ASSUME TypeOK PROVE Settled \in Seq(Nat)
  OBVIOUS
<1>2. tab \in Seq(Nat) /\ fifo \in Seq(Message)
  BY <1>1, FifoType DEF TypeOK
<1>3. PICK g : Reading(g, tab, fifo)
  BY <1>2, ReadingExists
<1>4. QED
  BY <1>2, <1>3, ReadingEnds DEF Settled

LEMMA SettledRead ==
  ASSUME TypeOK, ReadFifo
  PROVE  Settled' = Settled
<1>1. tab \in Seq(Nat) /\ fifo \in Seq(Message) /\ fifo # <<>>
  BY FifoType DEF TypeOK, ReadFifo
<1>2. tab' = Receive(tab, Head(fifo)) /\ fifo' = Tail(fifo)
  BY DEF ReadFifo
<1>3. QED
  BY <1>1, <1>2, ReceiveTail DEF Settled

LEMMA SettledSent ==
  ASSUME TypeOK, NEW m \in Message, fifo' = Append(fifo, m), tab' = tab
  PROVE  Settled' = Receive(Settled, m)
<1>1. tab \in Seq(Nat) /\ fifo \in Seq(Message)
  BY FifoType DEF TypeOK
<1>2. QED
  BY <1>1, ReceiveAppend DEF Settled

\* A session that is announced.
LEMMA TableAnnounce ==
  ASSUME Pids \subseteq 1..MaxPid, TypeOK, IdInv, TableInv,
         NEW c \in Calls, Announce(c)
  PROVE  TableInv'
<1> DEFINE p == pid[c]
<1>1. /\ ses[c] = "new" /\ p \in Pids /\ p \in 1..MaxPid
      /\ ses \in [Calls -> {"none", "gone"} \cup InUse]
  BY DEF Announce, IdInv, TypeOK
<1>2. pid' = pid /\ tab' = tab
  BY DEF Announce
<1>3. \A d \in Calls : d # c => ses'[d] = ses[d]
  BY <1>1 DEF Announce
<1>4. CASE mpc = "gone"
  <2>1. ses'[c] = "plain" /\ UNCHANGED <<fifo, astray>>
    BY <1>1, <1>4 DEF Announce
  <2>2. Settled' = Settled
    BY <1>2, <2>1 DEF Settled
  <2>3. \A d \in astray' : ses'[d] # "none"
    BY <1>3, <2>1 DEF TableInv, TypeOK
  <2>4. \A d \in Calls : /\ ses'[d] \in InUse => ses[d] \in InUse
                         /\ ses'[d] = "listed" <=> ses[d] = "listed"
    BY <1>1, <1>3, <2>1 DEF InUse
  <2>5. QED
    BY <1>2, <2>1, <2>2, <2>3, <2>4, TableQuiet
<1>5. CASE mpc # "gone" /\ ~Fits
  <2>1. ses'[c] = "listed" /\ astray' = astray \cup {c} /\ fifo' = fifo
    BY <1>1, <1>5 DEF Announce, Send
  <2>2. Settled' = Settled
    BY <1>2, <2>1 DEF Settled
  <2>3. \A d \in astray' : ses'[d] # "none"
    BY <1>3, <2>1 DEF TableInv, TypeOK
  <2>4. \A d \in Calls : /\ ses'[d] \in InUse => ses[d] \in InUse
                         /\ \/ ses'[d] = "listed" <=> ses[d] = "listed"
                            \/ d \in astray'
    BY <1>1, <1>3, <2>1 DEF InUse
  <2>5. QED
    BY <1>2, <2>1, <2>2, <2>3, <2>4, TableQuiet
<1>6. CASE mpc # "gone" /\ Fits
  <2>1. /\ ses'[c] = "listed" /\ astray' = astray
        /\ fifo' = Append(fifo, Insert(p))
    BY <1>1, <1>6 DEF Announce, Send
  <2>2. Insert(p) \in Message /\ Insert(p).op = "ins" /\ Insert(p).pid = p
    BY <1>1 DEF Insert, Message
  <2>3. Settled' = InsEntry(Settled, p)
    BY <1>2, <2>1, <2>2, SettledSent DEF Receive
  <2>4. ~Listed(p)
    BY <1>1 DEF Listed, TableInv, InUse
  <2>5. \A d \in Calls : ses'[d] \in InUse => ses[d] \in InUse
    BY <1>1, <1>3 DEF InUse
  <2>6. ASSUME NEW q \in Pids, Sound(q)'
        PROVE  /\ Listed(q)' => OneSlot(q)'
               /\ ~Listed(q)' => (Slots(Settled, q) = {})'
    <3>1. Sound(q)
      BY <1>2, <2>1, <2>6 DEF Sound
    <3>2. CASE q = p
      <4>1. Slots(Settled, p) = {}
        BY <1>1, <2>4, <3>1, <3>2 DEF TableInv
      <4>2. \E i : Slots(InsEntry(Settled, p), p) = {i}
        BY <1>1, <4>1, SettledType, InsertSlots
      <4>3. Listed(q)'
        BY <1>2, <2>1, <3>2 DEF Listed
      <4>4. OneSlot(q)'
        BY <2>3, <3>2, <4>2 DEF OneSlot
      <4>5. QED
        BY <3>2, <4>3, <4>4
    <3>3. CASE q # p
      <4>1. q \in Nat \ {Free, p}
        BY <3>3, DaemonAssumption
      <4>2. Slots(Settled', q) = Slots(Settled, q)
        BY <1>1, <2>3, <4>1, SettledType, InsertSlots
      <4>3. Listed(q)' <=> Listed(q)
        BY <1>2, <1>3, <3>3 DEF Listed
      <4>4. QED
        BY <3>1, <4>2, <4>3 DEF TableInv, OneSlot, Slots
    <3>4. QED
      BY <3>2, <3>3
  <2>7. \A d \in astray' : ses'[d] # "none"
    BY <1>3, <2>1 DEF TableInv, TypeOK
  <2>8. QED
    BY <1>2, <2>5, <2>6, <2>7 DEF TableInv
<1>7. QED
  BY <1>4, <1>5, <1>6

\* A session that is withdrawn.
LEMMA TableWithdraw ==
  ASSUME Pids \subseteq 1..MaxPid, TypeOK, IdInv, TableInv,
         NEW c \in Calls, Withdraw(c)
  PROVE  TableInv'
<1> DEFINE p == pid[c]
<1>1. /\ ses[c] = "listed" /\ p \in Pids /\ p \in 1..MaxPid
      /\ ses \in [Calls -> {"none", "gone"} \cup InUse]
  BY DEF Withdraw, IdInv, TypeOK
<1>2. pid' = pid /\ tab' = tab /\ ses'[c] = "left"
  BY <1>1 DEF Withdraw
<1>3. \A d \in Calls : d # c => ses'[d] = ses[d]
  BY <1>1 DEF Withdraw
<1>4. \A d \in Calls : ses'[d] \in InUse => ses[d] \in InUse
  BY <1>1, <1>3 DEF InUse
<1>5. CASE ~Fits
  <2>1. astray' = astray \cup {c} /\ fifo' = fifo
    BY <1>5 DEF Withdraw, Send
  <2>2. Settled' = Settled
    BY <1>2, <2>1 DEF Settled
  <2>3. \A d \in astray' : ses'[d] # "none"
    BY <1>2, <1>3, <2>1 DEF TableInv, TypeOK
  <2>4. \A d \in Calls : \/ ses'[d] = "listed" <=> ses[d] = "listed"
                         \/ d \in astray'
    BY <1>3, <2>1
  <2>5. QED
    BY <1>2, <1>4, <2>1, <2>2, <2>3, <2>4, TableQuiet
<1>6. CASE Fits
  <2>1. astray' = astray /\ fifo' = Append(fifo, Delete(p))
    BY <1>6 DEF Withdraw, Send
  <2>2. Delete(p) \in Message /\ Delete(p).op = "del" /\ Delete(p).pid = p
    BY <1>1 DEF Delete, Message
  <2>3. Settled' = CleanEntry(Settled, p)
    BY <1>2, <2>1, <2>2, SettledSent DEF Receive
  <2>4. ASSUME NEW q \in Pids, Sound(q)'
        PROVE  /\ Listed(q)' => OneSlot(q)'
               /\ ~Listed(q)' => (Slots(Settled, q) = {})'
    <3>1. Sound(q)
      BY <1>2, <2>1, <2>4 DEF Sound
    <3>2. CASE q = p
      <4>1. Slots(Settled', q) = {}
        BY <1>1, <2>3, <3>2, SettledType, DeleteSlots
      <4>2. ~Listed(q)'
        BY <1>1, <1>2, <1>3, <3>2 DEF Listed, TableInv, InUse
      <4>3. QED
        BY <4>1, <4>2 DEF Slots
    <3>3. CASE q # p
      <4>1. q \in Nat \ {Free, p}
        BY <3>3, DaemonAssumption
      <4>2. Slots(Settled', q) = Slots(Settled, q)
        BY <1>1, <2>3, <4>1, SettledType, DeleteSlots
      <4>3. Listed(q)' <=> Listed(q)
        BY <1>2, <1>3, <3>3 DEF Listed
      <4>4. QED
        BY <3>1, <4>2, <4>3 DEF TableInv, OneSlot, Slots
    <3>4. QED
      BY <3>2, <3>3
  <2>5. \A d \in astray' : ses'[d] # "none"
    BY <1>2, <1>3, <2>1 DEF TableInv, TypeOK
  <2>6. QED
    BY <1>2, <1>4, <2>4, <2>5 DEF TableInv
<1>7. QED
  BY <1>5, <1>6

\* A session that ends: one that is still listed has not withdrawn, and is
\* counted as astray.
LEMMA TableEnds ==
  ASSUME TypeOK, TableInv, NEW c \in Calls, SessionEnds(c)
  PROVE  TableInv'
<1>1. /\ ses[c] \in InUse /\ ses'[c] \in {"zombie", "gone"}
      /\ \A d \in Calls : d # c => ses'[d] = ses[d]
  BY DEF SessionEnds, TypeOK, InUse
<1>2. pid' = pid /\ Settled' = Settled
  BY DEF SessionEnds, Settled
<1>3. /\ astray \subseteq astray' /\ astray' \subseteq astray \cup {c}
      /\ ses[c] = "listed" => c \in astray'
  BY DEF SessionEnds
<1>4. \A d \in astray' : ses'[d] # "none"
  BY <1>1, <1>3 DEF TableInv, TypeOK
<1>5. \A d \in Calls : /\ ses'[d] \in InUse => ses[d] \in InUse
                       /\ \/ ses'[d] = "listed" <=> ses[d] = "listed"
                          \/ d \in astray'
  BY <1>1, <1>3
<1>6. QED
  BY <1>2, <1>3, <1>4, <1>5, TableQuiet

\* A call: its session gets a number that no session uses.
LEMMA TableAccepted ==
  ASSUME TypeOK, TableInv, NEW g \in Gens, NEW c \in Calls, Accepted(g, c)
  PROVE  TableInv'
<1>1. PICK p \in Pids :
        /\ \A d \in Calls : pid[d] = p => ses[d] \notin InUse
        /\ pid' = [pid EXCEPT ![c] = p]
  BY DEF Accepted
<1>2. /\ ses[c] = "none" /\ ses'[c] = "new" /\ pid'[c] = p
      /\ \A d \in Calls : d # c => ses'[d] = ses[d] /\ pid'[d] = pid[d]
  BY <1>1 DEF Accepted, TypeOK
<1>3. astray' = astray /\ Settled' = Settled
  BY DEF Accepted, Settled
<1>4. c \notin astray
  BY <1>2 DEF TableInv
<1>5. \A d \in astray' : ses'[d] # "none"
  BY <1>2, <1>3 DEF TableInv, TypeOK
<1>6. \A d, e \in Calls :
        ses'[d] \in InUse /\ ses'[e] \in InUse /\ pid'[d] = pid'[e] => d = e
  BY <1>1, <1>2 DEF TableInv
<1>7. ASSUME NEW q \in Pids, Sound(q)'
      PROVE  /\ Listed(q)' => OneSlot(q)'
             /\ ~Listed(q)' => (Slots(Settled, q) = {})'
  <2>1. Sound(q)
    BY <1>2, <1>3, <1>4, <1>7 DEF Sound, TypeOK
  <2>2. Listed(q)' <=> Listed(q)
    BY <1>2 DEF Listed
  <2>3. QED
    BY <1>3, <2>1, <2>2 DEF TableInv, OneSlot, Slots
<1>8. QED
  BY <1>5, <1>6, <1>7 DEF TableInv

\* Every step keeps the table in step with the sessions.
LEMMA TableStep ==
  ASSUME Pids \subseteq 1..MaxPid, TypeOK, IdInv, TableInv, [Next]_dvars
  PROVE  TableInv'
<1>1. CASE UNCHANGED dvars
  BY <1>1, TableSame DEF dvars, sess
<1>2. CASE Monitor
  <2>1. CASE ReadFifo
    <3>1. Settled' = Settled /\ UNCHANGED <<ses, pid, astray>>
      BY <2>1, SettledRead DEF ReadFifo, sess
    <3>2. \A c \in astray' : ses'[c] # "none"
      BY <3>1 DEF TableInv
    <3>3. QED
      BY <3>1, <3>2, TableQuiet
  <2>2. CASE ~ReadFifo
    <3>1. UNCHANGED <<tab, fifo, astray, pid, ses>>
      BY <1>2, <2>2 DEF Monitor, StartListener, ForkFails, Wake, NoChild,
                        Child, PassDone, MonitorExits, sess
    <3>2. QED
      BY <3>1, TableSame
  <2>3. QED
    BY <2>1, <2>2
<1>3. ASSUME NEW g \in Gens, Listener(g) PROVE TableInv'
  <2>1. UNCHANGED <<tab, fifo, astray, pid>>
    BY <1>3 DEF Listener, Boot, OpenListen, Fails, Accept, Interrupted, Reap,
                ClearChld, NoReap, Inter, ReloadEnds, sess
  <2>2. \A c \in Calls : ses'[c] \in {ses[c], "gone"} /\
          (ses'[c] # ses[c] => ses[c] = "zombie")
    BY <1>3 DEF Listener, Boot, OpenListen, Fails, Accept, Interrupted, Reap,
                ClearChld, NoReap, Inter, ReloadEnds, Ends, sess
  <2>3. QED
    BY <2>1, <2>2, TableSame
<1>4. CASE Operator
  <2>1. UNCHANGED <<tab, fifo, astray, pid>>
    BY <1>4 DEF Operator, Stop, Reread, Hangup, Suspended, sess
  <2>2. \A c \in Calls : ses'[c] \in {ses[c], "gone"} /\
          (ses'[c] # ses[c] => ses[c] = "zombie")
    BY <1>4 DEF Operator, Stop, Reread, Hangup, Suspended, Ends, sess
  <2>3. QED
    BY <2>1, <2>2, TableSame
<1>5. CASE Incoming
  BY <1>5, TableAccepted DEF Incoming
<1>6. CASE Sessions
  BY <1>6, TableAnnounce, TableWithdraw, TableEnds DEF Sessions
<1>7. QED
  BY <1>1, <1>2, <1>3, <1>4, <1>5, <1>6 DEF Next

\* The table starts with one free slot.
LEMMA TableStarts == Init => TableInv
<1>1. SUFFICES ASSUME Init PROVE TableInv
  OBVIOUS
<1>2. tab = <<Free>> /\ tab \in Seq(Nat) /\ fifo = <<>>
  BY <1>1 DEF Init, Free
<1>3. Settled = <<Free>>
  BY <1>2, ReceiveNone DEF Settled
<1>4. \A p \in Pids : Slots(Settled, p) = {}
  BY <1>3, DaemonAssumption DEF Slots
<1>5. /\ \A c \in Calls : ses[c] = "none"
      /\ astray = {}
  BY <1>1 DEF Init
<1>6. QED
  BY <1>4, <1>5 DEF TableInv, Listed, InUse

\* With process ids that fit the MAXCHARPID characters of an entry, the pts-addr
\* table has each listed session once and none that has withdrawn, however many
\* sessions come and go, numbers and slots are used again and messages wait in
\* the FIFO (pts_addr.c, ins_entry and clean_entry).
THEOREM TableInStep ==
  ASSUME Pids \subseteq 1..MaxPid
  PROVE  Spec => []TableFollows
<1>1. Init => TypeOK /\ IdInv /\ TableInv
  <2>1. Init => TypeOK /\ IdInv
    BY DaemonAssumption DEF Init, TypeOK, IdInv, Free, Gens
  <2>2. QED
    BY <2>1, TableStarts
<1>2. TypeOK /\ IdInv /\ TableInv /\ [Next]_dvars
        => (TypeOK /\ IdInv /\ TableInv)'
  BY IdStep, DaemonTypeStep, TableStep
<1>3. TypeOK /\ IdInv /\ TableInv => TableFollows
  <2>1. SUFFICES ASSUME TypeOK, IdInv, TableInv, NEW c \in Calls,
                        Sound(pid[c]), ses[c] \in {"listed", "left"}
                 PROVE  /\ ses[c] = "listed" =>
                             Cardinality(Slots(Settled, Stored(pid[c]))) = 1
                        /\ ses[c] = "left" =>
                             Slots(Settled, Stored(pid[c])) = {}
    BY DEF TableFollows
  <2>2. pid[c] \in Pids /\ Stored(pid[c]) = pid[c]
    BY <2>1, StoredWhole DEF IdInv
  <2>3. CASE ses[c] = "listed"
    <3>1. PICK i : Slots(Settled, pid[c]) = {i}
      BY <2>1, <2>2, <2>3 DEF TableInv, Listed, OneSlot
    <3>2. QED
      BY <2>2, <2>3, <3>1, FS_Singleton
  <2>4. CASE ses[c] = "left"
    <3>1. ~Listed(pid[c])
      BY <2>1, <2>4 DEF TableInv, Listed, InUse
    <3>2. QED
      BY <2>1, <2>2, <2>4, <3>1 DEF TableInv
  <2>5. QED
    BY <2>1, <2>3, <2>4
<1>4. QED
  BY <1>1, <1>2, <1>3, PTL DEF Spec

-----------------------------------------------------------------------------
\* The register.  What is entered is the same before and after a message is
\* read, and changes by the number of a message that is sent.

LEMMA EnteredRead ==
  ASSUME Pids \subseteq 1..MaxPid, TypeOK, ReadFifo
  PROVE  Entered' = Entered
<1>1. /\ tab \in Seq(Nat) /\ fifo \in Seq(Message) /\ fifo # <<>>
      /\ tab' = Receive(tab, fifo[1]) /\ fifo' = Tail(fifo)
  BY FifoType DEF TypeOK, ReadFifo
<1>2. /\ Len(fifo) \in Nat \ {0} /\ DOMAIN fifo = 1..Len(fifo)
      /\ DOMAIN fifo' = 1..(Len(fifo) - 1)
      /\ \A i \in 1..(Len(fifo) - 1) : fifo'[i] = fifo[i + 1]
      /\ fifo[1] \in Message
  BY <1>1
<1>3. ASSUME NEW p \in Pids
      PROVE  (InOrAhead(p) /\ NotTakenOut(p))'
               <=> (InOrAhead(p) /\ NotTakenOut(p))
  <2>1. p \in 1..MaxPid /\ Stored(p) = p /\ p \in Nat \ {Free}
    BY <1>3, StoredWhole, DaemonAssumption
  <2> DEFINE Ahead(d) == \E i \in DOMAIN d : d[i] = Insert(p)
             Stays(d) ==
               \A i \in DOMAIN d :
                 d[i] = Delete(p) => \E j \in DOMAIN d : j > i /\ d[j] = Insert(p)
             In(t) == Slots(t, p) # {}
  <2>2. /\ InOrAhead(p) <=> In(tab) \/ Ahead(fifo)
        /\ InOrAhead(p)' <=> In(tab') \/ Ahead(fifo')
        /\ NotTakenOut(p) <=> Stays(fifo)
        /\ NotTakenOut(p)' <=> Stays(fifo')
    BY <2>1, Zenon DEF InOrAhead, NotTakenOut
  <2>3. Ahead(fifo) <=> fifo[1] = Insert(p) \/ Ahead(fifo')
    <3>1. ASSUME NEW i \in DOMAIN fifo, fifo[i] = Insert(p), i # 1
          PROVE  Ahead(fifo')
      <4>1. i - 1 \in DOMAIN fifo' /\ fifo'[i - 1] = fifo[i]
        BY <1>2, <3>1
      <4>2. QED
        BY <3>1, <4>1
    <3>2. ASSUME NEW i \in DOMAIN fifo', fifo'[i] = Insert(p)
          PROVE  Ahead(fifo)
      <4>1. i + 1 \in DOMAIN fifo /\ fifo[i + 1] = fifo'[i]
        BY <1>2, <3>2
      <4>2. QED
        BY <3>2, <4>1
    <3>3. 1 \in DOMAIN fifo
      BY <1>2
    <3>4. QED
      BY <3>1, <3>2, <3>3, Zenon
  <2>4. Stays(fifo) <=> (fifo[1] = Delete(p) => Ahead(fifo')) /\ Stays(fifo')
    <3>1. ASSUME Stays(fifo)
          PROVE  (fifo[1] = Delete(p) => Ahead(fifo')) /\ Stays(fifo')
      <4>1. ASSUME fifo[1] = Delete(p) PROVE Ahead(fifo')
        <5>1. PICK j \in 1..Len(fifo) : j > 1 /\ fifo[j] = Insert(p)
          BY <1>2, <3>1, <4>1
        <5>2. j - 1 \in 1..(Len(fifo) - 1) /\ fifo'[j - 1] = fifo[j]
          BY <1>2, <5>1
        <5>3. QED
          BY <1>2, <5>1, <5>2
      <4>2. ASSUME NEW i \in DOMAIN fifo', fifo'[i] = Delete(p)
            PROVE  \E j \in DOMAIN fifo' : j > i /\ fifo'[j] = Insert(p)
        <5>1. i + 1 \in 1..Len(fifo) /\ fifo[i + 1] = Delete(p)
          BY <1>2, <4>2
        <5>2. PICK j \in 1..Len(fifo) : j > i + 1 /\ fifo[j] = Insert(p)
          BY <1>2, <3>1, <5>1
        <5>3. /\ j - 1 \in 1..(Len(fifo) - 1) /\ fifo'[j - 1] = fifo[j]
              /\ j - 1 > i
          BY <1>2, <4>2, <5>2
        <5>4. QED
          BY <1>2, <5>2, <5>3
      <4>3. QED
        BY <4>1, <4>2
    <3>2. ASSUME fifo[1] = Delete(p) => Ahead(fifo'), Stays(fifo'),
                 NEW i \in DOMAIN fifo, fifo[i] = Delete(p)
          PROVE  \E j \in DOMAIN fifo : j > i /\ fifo[j] = Insert(p)
      <4>1. PICK j \in DOMAIN fifo' : j + 1 > i /\ fifo'[j] = Insert(p)
        <5>1. CASE i = 1
          <6>1. PICK j \in DOMAIN fifo' : fifo'[j] = Insert(p)
            BY <3>2, <5>1
          <6>2. QED
            BY <1>2, <5>1, <6>1
        <5>2. CASE i # 1
          <6>1. i - 1 \in DOMAIN fifo' /\ fifo'[i - 1] = Delete(p)
            BY <1>2, <3>2, <5>2
          <6>2. PICK j \in DOMAIN fifo' : j > i - 1 /\ fifo'[j] = Insert(p)
            BY <3>2, <6>1
          <6>3. QED
            BY <1>2, <3>2, <6>2
        <5>3. QED
          BY <5>1, <5>2
      <4>2. j + 1 \in 1..Len(fifo) /\ fifo[j + 1] = Insert(p)
        BY <1>2, <4>1
      <4>3. QED
        BY <1>2, <4>1, <4>2
    <3>3. QED
      BY <3>1, <3>2
  <2>5. Insert(p) # Delete(p)
    BY DEF Insert, Delete
  <2>6. \/ fifo[1] = Insert(p) /\ In(tab')
        \/ fifo[1] = Delete(p) /\ ~In(tab')
        \/ /\ fifo[1] # Insert(p) /\ fifo[1] # Delete(p)
           /\ In(tab') <=> In(tab)
    <3> DEFINE q == fifo[1].pid
    <3>1. /\ q \in Pids /\ q \in 1..MaxPid
          /\ fifo[1] = Insert(q) \/ fifo[1] = Delete(q)
      BY <1>2, <1>3 DEF Message, Insert, Delete
    <3>2. fifo[1] = Insert(q) => fifo[1].op = "ins"
      BY DEF Insert
    <3>3. fifo[1] = Delete(q) => fifo[1].op = "del"
      BY DEF Delete
    <3>4. /\ fifo[1] = Insert(q) => tab' = InsEntry(tab, q)
          /\ fifo[1] = Delete(q) => tab' = CleanEntry(tab, q)
      BY <1>1, <3>2, <3>3 DEF Receive
    <3>5. (fifo[1] = Insert(p) \/ fifo[1] = Delete(p)) => q = p
      BY DEF Insert, Delete
    <3> HIDE DEF q
    <3>6. CASE q = p
      BY <1>1, <3>1, <3>4, <3>6, InsertSlots, DeleteSlots
    <3>7. CASE q # p
      <4>1. p \in Nat \ {Free, q}
        BY <2>1, <3>7
      <4>2. Slots(tab', p) = Slots(tab, p)
        BY <1>1, <3>1, <3>4, <4>1, InsertSlots, DeleteSlots
      <4>3. QED
        BY <3>5, <3>7, <4>2
    <3>8. QED
      BY <3>6, <3>7
  <2> HIDE DEF Ahead, Stays, In
  <2>7. QED
    BY <2>2, <2>3, <2>4, <2>5, <2>6
<1>4. QED
  BY <1>3 DEF Entered

LEMMA EnteredSent ==
  ASSUME Pids \subseteq 1..MaxPid, TypeOK, NEW p \in Pids, tab' = tab,
         NEW m \in {Insert(p), Delete(p)}, fifo' = Append(fifo, m)
  PROVE  /\ m = Insert(p) => Entered' = Entered \cup {p}
         /\ m = Delete(p) => Entered' = Entered \ {p}
<1>1. fifo \in Seq(Message) /\ m \in Message
  BY FifoType DEF TypeOK, Message, Insert, Delete
<1>2. /\ Len(fifo) \in Nat /\ DOMAIN fifo = 1..Len(fifo)
      /\ DOMAIN fifo' = 1..(Len(fifo) + 1) /\ fifo'[Len(fifo) + 1] = m
      /\ \A i \in 1..Len(fifo) : fifo'[i] = fifo[i]
  BY <1>1
<1>3. /\ Insert(p) # Delete(p)
      /\ \A q \in Pids : q # p => m # Insert(q) /\ m # Delete(q)
  BY DEF Insert, Delete
<1>4. \A i \in 1..(Len(fifo) + 1) : i = Len(fifo) + 1 \/ i \in 1..Len(fifo)
  BY <1>2
<1>5. ASSUME NEW q \in Pids, q # p
      PROVE  (InOrAhead(q) /\ NotTakenOut(q))'
               <=> (InOrAhead(q) /\ NotTakenOut(q))
  <2>1. m # Insert(q) /\ m # Delete(q)
    BY <1>3, <1>5
  <2>2. InOrAhead(q)' <=> InOrAhead(q)
    BY <1>2, <1>4, <2>1 DEF InOrAhead
  <2>3. NotTakenOut(q)' <=> NotTakenOut(q)
    BY <1>2, <1>4, <2>1 DEF NotTakenOut
  <2>4. QED
    BY <2>2, <2>3
<1>6. CASE m = Insert(p)
  <2>1. InOrAhead(p)'
    BY <1>2, <1>6 DEF InOrAhead
  <2>2. NotTakenOut(p)'
    <3>1. ASSUME NEW i \in DOMAIN fifo', fifo'[i] = Delete(p)
          PROVE  Len(fifo) + 1 > i
      BY <1>2, <1>3, <1>6, <3>1
    <3>2. QED
      BY <1>2, <1>6, <3>1 DEF NotTakenOut
  <2>3. Entered' = Entered \cup {p}
    BY <1>5, <2>1, <2>2 DEF Entered
  <2>4. QED
    BY <1>3, <1>6, <2>3
<1>7. CASE m = Delete(p)
  <2>1. ~NotTakenOut(p)'
    <3>1. Len(fifo) + 1 \in DOMAIN fifo' /\ fifo'[Len(fifo) + 1] = Delete(p)
      BY <1>2, <1>7
    <3>2. ~\E j \in DOMAIN fifo' : j > Len(fifo) + 1
      BY <1>2
    <3>3. QED
      BY <3>1, <3>2 DEF NotTakenOut
  <2>2. Entered' = Entered \ {p}
    BY <1>5, <2>1 DEF Entered
  <2>3. QED
    BY <1>3, <1>7, <2>2
<1>8. QED
  BY <1>6, <1>7

LEMMA EnteredSame == ASSUME UNCHANGED <<tab, fifo>> PROVE Entered' = Entered
  BY DEF Entered, InOrAhead, NotTakenOut

\* What the register needs to know of a step.
RegisterStep == [Register!RegisterNext]_(Register!rvars)

LEMMA RegisterQuiet ==
  ASSUME Entered' = Entered, pid' = pid, astray' = astray,
         \A c \in Calls : ses'[c] = "listed" <=> ses[c] = "listed"
  PROVE  RegisterStep
<1>1. Told' = Told /\ Wrong' = Wrong
  BY DEF Told, Wrong
<1>2. QED
  BY <1>1 DEF RegisterStep, Register!rvars

LEMMA RegisterAnnounce ==
  ASSUME Pids \subseteq 1..MaxPid, TypeOK, IdInv, TableInv,
         NEW c \in Calls, Announce(c)
  PROVE  RegisterStep
<1> DEFINE p == pid[c]
<1>1. /\ ses[c] = "new" /\ p \in Pids /\ pid' = pid /\ tab' = tab
      /\ ses \in [Calls -> {"none", "gone"} \cup InUse]
  BY DEF Announce, IdInv, TypeOK
<1>2. \A d \in Calls : d # c => ses'[d] = ses[d]
  BY <1>1 DEF Announce
<1>3. CASE mpc = "gone"
  <2>1. ses'[c] = "plain" /\ UNCHANGED <<fifo, astray>>
    BY <1>1, <1>3 DEF Announce
  <2>2. QED
    BY <1>1, <1>2, <2>1, EnteredSame, RegisterQuiet
<1>4. CASE mpc # "gone"
  <2>1. ses'[c] = "listed"
    BY <1>1, <1>4 DEF Announce
  <2>2. Told' = Told \cup {p}
    BY <1>1, <1>2, <2>1 DEF Told
  <2>3. p \notin Told
    BY <1>1 DEF Told, TableInv, InUse
  <2>4. Register!Arrives(p, Entered \cup {p})
    <3>1. CASE Fits
      <4>1. astray' = astray /\ fifo' = Append(fifo, Insert(p))
        BY <1>4, <3>1 DEF Announce, Send
      <4>2. Entered' = Entered \cup {p}
        BY <1>1, <4>1, EnteredSent
      <4>3. Wrong' = Wrong
        BY <1>1, <4>1 DEF Wrong
      <4>4. QED
        BY <4>2, <4>3 DEF Register!Arrives
    <3>2. CASE ~Fits
      <4>1. astray' = astray \cup {c} /\ fifo' = fifo
        BY <1>4, <3>2 DEF Announce, Send
      <4>2. Wrong' = Wrong \cup {p}
        BY <1>1, <4>1 DEF Wrong
      <4>3. QED
        BY <1>1, <4>1, <4>2, EnteredSame DEF Register!Arrives
    <3>3. QED
      BY <3>1, <3>2
  <2>5. Register!Enter(p)
    BY <2>2, <2>3, <2>4 DEF Register!Enter
  <2>6. QED
    BY <1>1, <2>5 DEF RegisterStep, Register!RegisterNext
<1>5. QED
  BY <1>3, <1>4

\* A session in service that is so no more: it has withdrawn, or was killed.
LEMMA ToldLess ==
  ASSUME TableInv, NEW c \in Calls, ses[c] = "listed", ses'[c] # "listed",
         pid' = pid, \A d \in Calls : d # c => ses'[d] = ses[d]
  PROVE  pid[c] \in Told /\ Told' = Told \ {pid[c]}
<1>1. pid[c] \in Told
  BY DEF Told
<1>2. \A d \in Calls : d # c /\ ses[d] = "listed" => pid[d] # pid[c]
  BY DEF TableInv, InUse
<1>3. QED
  BY <1>1, <1>2 DEF Told

LEMMA RegisterWithdraw ==
  ASSUME Pids \subseteq 1..MaxPid, TypeOK, IdInv, TableInv,
         NEW c \in Calls, Withdraw(c)
  PROVE  RegisterStep
<1> DEFINE p == pid[c]
<1>1. /\ ses[c] = "listed" /\ ses'[c] = "left" /\ p \in Pids
      /\ pid' = pid /\ tab' = tab
      /\ \A d \in Calls : d # c => ses'[d] = ses[d]
  BY DEF Withdraw, IdInv, TypeOK
<1>2. p \in Told /\ Told' = Told \ {p}
  BY <1>1, ToldLess
<1>3. Register!Arrives(p, Entered \ {p})
  <2>1. CASE Fits
    <3>1. astray' = astray /\ fifo' = Append(fifo, Delete(p))
      BY <2>1 DEF Withdraw, Send
    <3>2. Entered' = Entered \ {p}
      BY <1>1, <3>1, EnteredSent
    <3>3. Wrong' = Wrong
      BY <1>1, <3>1 DEF Wrong
    <3>4. QED
      BY <3>2, <3>3 DEF Register!Arrives
  <2>2. CASE ~Fits
    <3>1. astray' = astray \cup {c} /\ fifo' = fifo
      BY <2>2 DEF Withdraw, Send
    <3>2. Wrong' = Wrong \cup {p}
      BY <1>1, <3>1 DEF Wrong
    <3>3. QED
      BY <1>1, <3>1, <3>2, EnteredSame DEF Register!Arrives
  <2>3. QED
    BY <2>1, <2>2
<1>4. QED
  BY <1>1, <1>2, <1>3 DEF RegisterStep, Register!RegisterNext, Register!Leave

LEMMA RegisterEnds ==
  ASSUME TypeOK, IdInv, TableInv, NEW c \in Calls, SessionEnds(c)
  PROVE  RegisterStep
<1>1. /\ ses'[c] \in {"zombie", "gone"} /\ pid' = pid
      /\ \A d \in Calls : d # c => ses'[d] = ses[d]
  BY DEF SessionEnds, TypeOK
<1>2. Entered' = Entered
  BY EnteredSame DEF SessionEnds
<1>3. CASE ses[c] = "listed"
  <2>1. pid[c] \in Pids
    BY <1>3 DEF IdInv
  <2>2. pid[c] \in Told /\ Told' = Told \ {pid[c]}
    BY <1>1, <1>3, ToldLess
  <2>3. Wrong' = Wrong \cup {pid[c]}
    BY <1>1, <1>3 DEF SessionEnds, Wrong
  <2>4. Register!Leave(pid[c])
    BY <1>2, <2>2, <2>3 DEF Register!Leave, Register!Arrives
  <2>5. QED
    BY <2>1, <2>4 DEF RegisterStep, Register!RegisterNext
<1>4. CASE ses[c] # "listed"
  <2>1. astray' = astray
    BY <1>4 DEF SessionEnds
  <2>2. QED
    BY <1>1, <1>2, <1>4, <2>1, RegisterQuiet
<1>5. QED
  BY <1>3, <1>4

LEMMA RegisterAccepted ==
  ASSUME TypeOK, TableInv, NEW g \in Gens, NEW c \in Calls, Accepted(g, c)
  PROVE  RegisterStep
<1>1. /\ ses[c] = "none" /\ ses'[c] = "new" /\ astray' = astray
      /\ \A d \in Calls : d # c => ses'[d] = ses[d] /\ pid'[d] = pid[d]
  BY DEF Accepted, TypeOK
<1>2. Entered' = Entered
  BY EnteredSame DEF Accepted
<1>3. c \notin astray /\ astray \subseteq Calls
  BY <1>1 DEF TableInv, TypeOK
<1>4. Wrong' = Wrong
  BY <1>1, <1>3 DEF Wrong
<1>5. Told' = Told
  BY <1>1 DEF Told
<1>6. QED
  BY <1>2, <1>4, <1>5 DEF RegisterStep, Register!rvars

\* Every step is one of the register, or none.
LEMMA StepOfRegister ==
  ASSUME Pids \subseteq 1..MaxPid, TypeOK, IdInv, TableInv, [Next]_dvars
  PROVE  RegisterStep
<1>1. CASE UNCHANGED dvars
  BY <1>1, EnteredSame, RegisterQuiet DEF dvars, sess
<1>2. CASE Monitor
  <2>1. UNCHANGED <<ses, pid, astray>>
    BY <1>2 DEF Monitor, StartListener, ForkFails, Wake, NoChild, Child,
                ReadFifo, PassDone, MonitorExits, sess
  <2>2. Entered' = Entered
    <3>1. CASE ReadFifo
      BY <3>1, EnteredRead
    <3>2. CASE ~ReadFifo
      <4>1. UNCHANGED <<tab, fifo>>
        BY <1>2, <3>2 DEF Monitor, StartListener, ForkFails, Wake, NoChild,
                          Child, PassDone, MonitorExits
      <4>2. QED
        BY <4>1, EnteredSame
    <3>3. QED
      BY <3>1, <3>2
  <2>3. QED
    BY <2>1, <2>2, RegisterQuiet
<1>3. ASSUME NEW g \in Gens, Listener(g) PROVE RegisterStep
  <2>1. UNCHANGED <<tab, fifo, astray, pid>>
    BY <1>3 DEF Listener, Boot, OpenListen, Fails, Accept, Interrupted, Reap,
                ClearChld, NoReap, Inter, ReloadEnds, sess
  <2>2. \A c \in Calls : ses'[c] = "listed" <=> ses[c] = "listed"
    BY <1>3 DEF Listener, Boot, OpenListen, Fails, Accept, Interrupted, Reap,
                ClearChld, NoReap, Inter, ReloadEnds, Ends, sess
  <2>3. QED
    BY <2>1, <2>2, EnteredSame, RegisterQuiet
<1>4. CASE Operator
  <2>1. UNCHANGED <<tab, fifo, astray, pid>>
    BY <1>4 DEF Operator, Stop, Reread, Hangup, Suspended, sess
  <2>2. \A c \in Calls : ses'[c] = "listed" <=> ses[c] = "listed"
    BY <1>4 DEF Operator, Stop, Reread, Hangup, Suspended, Ends, sess
  <2>3. QED
    BY <2>1, <2>2, EnteredSame, RegisterQuiet
<1>5. CASE Incoming
  BY <1>5, RegisterAccepted DEF Incoming
<1>6. CASE Sessions
  BY <1>6, RegisterAnnounce, RegisterWithdraw, RegisterEnds DEF Sessions
<1>7. QED
  BY <1>1, <1>2, <1>3, <1>4, <1>5, <1>6 DEF Next

\* With process ids that fit an entry the daemon implements the register: also
\* after messages were lost, the next message of a number counts, and nothing
\* but a message changes what the table will say (ins_entry, clean_entry,
\* read_fifo).
THEOREM TableIsRegister ==
  ASSUME Pids \subseteq 1..MaxPid
  PROVE  Spec => RegisterKept
<1>1. Init => TypeOK /\ IdInv /\ TableInv
  <2>1. Init => TypeOK /\ IdInv
    BY DaemonAssumption DEF Init, TypeOK, IdInv, Free, Gens
  <2>2. QED
    BY <2>1, TableStarts
<1>2. Init => Register!RegisterInit
  <2>1. SUFFICES ASSUME Init PROVE Register!RegisterInit
    OBVIOUS
  <2>2. Told = {} /\ Wrong = {}
    BY <2>1 DEF Init, Told, Wrong
  <2>3. \A p \in Pids : ~InOrAhead(p)
    <3>1. /\ tab = <<Free>> /\ fifo = <<>>
      BY <2>1 DEF Init
    <3>2. \A p \in Pids : Stored(p) = p /\ p # Free
      BY StoredWhole, DaemonAssumption
    <3>3. \A p \in Pids : Slots(tab, Stored(p)) = {}
      BY <3>1, <3>2 DEF Slots
    <3>4. QED
      BY <3>1, <3>3 DEF InOrAhead
  <2>4. QED
    BY <2>2, <2>3 DEF Register!RegisterInit, Entered
<1>3. TypeOK /\ IdInv /\ TableInv /\ [Next]_dvars
        => (TypeOK /\ IdInv /\ TableInv)'
  BY IdStep, DaemonTypeStep, TableStep
<1>4. TypeOK /\ IdInv /\ TableInv /\ [Next]_dvars
        => [Register!RegisterNext]_(Register!rvars)
  BY StepOfRegister DEF RegisterStep
<1>5. QED
  BY <1>1, <1>2, <1>3, <1>4, PTL
     DEF Spec, RegisterKept, Register!RegisterSpec
=============================================================================
