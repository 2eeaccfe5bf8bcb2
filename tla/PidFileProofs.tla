--------------------------- MODULE PidFileProofs ---------------------------
(***************************************************************************)
(* Proofs about PidFile, for any process ids and any number of files: its  *)
(* types, that daemons leave no pid file behind, and that starts which do  *)
(* not overlap leave one daemon that the pid file names and every command  *)
(* finds.  The invariant that carries the last three says what every       *)
(* process on its way through exist_pid and leave_pid holds of the file.   *)
(***************************************************************************)
EXTENDS PidFile, TLAPS

-----------------------------------------------------------------------------
\* The strengthening.

\* Processes on their way to being the daemon, or that are it.
Path == {p \in Pids : at[p] \in Boss \cup {"daemon"}}

\* Two starts on their way at a time are both in met.
OverlapsMet == \A p, q \in Starting : p # q => p \in met

\* What up keeps are daemons that run.
UpRunning == \A p \in Pids : up[p] \subseteq Running

\* In a world where no start has overlapped another there is one daemon,
OnePath == \A p, q \in Path : p = q

\* the file is at each step what leave_pid has made of it,
Written ==
  \A b \in Pids :
    /\ at[b] = "open" => link = NoInode
    /\ at[b] = "write" => link = fd[b] /\ data[link] = NoPid
    /\ at[b] \in Boss \ Leaving => link # NoInode /\ data[link] = b

\* a start of its own, and a command that has not lost its daemon, sees it
Sees(p, b) ==
  /\ at[p] = "read" => fd[p] = link
  /\ at[p] \in {"proc", "kill"} => seen[p] = b
  /\ at[p] # "none"

StartSees ==
  \A p \in Starting \ met, b \in Bosses :
    at[p] \in Looking \cup {"none"} => Sees(p, b)

\* all the time.
CommandSees == \A p \in Pids : \A b \in up[p] : at[p] # "bye" => Sees(p, b)

Ordered == OnePath /\ Written /\ StartSees /\ CommandSees

IInv == TypeOK /\ OverlapsMet /\ UpRunning /\ (~raced => Ordered)

-----------------------------------------------------------------------------
\* One step of the system, and each part of the invariant.

\* Every step keeps the types, and a file open just where it is read or written.
LEMMA TypeStep ==
  ASSUME TypeOK, [Next]_pvars PROVE TypeOK'
<1> USE PidFileAssumption DEF TypeOK, Commands, file, local, hist, Boss,
      Leaving, Up, Main, Looking, Running, Starting, Bosses
<1>1. CASE UNCHANGED pvars
  BY <1>1 DEF pvars, local, file, hist
<1>2. ASSUME NEW p \in Pids, Step(p) PROVE TypeOK'
  <2>1. ASSUME NEW c \in Commands, Begin(p, c) PROVE TypeOK'
    BY <2>1 DEF Begin, Commands
  <2>2. CASE Look(p)
    BY <2>2 DEF Look, Go
  <2>3. CASE Read(p)
    BY <2>3 DEF Read, Go
  <2>4. CASE NotNamed(p)
    BY <2>4 DEF NotNamed, Go, Named
  <2>5. CASE Found(p)
    BY <2>5 DEF Found, Go, Named
  <2>6. CASE Refused(p)
    BY <2>6 DEF Refused, Exit, End, Flagged, ClearPid
  <2>7. CASE NotWorking(p)
    BY <2>7 DEF NotWorking, Exit, End, Flagged, ClearPid
  <2>8. CASE Signal(p)
    BY <2>8 DEF Signal, Answers
  <2>9. CASE Bye(p)
    BY <2>9 DEF Bye, Exit, End, Flagged, ClearPid
  <2>10. ASSUME NEW q \in Pids, Daemonize(p, q) PROVE TypeOK'
    BY <2>10 DEF Daemonize
  <2>11. CASE FailsEarly(p)
    BY <2>11 DEF FailsEarly, Exit, End, Flagged, ClearPid
  <2>12. CASE Promoted(p)
    BY <2>12 DEF Promoted, Go
  <2>13. CASE RemovesOld(p)
    BY <2>13 DEF RemovesOld, Go, Unlink, ClearPid
  <2>14. CASE Creates(p)
    BY <2>14 DEF Creates, Go, Unused
  <2>15. CASE Writes(p)
    BY <2>15 DEF Writes, Go, WrittenOver
  <2>16. CASE Closes(p)
    BY <2>16 DEF Closes, Go
  <2>17. CASE LeaveFails(p)
    BY <2>17 DEF LeaveFails, Exit, End, Flagged, ClearPid
  <2>18. CASE Sets(p)
    BY <2>18 DEF Sets, Go
  <2>19. CASE ListenerFails(p)
    BY <2>19 DEF ListenerFails, Go, ListenerIsNot
  <2>20. CASE Restarts(p)
    BY <2>20 DEF Restarts, Go
  <2>21. CASE Stops(p)
    BY <2>21 DEF Stops
  <2>22. CASE Exits(p)
    BY <2>22 DEF Exits, Exit, End, Flagged, ClearPid
  <2>23. CASE Crash(p)
    BY <2>23 DEF Crash, End
  <2> QED
    BY <1>2, <2>1, <2>2, <2>3, <2>4, <2>5, <2>6, <2>7, <2>8, <2>9, <2>10,
       <2>11, <2>12, <2>13, <2>14, <2>15, <2>16, <2>17, <2>18, <2>19, <2>20,
       <2>21, <2>22, <2>23 DEF Step
<1> QED
  BY <1>1, <1>2 DEF Next

\* A step that ends the last daemon removes the file, or kills the daemon.
LEMMA GoneStep ==
  ASSUME TypeOK, FileGone, [Next]_pvars PROVE FileGone'
<1> USE PidFileAssumption DEF TypeOK, FileGone, Bosses, file, local, hist,
      Boss, Leaving, Up, Main, Looking
<1>1. CASE UNCHANGED pvars
  BY <1>1 DEF pvars, local, file, hist
<1>2. ASSUME NEW p \in Pids, Step(p) PROVE FileGone'
  <2>1. ASSUME NEW c \in Commands, Begin(p, c) PROVE FileGone'
    BY <2>1 DEF Begin, Commands
  <2>2. CASE Look(p)
    BY <2>2 DEF Look, Go
  <2>3. CASE Read(p)
    BY <2>3 DEF Read, Go
  <2>4. CASE NotNamed(p)
    BY <2>4 DEF NotNamed, Go, Named
  <2>5. CASE Found(p)
    BY <2>5 DEF Found, Go, Named
  <2>6. CASE Refused(p)
    BY <2>6 DEF Refused, Exit, End, Flagged, ClearPid
  <2>7. CASE NotWorking(p)
    BY <2>7 DEF NotWorking, Exit, End, Flagged, ClearPid
  <2>8. CASE Signal(p)
    <3>1. PICK a \in Answers(seen[p], cmd[p]) :
            /\ at' = [at EXCEPT ![p] = "bye",
                                ![seen[p]] = IF seen[p] = p THEN "bye" ELSE a]
            /\ killed' = (killed \/ (seen[p] \in Bosses /\ a = "free"))
            /\ link' = link
      BY <2>8 DEF Signal
    <3>2. at[p] = "kill" /\ seen[p] \in Pids
      BY <2>8 DEF Signal
    <3>3. ASSUME NEW b \in Bosses, ~killed' PROVE at'[b] \in Boss
      BY <3>1, <3>2, <3>3 DEF Answers
    <3> QED
      BY <3>1, <3>3
  <2>9. CASE Bye(p)
    BY <2>9 DEF Bye, Exit, End, Flagged, ClearPid
  <2>10. ASSUME NEW q \in Pids, Daemonize(p, q) PROVE FileGone'
    BY <2>10 DEF Daemonize
  <2>11. CASE FailsEarly(p)
    BY <2>11 DEF FailsEarly, Exit, End, Flagged, ClearPid
  <2>12. CASE Promoted(p)
    BY <2>12 DEF Promoted, Go
  <2>13. CASE RemovesOld(p)
    BY <2>13 DEF RemovesOld, Go, Unlink, ClearPid
  <2>14. CASE Creates(p)
    BY <2>14 DEF Creates, Go, Unused
  <2>15. CASE Writes(p)
    BY <2>15 DEF Writes, Go, WrittenOver
  <2>16. CASE Closes(p)
    BY <2>16 DEF Closes, Go
  <2>17. CASE LeaveFails(p)
    BY <2>17 DEF LeaveFails, Exit, End, Flagged, ClearPid
  <2>18. CASE Sets(p)
    BY <2>18 DEF Sets, Go
  <2>19. CASE ListenerFails(p)
    BY <2>19 DEF ListenerFails, Go, ListenerIsNot
  <2>20. CASE Restarts(p)
    BY <2>20 DEF Restarts, Go
  <2>21. CASE Stops(p)
    BY <2>21 DEF Stops
  <2>22. CASE Exits(p)
    BY <2>22 DEF Exits, Exit, End, Flagged, ClearPid
  <2>23. CASE Crash(p)
    BY <2>23 DEF Crash, End
  <2> QED
    BY <1>2, <2>1, <2>2, <2>3, <2>4, <2>5, <2>6, <2>7, <2>8, <2>9, <2>10,
       <2>11, <2>12, <2>13, <2>14, <2>15, <2>16, <2>17, <2>18, <2>19, <2>20,
       <2>21, <2>22, <2>23 DEF Step
<1> QED
  BY <1>1, <1>2 DEF Next

\* A start that begins beside another meets it; a child takes over for main.
LEMMA OverlapStep ==
  ASSUME TypeOK, OverlapsMet, [Next]_pvars PROVE OverlapsMet'
<1> USE PidFileAssumption DEF TypeOK, OverlapsMet, Starting, file, local,
      hist, Boss, Leaving, Up, Main, Looking
<1>1. CASE UNCHANGED pvars
  BY <1>1 DEF pvars, local, file, hist
<1>2. ASSUME NEW p \in Pids, Step(p) PROVE OverlapsMet'
  <2>1. ASSUME NEW c \in Commands, Begin(p, c) PROVE OverlapsMet'
    BY <2>1 DEF Begin, Commands
  <2>2. CASE Look(p)
    BY <2>2 DEF Look, Go
  <2>3. CASE Read(p)
    BY <2>3 DEF Read, Go
  <2>4. CASE NotNamed(p)
    BY <2>4 DEF NotNamed, Go, Named
  <2>5. CASE Found(p)
    BY <2>5 DEF Found, Go, Named
  <2>6. CASE Refused(p)
    BY <2>6 DEF Refused, Exit, End, Flagged, ClearPid
  <2>7. CASE NotWorking(p)
    BY <2>7 DEF NotWorking, Exit, End, Flagged, ClearPid
  <2>8. CASE Signal(p)
    BY <2>8 DEF Signal, Answers
  <2>9. CASE Bye(p)
    BY <2>9 DEF Bye, Exit, End, Flagged, ClearPid
  <2>10. ASSUME NEW q \in Pids, Daemonize(p, q) PROVE OverlapsMet'
    BY <2>10 DEF Daemonize
  <2>11. CASE FailsEarly(p)
    BY <2>11 DEF FailsEarly, Exit, End, Flagged, ClearPid
  <2>12. CASE Promoted(p)
    BY <2>12 DEF Promoted, Go
  <2>13. CASE RemovesOld(p)
    BY <2>13 DEF RemovesOld, Go, Unlink, ClearPid
  <2>14. CASE Creates(p)
    BY <2>14 DEF Creates, Go, Unused
  <2>15. CASE Writes(p)
    BY <2>15 DEF Writes, Go, WrittenOver
  <2>16. CASE Closes(p)
    BY <2>16 DEF Closes, Go
  <2>17. CASE LeaveFails(p)
    BY <2>17 DEF LeaveFails, Exit, End, Flagged, ClearPid
  <2>18. CASE Sets(p)
    BY <2>18 DEF Sets, Go
  <2>19. CASE ListenerFails(p)
    BY <2>19 DEF ListenerFails, Go, ListenerIsNot
  <2>20. CASE Restarts(p)
    BY <2>20 DEF Restarts, Go
  <2>21. CASE Stops(p)
    BY <2>21 DEF Stops
  <2>22. CASE Exits(p)
    BY <2>22 DEF Exits, Exit, End, Flagged, ClearPid
  <2>23. CASE Crash(p)
    BY <2>23 DEF Crash, End
  <2> QED
    BY <1>2, <2>1, <2>2, <2>3, <2>4, <2>5, <2>6, <2>7, <2>8, <2>9, <2>10,
       <2>11, <2>12, <2>13, <2>14, <2>15, <2>16, <2>17, <2>18, <2>19, <2>20,
       <2>21, <2>22, <2>23 DEF Step
<1> QED
  BY <1>1, <1>2 DEF Next

\* A daemon that ends or leaves its loop has not been up all the time.
LEMMA UpStep ==
  ASSUME TypeOK, UpRunning, [Next]_pvars PROVE UpRunning'
<1> USE PidFileAssumption DEF TypeOK, UpRunning, Running, file, local, hist,
      Boss, Leaving, Up, Main, Looking
<1>1. CASE UNCHANGED pvars
  BY <1>1 DEF pvars, local, file, hist
<1>2. ASSUME NEW p \in Pids, Step(p) PROVE UpRunning'
  <2>1. ASSUME NEW c \in Commands, Begin(p, c) PROVE UpRunning'
    BY <2>1 DEF Begin, Commands
  <2>2. CASE Look(p)
    BY <2>2 DEF Look, Go
  <2>3. CASE Read(p)
    BY <2>3 DEF Read, Go
  <2>4. CASE NotNamed(p)
    BY <2>4 DEF NotNamed, Go, Named
  <2>5. CASE Found(p)
    BY <2>5 DEF Found, Go, Named
  <2>6. CASE Refused(p)
    BY <2>6 DEF Refused, Exit, End, Flagged, ClearPid
  <2>7. CASE NotWorking(p)
    BY <2>7 DEF NotWorking, Exit, End, Flagged, ClearPid
  <2>8. CASE Signal(p)
    BY <2>8 DEF Signal, Answers
  <2>9. CASE Bye(p)
    BY <2>9 DEF Bye, Exit, End, Flagged, ClearPid
  <2>10. ASSUME NEW q \in Pids, Daemonize(p, q) PROVE UpRunning'
    BY <2>10 DEF Daemonize
  <2>11. CASE FailsEarly(p)
    BY <2>11 DEF FailsEarly, Exit, End, Flagged, ClearPid
  <2>12. CASE Promoted(p)
    BY <2>12 DEF Promoted, Go
  <2>13. CASE RemovesOld(p)
    BY <2>13 DEF RemovesOld, Go, Unlink, ClearPid
  <2>14. CASE Creates(p)
    BY <2>14 DEF Creates, Go, Unused
  <2>15. CASE Writes(p)
    BY <2>15 DEF Writes, Go, WrittenOver
  <2>16. CASE Closes(p)
    BY <2>16 DEF Closes, Go
  <2>17. CASE LeaveFails(p)
    BY <2>17 DEF LeaveFails, Exit, End, Flagged, ClearPid
  <2>18. CASE Sets(p)
    BY <2>18 DEF Sets, Go
  <2>19. CASE ListenerFails(p)
    BY <2>19 DEF ListenerFails, Go, ListenerIsNot
  <2>20. CASE Restarts(p)
    BY <2>20 DEF Restarts, Go
  <2>21. CASE Stops(p)
    BY <2>21 DEF Stops
  <2>22. CASE Exits(p)
    BY <2>22 DEF Exits, Exit, End, Flagged, ClearPid
  <2>23. CASE Crash(p)
    BY <2>23 DEF Crash, End
  <2> QED
    BY <1>2, <2>1, <2>2, <2>3, <2>4, <2>5, <2>6, <2>7, <2>8, <2>9, <2>10,
       <2>11, <2>12, <2>13, <2>14, <2>15, <2>16, <2>17, <2>18, <2>19, <2>20,
       <2>21, <2>22, <2>23 DEF Step
<1> QED
  BY <1>1, <1>2 DEF Next

\* A start of its own becomes the daemon only when there is none.
LEMMA PathStep ==
  ASSUME IInv, ~raced', [Next]_pvars PROVE OnePath'
<1> USE PidFileAssumption DEF TypeOK, IInv, OverlapsMet, UpRunning, Ordered,
      OnePath, Written, StartSees, CommandSees, Sees, Path, Starting, Bosses,
   Running, file, local, hist, Boss, Leaving, Up, Main, Looking
<1>1. CASE UNCHANGED pvars
  BY <1>1 DEF pvars, local, file, hist
<1>2. ASSUME NEW p \in Pids, Step(p) PROVE OnePath'
  <2>1. ASSUME NEW c \in Commands, Begin(p, c) PROVE OnePath'
    BY <2>1 DEF Begin, Commands
  <2>2. CASE Look(p)
    BY <2>2 DEF Look, Go
  <2>3. CASE Read(p)
    BY <2>3 DEF Read, Go
  <2>4. CASE NotNamed(p)
    BY <2>4 DEF NotNamed, Go, Named
  <2>5. CASE Found(p)
    BY <2>5 DEF Found, Go, Named
  <2>6. CASE Refused(p)
    BY <2>6 DEF Refused, Exit, End, Flagged, ClearPid
  <2>7. CASE NotWorking(p)
    BY <2>7 DEF NotWorking, Exit, End, Flagged, ClearPid
  <2>8. CASE Signal(p)
    BY <2>8 DEF Signal, Answers
  <2>9. CASE Bye(p)
    BY <2>9 DEF Bye, Exit, End, Flagged, ClearPid
  <2>10. ASSUME NEW q \in Pids, Daemonize(p, q) PROVE OnePath'
    <3>1. p \in Starting \ met
      BY <2>10 DEF Daemonize
    <3>2. \A r \in Starting : r = p
      BY <3>1
    <3>3. Bosses = {}
      BY <3>1, <2>10 DEF Daemonize
    <3>4. Path' = {q}
      BY <3>2, <3>3, <2>10 DEF Daemonize
    <3> QED
      BY <3>4
  <2>11. CASE FailsEarly(p)
    BY <2>11 DEF FailsEarly, Exit, End, Flagged, ClearPid
  <2>12. CASE Promoted(p)
    BY <2>12 DEF Promoted, Go
  <2>13. CASE RemovesOld(p)
    BY <2>13 DEF RemovesOld, Go, Unlink, ClearPid
  <2>14. CASE Creates(p)
    BY <2>14 DEF Creates, Go, Unused
  <2>15. CASE Writes(p)
    BY <2>15 DEF Writes, Go, WrittenOver
  <2>16. CASE Closes(p)
    BY <2>16 DEF Closes, Go
  <2>17. CASE LeaveFails(p)
    BY <2>17 DEF LeaveFails, Exit, End, Flagged, ClearPid
  <2>18. CASE Sets(p)
    BY <2>18 DEF Sets, Go
  <2>19. CASE ListenerFails(p)
    BY <2>19 DEF ListenerFails, Go, ListenerIsNot
  <2>20. CASE Restarts(p)
    BY <2>20 DEF Restarts, Go
  <2>21. CASE Stops(p)
    BY <2>21 DEF Stops
  <2>22. CASE Exits(p)
    BY <2>22 DEF Exits, Exit, End, Flagged, ClearPid
  <2>23. CASE Crash(p)
    BY <2>23 DEF Crash, End
  <2> QED
    BY <1>2, <2>1, <2>2, <2>3, <2>4, <2>5, <2>6, <2>7, <2>8, <2>9, <2>10,
       <2>11, <2>12, <2>13, <2>14, <2>15, <2>16, <2>17, <2>18, <2>19, <2>20,
       <2>21, <2>22, <2>23 DEF Step
<1> QED
  BY <1>1, <1>2 DEF Next

\* The one daemon alone changes the file, as far as leave_pid has come.
LEMMA WrittenStep ==
  ASSUME IInv, ~raced', [Next]_pvars PROVE Written'
<1> USE PidFileAssumption DEF TypeOK, IInv, OverlapsMet, UpRunning, Ordered,
      OnePath, Written, StartSees, CommandSees, Sees, Path, Starting, Bosses,
   Running, file, local, hist, Boss, Leaving, Up, Main, Looking
<1>1. CASE UNCHANGED pvars
  BY <1>1 DEF pvars, local, file, hist
<1>2. ASSUME NEW p \in Pids, Step(p) PROVE Written'
  <2>1. ASSUME NEW c \in Commands, Begin(p, c) PROVE Written'
    BY <2>1 DEF Begin, Commands
  <2>2. CASE Look(p)
    BY <2>2 DEF Look, Go
  <2>3. CASE Read(p)
    BY <2>3 DEF Read, Go
  <2>4. CASE NotNamed(p)
    BY <2>4 DEF NotNamed, Go, Named
  <2>5. CASE Found(p)
    BY <2>5 DEF Found, Go, Named
  <2>6. CASE Refused(p)
    BY <2>6 DEF Refused, Exit, End, Flagged, ClearPid
  <2>7. CASE NotWorking(p)
    BY <2>7 DEF NotWorking, Exit, End, Flagged, ClearPid
  <2>8. CASE Signal(p)
    BY <2>8 DEF Signal, Answers
  <2>9. CASE Bye(p)
    BY <2>9 DEF Bye, Exit, End, Flagged, ClearPid
  <2>10. ASSUME NEW q \in Pids, Daemonize(p, q) PROVE Written'
    BY <2>10 DEF Daemonize
  <2>11. CASE FailsEarly(p)
    BY <2>11 DEF FailsEarly, Exit, End, Flagged, ClearPid
  <2>12. CASE Promoted(p)
    BY <2>12 DEF Promoted, Go
  <2>13. CASE RemovesOld(p)
    BY <2>13 DEF RemovesOld, Go, Unlink, ClearPid
  <2>14. CASE Creates(p)
    BY <2>14 DEF Creates, Go, Unused
  <2>15. CASE Writes(p)
    BY <2>15 DEF Writes, Go, WrittenOver
  <2>16. CASE Closes(p)
    BY <2>16 DEF Closes, Go
  <2>17. CASE LeaveFails(p)
    BY <2>17 DEF LeaveFails, Exit, End, Flagged, ClearPid
  <2>18. CASE Sets(p)
    BY <2>18 DEF Sets, Go
  <2>19. CASE ListenerFails(p)
    BY <2>19 DEF ListenerFails, Go, ListenerIsNot
  <2>20. CASE Restarts(p)
    BY <2>20 DEF Restarts, Go
  <2>21. CASE Stops(p)
    BY <2>21 DEF Stops
  <2>22. CASE Exits(p)
    BY <2>22 DEF Exits, Exit, End, Flagged, ClearPid
  <2>23. CASE Crash(p)
    BY <2>23 DEF Crash, End
  <2> QED
    BY <1>2, <2>1, <2>2, <2>3, <2>4, <2>5, <2>6, <2>7, <2>8, <2>9, <2>10,
       <2>11, <2>12, <2>13, <2>14, <2>15, <2>16, <2>17, <2>18, <2>19, <2>20,
       <2>21, <2>22, <2>23 DEF Step
<1> QED
  BY <1>1, <1>2 DEF Next

\* What a start of its own has read speaks of the daemon.
LEMMA StartStep ==
  ASSUME IInv, ~raced', [Next]_pvars PROVE StartSees'
<1> USE PidFileAssumption DEF TypeOK, IInv, OverlapsMet, UpRunning, Ordered,
      OnePath, Written, StartSees, CommandSees, Sees, Path, Starting, Bosses,
   Running, file, local, hist, Boss, Leaving, Up, Main, Looking
<1>1. CASE UNCHANGED pvars
  BY <1>1 DEF pvars, local, file, hist
<1>2. ASSUME NEW p \in Pids, Step(p) PROVE StartSees'
  <2>1. ASSUME NEW c \in Commands, Begin(p, c) PROVE StartSees'
    BY <2>1 DEF Begin, Commands
  <2>2. CASE Look(p)
    BY <2>2 DEF Look, Go
  <2>3. CASE Read(p)
    BY <2>3 DEF Read, Go
  <2>4. CASE NotNamed(p)
    BY <2>4 DEF NotNamed, Go, Named
  <2>5. CASE Found(p)
    BY <2>5 DEF Found, Go, Named
  <2>6. CASE Refused(p)
    BY <2>6 DEF Refused, Exit, End, Flagged, ClearPid
  <2>7. CASE NotWorking(p)
    BY <2>7 DEF NotWorking, Exit, End, Flagged, ClearPid
  <2>8. CASE Signal(p)
    BY <2>8 DEF Signal, Answers
  <2>9. CASE Bye(p)
    BY <2>9 DEF Bye, Exit, End, Flagged, ClearPid
  <2>10. ASSUME NEW q \in Pids, Daemonize(p, q) PROVE StartSees'
    BY <2>10 DEF Daemonize
  <2>11. CASE FailsEarly(p)
    BY <2>11 DEF FailsEarly, Exit, End, Flagged, ClearPid
  <2>12. CASE Promoted(p)
    BY <2>12 DEF Promoted, Go
  <2>13. CASE RemovesOld(p)
    BY <2>13 DEF RemovesOld, Go, Unlink, ClearPid
  <2>14. CASE Creates(p)
    BY <2>14 DEF Creates, Go, Unused
  <2>15. CASE Writes(p)
    BY <2>15 DEF Writes, Go, WrittenOver
  <2>16. CASE Closes(p)
    BY <2>16 DEF Closes, Go
  <2>17. CASE LeaveFails(p)
    BY <2>17 DEF LeaveFails, Exit, End, Flagged, ClearPid
  <2>18. CASE Sets(p)
    BY <2>18 DEF Sets, Go
  <2>19. CASE ListenerFails(p)
    BY <2>19 DEF ListenerFails, Go, ListenerIsNot
  <2>20. CASE Restarts(p)
    BY <2>20 DEF Restarts, Go
  <2>21. CASE Stops(p)
    BY <2>21 DEF Stops
  <2>22. CASE Exits(p)
    BY <2>22 DEF Exits, Exit, End, Flagged, ClearPid
  <2>23. CASE Crash(p)
    BY <2>23 DEF Crash, End
  <2> QED
    BY <1>2, <2>1, <2>2, <2>3, <2>4, <2>5, <2>6, <2>7, <2>8, <2>9, <2>10,
       <2>11, <2>12, <2>13, <2>14, <2>15, <2>16, <2>17, <2>18, <2>19, <2>20,
       <2>21, <2>22, <2>23 DEF Step
<1> QED
  BY <1>1, <1>2 DEF Next

\* What a command has read speaks of the daemon that has been up.
LEMMA CommandStep ==
  ASSUME IInv, ~raced', [Next]_pvars PROVE CommandSees'
<1> USE PidFileAssumption DEF TypeOK, IInv, OverlapsMet, UpRunning, Ordered,
      OnePath, Written, StartSees, CommandSees, Sees, Path, Starting, Bosses,
   Running, file, local, hist, Boss, Leaving, Up, Main, Looking
<1>1. CASE UNCHANGED pvars
  BY <1>1 DEF pvars, local, file, hist
<1>2. ASSUME NEW p \in Pids, Step(p) PROVE CommandSees'
  <2>1. ASSUME NEW c \in Commands, Begin(p, c) PROVE CommandSees'
    BY <2>1 DEF Begin, Commands
  <2>2. CASE Look(p)
    BY <2>2 DEF Look, Go
  <2>3. CASE Read(p)
    BY <2>3 DEF Read, Go
  <2>4. CASE NotNamed(p)
    BY <2>4 DEF NotNamed, Go, Named
  <2>5. CASE Found(p)
    BY <2>5 DEF Found, Go, Named
  <2>6. CASE Refused(p)
    BY <2>6 DEF Refused, Exit, End, Flagged, ClearPid
  <2>7. CASE NotWorking(p)
    BY <2>7 DEF NotWorking, Exit, End, Flagged, ClearPid
  <2>8. CASE Signal(p)
    BY <2>8 DEF Signal, Answers
  <2>9. CASE Bye(p)
    BY <2>9 DEF Bye, Exit, End, Flagged, ClearPid
  <2>10. ASSUME NEW q \in Pids, Daemonize(p, q) PROVE CommandSees'
    BY <2>10 DEF Daemonize
  <2>11. CASE FailsEarly(p)
    BY <2>11 DEF FailsEarly, Exit, End, Flagged, ClearPid
  <2>12. CASE Promoted(p)
    BY <2>12 DEF Promoted, Go
  <2>13. CASE RemovesOld(p)
    BY <2>13 DEF RemovesOld, Go, Unlink, ClearPid
  <2>14. CASE Creates(p)
    BY <2>14 DEF Creates, Go, Unused
  <2>15. CASE Writes(p)
    BY <2>15 DEF Writes, Go, WrittenOver
  <2>16. CASE Closes(p)
    BY <2>16 DEF Closes, Go
  <2>17. CASE LeaveFails(p)
    BY <2>17 DEF LeaveFails, Exit, End, Flagged, ClearPid
  <2>18. CASE Sets(p)
    BY <2>18 DEF Sets, Go
  <2>19. CASE ListenerFails(p)
    BY <2>19 DEF ListenerFails, Go, ListenerIsNot
  <2>20. CASE Restarts(p)
    BY <2>20 DEF Restarts, Go
  <2>21. CASE Stops(p)
    BY <2>21 DEF Stops
  <2>22. CASE Exits(p)
    BY <2>22 DEF Exits, Exit, End, Flagged, ClearPid
  <2>23. CASE Crash(p)
    BY <2>23 DEF Crash, End
  <2> QED
    BY <1>2, <2>1, <2>2, <2>3, <2>4, <2>5, <2>6, <2>7, <2>8, <2>9, <2>10,
       <2>11, <2>12, <2>13, <2>14, <2>15, <2>16, <2>17, <2>18, <2>19, <2>20,
       <2>21, <2>22, <2>23 DEF Step
<1> QED
  BY <1>1, <1>2 DEF Next

-----------------------------------------------------------------------------
\* The results.

\* The first state has the types.
LEMMA InitTypes == Init => TypeOK
<1> SUFFICES ASSUME Init PROVE TypeOK
  OBVIOUS
<1>1. /\ at \in [Pids -> Boss \cup Main \cup {"daemon", "free"}]
      /\ cmd \in [Pids -> Commands]
      /\ seen \in [Pids -> Pids \cup {NoPid}]
      /\ fd \in [Pids -> Inodes \cup {NoInode}]
      /\ data \in [Inodes -> Pids \cup {NoPid}]
      /\ up \in [Pids -> SUBSET Pids]
  BY DEF Init, Commands
<1>2. \A p \in Pids : at[p] = "free" /\ fd[p] = NoInode
  BY DEF Init
<1> QED
  BY <1>1, <1>2 DEF Init, TypeOK

\* The variables keep their types, and no process holds the pid file open
\* outside exist_pid and leave_pid.
THEOREM PidTypeCorrect == Spec => []TypeOK
<1>1. Init => TypeOK
  BY InitTypes
<1>2. TypeOK /\ [Next]_pvars => TypeOK'
  BY TypeStep
<1> QED
  BY <1>1, <1>2, PTL DEF Spec

\* Whatever commands come and whatever fails, the daemons that end by Exit
\* leave no pid file (Exit, clear_pid).
THEOREM DaemonsLeaveNoFile == Spec => []FileGone
<1>1. Init => FileGone
  BY DEF Init, FileGone
<1>2. TypeOK /\ FileGone /\ [Next]_pvars => FileGone'
  BY GoneStep
<1> QED
  BY <1>1, <1>2, PidTypeCorrect, PTL DEF Spec

\* The file and what every process has read of it agree with the one daemon,
\* as long as no start has overlapped another.
THEOREM FileInvariant == Spec => []IInv
<1>1. Init => IInv
  <2> SUFFICES ASSUME Init PROVE IInv
    OBVIOUS
  <2>1. TypeOK
    BY InitTypes
  <2>2. Starting = {} /\ Path = {} /\ Bosses = {}
    BY DEF Init, Starting, Path, Bosses, Boss, Leaving, Up, Looking
  <2>3. OverlapsMet /\ UpRunning /\ OnePath /\ StartSees /\ CommandSees
    BY <2>2 DEF Init, OverlapsMet, UpRunning, OnePath, StartSees, CommandSees
  <2>4. Written
    BY DEF Init, Written, Boss, Leaving, Up
  <2> QED
    BY <2>1, <2>3, <2>4 DEF IInv, Ordered
<1>2. IInv /\ [Next]_pvars => IInv'
  <2> SUFFICES ASSUME IInv, [Next]_pvars PROVE IInv'
    OBVIOUS
  <2>1. TypeOK' /\ OverlapsMet' /\ UpRunning'
    BY TypeStep, OverlapStep, UpStep DEF IInv
  <2>2. ~raced' => Ordered'
    BY PathStep, WrittenStep, StartStep, CommandStep DEF Ordered
  <2> QED
    BY <2>1, <2>2 DEF IInv
<1> QED
  BY <1>1, <1>2, PTL DEF Spec

\* Starts that do not overlap never make a second daemon (main, exist_pid).
THEOREM NeverTwoDaemons == Spec => []OneDaemon
<1>1. IInv => OneDaemon
  BY DEF IInv, Ordered, OnePath, OneDaemon, Path, Bosses
<1> QED
  BY <1>1, FileInvariant, PTL

\* While it runs, the pid file speaks of the daemon (leave_pid, Exit).
THEOREM FileTellsDaemon == Spec => []FileNamesDaemon
<1>1. IInv => FileNamesDaemon
  BY DEF IInv, Ordered, Written, FileNamesDaemon, Running, Boss, Leaving, Up
<1> QED
  BY <1>1, FileInvariant, PTL

\* No command and no start overlooks a daemon that runs all the time, or takes
\* another process for it (exist_pid, gopt).
THEOREM CommandsFindDaemon == Spec => []DaemonFound
<1>1. IInv => DaemonFound
  <2> SUFFICES ASSUME IInv, ~raced, NEW p \in Pids
               PROVE  /\ at[p] = "none" => up[p] = {}
                      /\ at[p] = "kill" => up[p] \subseteq {seen[p]}
    BY DEF DaemonFound
  <2>1. \A b \in up[p] : at[p] # "bye" => Sees(p, b)
    BY DEF IInv, Ordered, CommandSees
  <2> QED
    BY <2>1 DEF Sees
<1> QED
  BY <1>1, FileInvariant, PTL
=============================================================================
