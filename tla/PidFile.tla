------------------------------ MODULE PidFile ------------------------------
(***************************************************************************)
(* The pid file of pad_svr and everything that reads or writes it: main    *)
(* with the commands of gopt (pad_svr3.c, cmdopt.c), go_daemon, leave_pid, *)
(* exist_pid and clear_pid (leave_pid.c), and the Exit of every process.   *)
(* A process is known by its process id, which the system gives out again; *)
(* the file is a name for an inode, so that a process may still write to   *)
(* a file that another has removed.                                        *)
(***************************************************************************)
EXTENDS FiniteSets

CONSTANTS
  Pids,     \* the process ids
  Long,     \* those of them with more digits
  NoPid,    \* what an empty file says, and no process
  Inodes,   \* bound: the files there may be at a time
  NoInode,  \* the pid file does not exist
  Faults    \* "early": before the pid file, "leave": in leave_pid,
            \* "crash": a process is killed

ASSUME PidFileAssumption ==
  /\ NoPid \notin Pids /\ Long \subseteq Pids
  /\ NoInode \notin Inodes
  /\ Faults \subseteq {"early", "leave", "crash"}

VARIABLES
  at,      \* where the process with this id is
  cmd,     \* what it was started for
  seen,    \* what it has read from the pid file
  fd,      \* the inode it has open
  link,    \* the inode that has the name of the pid file
  data,    \* what is written in each inode
  met,     \* the starts that overlapped with another one
  raced,   \* one of them has become a daemon, and daemons have run ever since
  killed,  \* a daemon has ended without Exit since the file was last removed
  up       \* the daemons that have run since this command began

local == <<at, cmd, seen, fd>>
file  == <<link, data>>
hist  == <<met, raced, killed, up>>
pvars == <<local, file, hist>>

Leaving == {"unlink", "open", "write"}               \* in leave_pid
Up      == {"run", "again"}                          \* in do_monitor
Boss    == Leaving \cup {"close", "setup", "exit"} \cup Up
Looking == {"look", "read", "proc"}                  \* in exist_pid
Main    == Looking \cup {"none", "kill", "bye"}

Commands == {"start", "stop", "reread"}

Init ==
  /\ at = [p \in Pids |-> "free"]
  /\ cmd = [p \in Pids |-> "start"]
  /\ seen = [p \in Pids |-> NoPid]
  /\ fd = [p \in Pids |-> NoInode]
  /\ link = NoInode /\ data = [i \in Inodes |-> NoPid]
  /\ met = {} /\ raced = FALSE /\ killed = FALSE
  /\ up = [p \in Pids |-> {}]

TypeOK ==
  /\ at \in [Pids -> Boss \cup Main \cup {"daemon", "free"}]
  /\ cmd \in [Pids -> Commands]
  /\ seen \in [Pids -> Pids \cup {NoPid}]
  /\ \A p \in Pids : at[p] = "kill" => seen[p] # NoPid
  /\ fd \in [Pids -> Inodes \cup {NoInode}]
  /\ \A p \in Pids : fd[p] # NoInode <=> at[p] \in {"read", "write", "close"}
  /\ link \in Inodes \cup {NoInode} /\ data \in [Inodes -> Pids \cup {NoPid}]
  /\ met \subseteq Pids /\ raced \in BOOLEAN /\ killed \in BOOLEAN
  /\ up \in [Pids -> SUBSET Pids]

Bosses == {p \in Pids : at[p] \in Boss}
Running == {p \in Pids : at[p] \in Up}

\* A start between its look at the pid file and its own entry in it.
Starting ==
  {p \in Pids : \/ at[p] \in Looking \cup {"none"} /\ cmd[p] = "start"
                \/ at[p] \in Leaving \cup {"daemon"}}

-----------------------------------------------------------------------------
\* A process goes from one place to the next, and no daemon ends by that.
Go(p, next) ==
  /\ at' = [at EXCEPT ![p] = next]
  /\ UNCHANGED up

\* The process with id p ends.  An id that is free for this program may be
\* another program's: exist_pid makes nothing of that.
End(p) ==
  /\ at' = [at EXCEPT ![p] = "free"]
  /\ cmd' = [cmd EXCEPT ![p] = "start"]
  /\ seen' = [seen EXCEPT ![p] = NoPid]
  /\ fd' = [fd EXCEPT ![p] = NoInode]
  /\ met' = met \ {p}
  /\ up' = [q \in Pids |-> IF q = p THEN {} ELSE up[q] \ {p}]

\* Flag_Iamboss; the mutants are without it, or set it after leave_pid.
FlaggedAlways(p) == TRUE
FlaggedLate(p)   == at[p] \in Up \cup {"setup", "exit"}
Flagged(p) == at[p] \in Boss

ClearPid == link' = NoInode /\ killed' = FALSE

\* Exit: the daemon removes the pid file, whosever it is.
Exit(p) ==
  /\ End(p)
  /\ IF Flagged(p) THEN ClearPid ELSE UNCHANGED <<link, killed>>
  /\ UNCHANGED <<data, raced>>

-----------------------------------------------------------------------------
\* main: a start, or a command.

Begin(p, c) ==
  /\ at[p] = "free"
  /\ at' = [at EXCEPT ![p] = "look"]
  /\ cmd' = [cmd EXCEPT ![p] = c]
  /\ met' = IF c = "start" /\ Starting # {} THEN met \cup Starting \cup {p}
            ELSE met
  /\ up' = [up EXCEPT ![p] = Running]
  /\ UNCHANGED <<seen, fd, file, raced, killed>>

\* exist_pid: open the file,
Look(p) ==
  /\ at[p] = "look"
  /\ Go(p, IF link = NoInode THEN "none" ELSE "read")
  /\ fd' = [fd EXCEPT ![p] = link]
  /\ UNCHANGED <<cmd, seen, file, met, raced, killed>>

\* read it; the mutant leaves it open,
ReadLeaks(p) ==
  /\ at[p] = "read"
  /\ Go(p, "proc")
  /\ seen' = [seen EXCEPT ![p] = data[fd[p]]]
  /\ UNCHANGED <<cmd, fd, file, met, raced, killed>>

Read(p) ==
  /\ at[p] = "read"
  /\ Go(p, "proc")
  /\ seen' = [seen EXCEPT ![p] = data[fd[p]]]
  /\ fd' = [fd EXCEPT ![p] = NoInode]
  /\ UNCHANGED <<cmd, file, met, raced, killed>>

\* and look at the name of the process it speaks of.
Named(q) == q # NoPid /\ at[q] # "free"

NotNamed(p) ==
  /\ at[p] = "proc" /\ ~Named(seen[p])
  /\ Go(p, "none")
  /\ seen' = [seen EXCEPT ![p] = NoPid]
  /\ UNCHANGED <<cmd, fd, file, met, raced, killed>>

Found(p) ==
  /\ at[p] = "proc" /\ Named(seen[p]) /\ cmd[p] # "start"
  /\ Go(p, "kill")
  /\ UNCHANGED <<cmd, seen, fd, file, met, raced, killed>>

\* "Process already running."
Refused(p) ==
  /\ at[p] = "proc" /\ Named(seen[p]) /\ cmd[p] = "start"
  /\ Exit(p)

\* "is not working."
NotWorking(p) ==
  /\ at[p] = "none" /\ cmd[p] # "start"
  /\ Exit(p)

\* What a signal to the group of q leads to.  The daemon leads a group from
\* its start; until do_monitor blocks signals it is killed, and then a stop
\* may end it through its listener.  Another process may lead a group or not.
Answers(q, c) ==
  IF at[q] \in Leaving \cup {"close", "setup"} THEN {"free"}
  ELSE IF at[q] \in Up /\ c = "stop" THEN {at[q], "exit"}
  ELSE IF at[q] \in Boss \cup {"free"} THEN {at[q]}
  ELSE {at[q], "free"}

Signal(p) ==
  LET q == seen[p] IN
  /\ at[p] = "kill"
  /\ \E a \in Answers(q, cmd[p]) :
       /\ at' = [at EXCEPT ![p] = "bye", ![q] = IF q = p THEN "bye" ELSE a]
       /\ killed' = (killed \/ (q \in Bosses /\ a = "free"))
       /\ up' = [r \in Pids |-> IF a \in Up THEN up[r] ELSE up[r] \ {q}]
       /\ met' = IF a = "free" THEN met \ {q} ELSE met
       /\ fd' = IF a = "free" THEN [fd EXCEPT ![q] = NoInode] ELSE fd
       /\ seen' = IF a = "free" THEN [seen EXCEPT ![q] = NoPid] ELSE seen
  /\ UNCHANGED <<cmd, file, raced>>

Bye(p) ==
  /\ at[p] = "bye"
  /\ Exit(p)

\* go_daemon: the child goes on, with a new id; the parent exits.
Daemonize(p, q) ==
  /\ at[p] = "none" /\ cmd[p] = "start" /\ at[q] = "free"
  /\ at' = [at EXCEPT ![p] = "bye", ![q] = "daemon"]
  /\ cmd' = [cmd EXCEPT ![q] = "start"]
  /\ raced' = (p \in met \/ (raced /\ Bosses # {}))
  /\ met' = IF p \in met THEN (met \ {p}) \cup {q} ELSE met
  /\ UNCHANGED <<seen, fd, file, killed, up>>

\* Exit, or exit, before there is a pid file: it cannot be read, nor can the
\* configuration; the log, fork or what go_daemon needs fails.
FailsEarly(p) ==
  /\ "early" \in Faults
  /\ \/ at[p] \in {"read", "daemon"}
     \/ at[p] = "none" /\ cmd[p] = "start"
  /\ Exit(p)

-----------------------------------------------------------------------------
\* The daemon: leave_pid, and what ends with the monitor.

Promoted(p) ==
  /\ at[p] = "daemon"
  /\ Go(p, "unlink")
  /\ UNCHANGED <<cmd, seen, fd, file, met, raced, killed>>

\* clear_pid in leave_pid; the mutant leaves the old file there.
UnlinkNot == UNCHANGED <<link, killed>>
Unlink == ClearPid

RemovesOld(p) ==
  /\ at[p] = "unlink"
  /\ Go(p, "open")
  /\ Unlink
  /\ UNCHANGED <<cmd, seen, fd, data, met, raced>>

Unused == Inodes \ ({link} \cup {fd[p] : p \in Pids})

\* open(O_CREAT), of a file that may be there all the same.
Creates(p) ==
  /\ at[p] = "open"
  /\ Go(p, "write")
  /\ \/ /\ link # NoInode
        /\ fd' = [fd EXCEPT ![p] = link] /\ UNCHANGED file
     \/ /\ link = NoInode
        /\ \E i \in Unused :
             /\ link' = i
             /\ fd' = [fd EXCEPT ![p] = i]
             /\ data' = [data EXCEPT ![i] = NoPid]
  /\ UNCHANGED <<cmd, seen, met, raced, killed>>

\* Nothing truncates the file: what a longer id has left behind the shorter
\* one makes it another id of that length.
WrittenOver(old, p) == IF old \in Long /\ p \notin Long THEN Long ELSE {p}

Writes(p) ==
  /\ at[p] = "write"
  /\ Go(p, "close")
  /\ \E w \in WrittenOver(data[fd[p]], p) : data' = [data EXCEPT ![fd[p]] = w]
  /\ UNCHANGED <<cmd, seen, fd, link, met, raced, killed>>

Closes(p) ==
  /\ at[p] = "close"
  /\ Go(p, "setup")
  /\ fd' = [fd EXCEPT ![p] = NoInode]
  /\ UNCHANGED <<cmd, seen, file, met, raced, killed>>

LeaveFails(p) ==
  /\ "leave" \in Faults /\ at[p] \in {"open", "write", "close"}
  /\ Exit(p)

\* setup_pts_addr, moni_setsignal and do_monitor up to its loop.
Sets(p) ==
  /\ at[p] = "setup"
  /\ Go(p, "run")
  /\ UNCHANGED <<cmd, seen, fd, file, met, raced, killed>>

\* Flag_Iamboss of the listener; the mutant keeps the monitor's over fork.
ListenerInherits == ClearPid
ListenerIsNot == UNCHANGED <<link, killed>>

\* The listener exits on an error and is started again, or that fails.
ListenerFails(p) ==
  /\ at[p] = "run"
  /\ Go(p, "again")
  /\ ListenerIsNot
  /\ UNCHANGED <<cmd, seen, fd, data, met, raced>>

Restarts(p) ==
  /\ at[p] = "again"
  /\ Go(p, "run")
  /\ UNCHANGED <<cmd, seen, fd, file, met, raced, killed>>

\* The listener has stopped, or no new one can be forked.
Stops(p) ==
  /\ at[p] \in Up
  /\ at' = [at EXCEPT ![p] = "exit"]
  /\ up' = [q \in Pids |-> up[q] \ {p}]
  /\ UNCHANGED <<cmd, seen, fd, file, met, raced, killed>>

Exits(p) ==
  /\ at[p] = "exit"
  /\ Exit(p)

-----------------------------------------------------------------------------
\* A process is killed: a daemon leaves its pid file.
Crash(p) ==
  /\ "crash" \in Faults /\ at[p] # "free"
  /\ End(p)
  /\ killed' = (killed \/ p \in Bosses)
  /\ UNCHANGED <<file, raced>>

Step(p) ==
  \/ \E c \in Commands : Begin(p, c)
  \/ Look(p) \/ Read(p) \/ NotNamed(p) \/ Found(p) \/ Refused(p)
  \/ NotWorking(p) \/ Signal(p) \/ Bye(p)
  \/ \E q \in Pids : Daemonize(p, q)
  \/ FailsEarly(p) \/ Promoted(p) \/ RemovesOld(p) \/ Creates(p)
  \/ Writes(p) \/ Closes(p) \/ LeaveFails(p) \/ Sets(p)
  \/ ListenerFails(p) \/ Restarts(p) \/ Stops(p) \/ Exits(p) \/ Crash(p)

Next == \E p \in Pids : Step(p)

Spec == Init /\ [][Next]_pvars

-----------------------------------------------------------------------------
\* Starts that do not overlap leave one daemon, whatever was killed before,
\* whatever failed and whoever has the ids by now (main, exist_pid).
OneDaemon == ~raced => \A p, q \in Bosses : p = q

\* The pid file speaks of the daemon that runs: no command, no start that was
\* refused or failed and no end of a listener has taken it away or changed it.
FileNamesDaemon ==
  ~raced => \A p \in Running : link # NoInode /\ data[link] = p

\* A command or a start that has looked finds the daemon that was running all
\* the time, and no other (gopt, main).
DaemonFound ==
  ~raced => \A p \in Pids :
    /\ at[p] = "none" => up[p] = {}
    /\ at[p] = "kill" => up[p] \subseteq {seen[p]}

\* Daemons that end, even those started together or in leave_pid, leave no pid
\* file, unless one was killed (Exit, Flag_Iamboss).
FileGone == Bosses = {} /\ ~killed => link = NoInode
=============================================================================
