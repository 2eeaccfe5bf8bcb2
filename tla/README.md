# pad_svr in TLA+

`pad_svr` is an X.25 PAD server for Linux: it listens for X.25 calls and gives
each caller a login on a pseudo terminal (pty).  This directory holds TLA+
modules translated from `src/`, TLC configurations that check them on small
instances, and proofs, checked by TLAPS, of theorems about them for every value
of their constants.

Run TLC as `tlc -config <run>.cfg <MC module>.tla` (the table of runs names the
module) and the proofs as `tlapm <module>.tla`.

## 1. The system

### Parts, state and operations

| Part | Code | State it keeps | Operations |
|---|---|---|---|
| session: copy loop | `do_copy.c` | `Done`, the buffer `bufd2` with `totali`, `freesize`, `minlimit`, the `Flag_*_ex` flags, the poll results | a pass: poll, drain the pipe, `do_inter`, look at the results, read from pty or call, write to the other side, flush |
| session: end | `do_copy.c` (`wait_net`, `wait_exitstatus`), `x29inv_clear` | `Done`, the net timer, the status of the login process | invitation to clear, wait for the far end, close, wait for the login process, exit |
| session: start | `pad_svr3.c` 366-403 | signal mask, `Flag_pts_addr_send_status` | list the session, send the X.29 profile, fork the login, install handlers |
| signals and timers | `sighandler.c`, `watchdog.c` | `Flag_*`, `Chil_pipefd`, `Wtimer`, `Rtimer` | handlers: set the flag, write to the pipe; arm and disarm |
| writing in pieces | `writen.c` | what is left, consecutive errors | `writen` (pty, FIFO), `writensockint` (X.25, a Q byte before each piece) |
| monitor | `monitor.c` | `flag_need_start`, `Flag_*`, the table | start and restart the listener, serve SIGCHLD, SIGHUP, SIGIO, SIGUSR1 in `sigsuspend` |
| listener | `pad_svr3.c` `do_main_work`, `do_inter` | `Done`, `Flag_*` | accept, fork a session, reap, reload, stop |
| pts-addr table | `pts_addr.c` | a list of slots, the FIFO | `ins_entry`, `clean_entry`, `read_fifo`, `send_pts_addr` |
| pid file, commands | `leave_pid.c`, `cmdopt.c` | the pid file | `leave_pid`, `exist_pid`, `clear_pid`; `stop`, `reread` |
| configuration | `cfgfile.c` | the configuration variables | `readcfg`, `writecfg`, `paclen`, `faclen` |
| X.29 messages | `x29proto.c` | none | SET, invitation to clear, indication of break |
| issue banner | `issue.c` | none | expand escapes, write |
| others | `open_x25.c`, `ptypair.c`, `do_utmp.c`, `loging.c`, `x25trace.c` | the system's | set up a socket, a pty, a utmp record; log |

### How they interact

- The monitor forks the listener and learns of its end by SIGCHLD and its exit
  code.  All its signals are blocked outside `sigsuspend`.
- The listener forks one process for each call and learns of its end by SIGCHLD.
- A session tells the monitor of its beginning and end by a message in a FIFO,
  written with `O_NONBLOCK`; the FIFO is `O_ASYNC`, so the monitor gets SIGIO.
- A session, the login process and the terminal exchange bytes through the pty
  and the X.25 socket.  The handlers of a session set a flag and write a byte to
  a pipe that its `poll` watches.
- The operator signals the process group: `stop` sends SIGTERM, `reread` sends
  SIGUSR1, and SIGHUP has the configuration read again.

### What is hard

- Signals at every point: before handlers are installed, between the test of a
  flag and the call that sleeps, in the middle of a packet written in pieces.
- A `poll` loop with two timers, one of which (the watchdog) is armed again in
  every pass and reused for the net timeout.
- The flush policy: a threshold `minlimit` that moves with what was read and
  sent, an idle timer, and a "direct" mode, switched by a reload at run time.
- Calls that fail half way: short writes, EINTR after some bytes, an X.25 call
  that ends under a write (SIGPIPE), a pty that hangs up with output held back.
- Several exits of a session, each of which has to leave the table once; all but
  one do (the `exit(1)` of `loging.c`).
- Messages that outlive the session that sent them, in a FIFO that may be full,
  for slots and process ids that are used again.

### What makes each part correct

- Copy loop: output arrives in order, once, nothing missing while the session
  serves; what is held back is always due to be sent; reads stay in the buffer.
- End of a session: every wait ends; `do_copy` and `Exit` between them
  withdraw the session from the table, once.
- Signals and timers: nothing that happened is slept on.
- Monitor and listener: one listener at a time; a stop ends the daemon; a failed
  listener comes back.
- Table: each live session once, no ended one.
- Pid file: one daemon at a time, as long as starts do not overlap; its file
  names it and goes with it; commands reach it.
- Configuration: what a process takes from the file is what the kernel accepts,
  and what it writes it would read back.  X.29: the parameters of the line.
- Issue: no escape is lost or made where a line is cut; nothing leaves its buffer.

## 2. Modules

    SessionState <- SessionEnv <- SessionCalls <- CopyLoop <- Session
       <- SessionProps <- MCSession            (checked by TLC)
                       <- SessionProofs <- SessionSafety, SessionOrder (proofs)
    TerminalStream    abstract specification, INSTANCE in SessionProps
    PtsTable <- Daemon <- MCDaemon, DaemonProofs
    PtsRegister       abstract specification, INSTANCE in Daemon
    PidFile <- MCPidFile, PidFileProofs
    X29Profile <- Config <- ConfigProofs
                  Issue  <- IssueProofs
    Config, Issue <- MCFiles
    Recursion         induction, <- DaemonProofs, ConfigProofs, IssueProofs

(`A <- B`: B extends A.)

### A session

`SessionState` has the variables, `SessionEnv` what happens around the process,
`SessionCalls` what it does inside writes (`writensockint`, `writen`, X.29) and
`do_inter`, `CopyLoop` the loop of `do_copy`, `Session` the start and the end
and the fairness.

- `pc` is the place in the code.  One pass of the loop is `loop` (line 320,
  timer armed) - `poll` - `pipe` (drain) - `inter` (`do_inter`) - `check` (the
  poll results) - `rdm`, `wdirect` (pty to call) - `rds`, `wpty` (call to pty) -
  `flush`, `wflush` - `loop`.  The end is `out`, `inv`, `net...` (`wait_net`),
  `close`, `st...` (`wait_exitstatus`), `gone`, behind `Exit` and `exit`.  `killed`
  is the end by a signal: SIGPIPE, or `fclose(NULL)` in `readcfg`.
- `sendStatus` is `Flag_pts_addr_send_status` (1 listed, 2 withdrawn by
  `do_copy`), which `Exit` looks at, and `withdrawn` counts the messages that
  withdraw the entry.  `ReloadFails` is a SIGHUP on which the log file cannot be
  had: it ends the process by `exit(1)`, without what `Exit` does.
- `rev` is what `poll` returned; the pass looks at that, and no longer at the
  world, which has moved on.  An event is removed when the code has used it.
- `flags` are the `Flag_*` variables, `wake` the pipe, `eintr` that the system
  call in progress will return EINTR, `intr` the `errno` left behind by the last
  failed call, which `do_copy.c` reads later.
- A handler (`Handler`) runs between any two steps; if it finds the process in a
  call that sleeps (`Blocked`), the call may return EINTR.  Before
  `chil_setsignal` it does not write to the pipe.
- Timers are armed (`wtimer`, `rtimer`) or not; an armed one may expire at any
  time.  Their lengths are not modelled.
- Output bytes are numbered 1, 2, 3, ...: `taken` of `produced` are read, `buf`
  is held, `out` is in a write, `sent` has reached the terminal.  Input is
  counted within a packet: `wpos` bytes of it since `writen` was called, `wseen`
  of it in the pty.
- Packets have a kind: data, without data, and the three X.29 messages that the
  code tells apart.

Every write is in pieces: `WriteSome` moves any number of bytes, and before the
next piece the model has the Q byte placed over the last byte sent, as
`writensockint` does.

Three facts about the kernel are not in the repository and were established
with small programs: writing to the master of a pty after the slave has closed
succeeds until the buffer is full and then sleeps; a hung-up pty reports POLLIN
with POLLHUP while output is left, and EIO on read after it; an interrupted
`poll` leaves no event in `revents`.

`TerminalStream` says what a session promises: the terminal receives a prefix
of the output, in pieces, and nothing after the close.  The refinement maps
`written <- produced`, `delivered <- sent`, `open` to the places before the end.

### The daemon

`PtsTable` has the table as a sequence of slots: `FindFree`, `InsEntry`,
`CleanEntry` and `Receive` are `find_free` with `alloc_new`, `ins_entry`,
`clean_entry` and the body of `read_fifo`, and `ReceiveAll` is its loop over what
lies in the FIFO.  `Stored` is the cut to `MAXCHARPID` digits.

`Daemon` composes the monitor (`mpc`: `fork`, `wait` in sigsuspend, `chld` at
the SIGCHLD block, `io` for the rest of a pass, `exit`, `gone`), the listeners
started one after the other (`lis`: `boot` before `boot_setsignal`'s work is
done, `open` in `open_listen`, `top` of the loop, `accept`, `reap`, `clear` and
`inter` in `do_inter`), the sessions (`ses`: `new`, `listed`, `plain` when the
FIFO could not be opened, `left` after the message of `Exit`, `zombie`), the
FIFO and the operator.

- Signals to the monitor collect in `mpend` and run in `Wake` only.
- A signal to the listener sets its flag (`lfl`); `lint`, that accept returns
  EINTR, is set only if the listener sleeps in it.  That a flag set elsewhere
  is not looked at is the code's behaviour, not an omission.
- `wait()` blocks (`Child` needs a listener that has ended).  It is reached by a
  SIGCHLD without an exit too: `Suspended`, for a listener that is stopped and
  continued (the handlers are without `SA_NOCLDSTOP`).
- `Exit` of a session and the exit of its process are two steps, as are `waitpid`
  and `Flag_Chld = 0`, with the window between them.
- The listener inherits the read end of the FIFO from the monitor, and the
  sessions from it, so a message to a monitor that has gone does not raise
  SIGPIPE; it is never read.
- `astray` collects the sessions one of whose messages was not written, because
  the FIFO was full or the process was killed before it.
- A reload that fails ends the process that reloads, without `Exit`: the monitor
  (`mpc = "lost"`), whose listener goes on without it, or the listener, which
  counts as an error (log file) or as killed (`fclose(NULL)` in `readcfg`).

`PtsRegister` says what the table promises: a set of numbers, which a session
enters when it comes and leaves when it goes, and a loss of one of its messages
that spoils its own number only, until the next message of that number arrives.
The refinement maps `told` to the numbers of the listed sessions, `entered` to
what a monitor that reads all that is on its way will have (`InOrAhead` and
`NotTakenOut`), `wrong` to the numbers of `astray`.  Reading a message is
therefore no step of the register, which is what `ins_entry` and `clean_entry`
have to be right for.

### The pid file

`PidFile` has any number of processes with the program's name, each known by its
process id, which the system gives out again when it ends.  `at` is the place:
`look`, `read`, `proc` in `exist_pid`; `none` (nothing found) and `kill` (found)
behind it; `bye` of a process that only exits; `daemon` in `go_daemon`; `unlink`,
`open`, `write`, `close` in `leave_pid`; `setup`; `run` and `again` (a listener is
to be started) in `do_monitor`; `exit`.  Every system call on the file is a step.

- The file is `link`, the inode that has the name, and `data`, what each inode
  holds: a process that has opened the file goes on writing to it when another
  has removed the name.  A created file is empty until it is written.
- `leave_pid` does not truncate.  If a longer id is in a file, a shorter one
  written over it leaves another id of the longer length (`WrittenOver`).
- `exist_pid` takes any living process of that name for the daemon (`Named`).
- `Answers` is what a signal does to whom it finds: before its masks are set a
  daemon is killed by it and leaves the file.
- `met`, `raced`, `killed` and `up` are history.  `raced` marks what the source
  does nothing against: two starts that overlap.

### Configuration, X.29 profile and issue

`Config` reads a file line by line.  A file is `edited`, with any line of the
constants `Numbers`, `Addresses` and `Profiles` in any order, or `written` by
`writecfg`, with the lines it wrote.  The process may fail to open it, to create
it, and dies after it has created it, since line 167 closes what line 57 has not
opened.  `Kept` is what a setting becomes, `faclen` the number of shifts.
`X29Profile` turns a profile line into the table and its length, and these into
the parameters of the SET message (`Sent`; `Takes` is the test of a pair and
`Accepted` the loop over the pairs), with the code's convention that the
length is the index of the last one, and what that means for profiles of one.
A line of more parameters than the table has room for is written on behind the
table, over other variables: the step is `Overflow`, and at the place `wild`
nothing more is said of the process than that it can be stopped.

`Issue` scans the file in the pieces `fgets` gives (`LastOf`: a line, or what
fits), carries `flagc` and the last character over, and puts the expansion in
`bufout` as far as there is room.  `Expansion`, with `EscapedIn` and `StandsFor`,
is the reference: the same text without pieces and buffers.

## 3. Runs

| Run | Module | Bounds | Shows |
|---|---|---|---|
| `session_output` | MCSession | buffer of 2, direct or held back; 5 bytes out, 1 packet in; pty of 3; every call fails | `TypeOK`; `OutputInOrder`: order, no loss, no repetition through short writes; `HeldBytesDue`; `MinlimitPositive`; `StreamKept`: a session implements `TerminalStream` |
| `session_lifecycle` | MCSession | 2 bytes out, 1 packet, SIGTERM, SIGHUP between direct and held back, end of the login process, no log file, no configuration file, no memory | `PollWakes`, `ExpiryNoticed`: no poll for ever, none on an expired timer; `WithdrawnOnce`: withdrawn from the table after serving, once; `EntryRemoved`: by every exit but that of `loging.c`; `ReadsFitBuffer` |
| `session_forwards` | MCSession | 2 bytes out, 1 packet (3 bytes of data, or clear), pty of 2, stop, hang-up | `HangupFlushed`; liveness, both ends serving, no help from the watchdog: `OutputForwarded`, `StopLeaves`, `HangupLeaves`, but for a session in `PtyStuck` |
| `session_closing` | MCSession | pty of 1, packets of 2, all ends | liveness, ends stuck or not: `WaitsEnd`; `ExpiredEnds` |
| `daemon_table` | MCDaemon | 3 calls, 2 process ids, FIFO of 2, SIGUSR1, killed sessions | `TypeOK`; `FifoNoticed`; `TableFollows`; `RegisterKept`: the daemon implements `PtsRegister` |
| `daemon_stop` | MCDaemon | 1 call, 2 listeners, FIFO of 1, SIGTERM, SIGHUP, SIGSTOP, all faults, failing reloads | `OneListener`; liveness: `StopHeard`; `MessagesRead`: what sessions send is read |
| `pid_file` | MCPidFile | 2 process ids of one length, 1 longer one, 2 inodes, all faults, crashes | `TypeOK`; `OneDaemon`; `FileNamesDaemon`; `DaemonFound`; `FileGone` |
| `files` | MCFiles | 2 lines, 2 readings, 5 numbers, profiles of up to 3 and of 24, 25 and 26 pairs; issue files of up to 5 of 6 characters, buffer of 4 | `CfgTypeOK`; `FacilitiesValid`; `TimersArm`; `WrittenReadsBack`; `ProfileSent`; `SetFits`: the SET message overruns its memory after a line of 25 parameters and no other; `IssueTypeOK`; `ShownWhole` |
| `false_eof` | MCSession | 8 bytes, buffer of 4 | violation, below |
| `input_twice` | MCSession | 1 packet of 3, SIGHUP | violation |
| `stop_lost` | MCDaemon | no call | violation |
| `reread_ignored` | MCDaemon | no call | violation |

### Why the bounds are enough

The copy loop compares `totali`, `freesize` and `minlimit` with each other and
with 0.  A threshold of 2 with a buffer of 2 and 5 bytes passes through each
outcome: below, at and above the threshold, a full buffer, a flush by timer
after a flush by threshold, a second threshold after the first has moved.  Pty
and packets of 2 or 3 make short writes and an interruption after a first piece
happen.  In `session_forwards` the packet is larger than the pty, so that
`writen` sleeps, and a stop, the hang-up and both timers find it there.  A second packet adds nothing to the invariants, which relate a packet
to the pass that copies it.  `MaxOutput` and `MaxPackets` are bounds of the
environment, not of the session: a session that has had its fill goes on.

Three calls and two process ids make ids and slots be used again with older
messages in a FIFO of 2, which is also full at times; this is the least number
with which a slot becomes free between two others, and with which a number
whose withdrawal was lost is given to a session again, so that it has two slots.
The calls are symmetric in
this run, which has invariants only, as are the ids of a length in `pid_file`.  Two listeners are one restart, and every
state of the monitor is reached with one; `MaxForks` is a bound.

Three process ids are a daemon, what is left of the one before it and a command
or start that looks at either: each property relates at most two processes and
the id in the file.  The third, longer, id makes a file be written over by a
shorter one.  Two inodes are a file with a name and one removed while it is
open.  `raced` excuses no more than it says: `pid_file` reaches states with
overlapping starts and states without, and `FileGone` holds in both.

The numbers of `files` lie below, at and above the limits (-1, 0, 1, 5000) and
make a packet length that is no power of two (6).  Profiles of 24, 25 and 26
pairs are the last that fits the SET message, the last that fits the table and
the first that does not.  Two lines and two readings
are a second value over a first one, in one reading and in a reload.  Texts of
5 characters with pieces of 3 have a cut at each place of an escape and values
that do not fit.  The two are one run, `MCFiles`, whose behaviours are those of
the one or of the other.

### Deadlock

`session_closing` and `session_forwards` set `CHECK_DEADLOCK FALSE`, because a
session can really stop for ever: in a write to a full pty nobody reads any
more.  The daemon runs
set it because a daemon that has ended, with its sessions, takes no step,
`pid_file` because its bound on inodes may be used up, and `files` because a
file that has been read ends the story.

### Fairness

- `ForwardSpec` and `FairSpec` assume that the session process is scheduled
  (`Prompt`) and that an armed timer expires.  `Prompt` contains no step that
  needs the other side: neither taking bytes from the socket (`WriteSome`) nor
  the login process reading its input (`LoginReads`).
- `ForwardSpec` adds that these two happen, which `session_forwards` needs, and
  counts on no watchdog: the code arms it again in every pass, so that under
  steady traffic it does not expire.  `FairSpec` has the watchdog in its place;
  weak fairness asks for an expiry only if the timer stays armed.
- `ExpiredEnds` has what it needs of the two ends as a premise inside the
  property.  A login process that closes its terminal and lives on is excluded
  there (`LoginStays`), since a write to its full pty never returns.
- The daemon's `FairSpec` schedules the monitor and each listener; calls,
  sessions and the operator act when they like.
- `OutputForwarded`, `StopLeaves` and `HangupLeaves` name theirs in `PtyStuck`: the
  login process has closed the pty while `writen` sleeps with a packet it has no
  room for, and the loop at `do_copy.c` 459-469 looks at nothing else.  The
  session is then there for ever, by what the kernel does (above), and not by a
  want of fairness; without the exception `session_forwards` finds it.
- `StopHeard` and `MessagesRead` name their exceptions: a reload that came with
  the stop and failed before it was looked at (`StopUnread`), and a monitor that
  a SIGCHLD without an exit has put into `wait()` (`WaitsForNobody`).

### Findings

Four runs show that the code does not do what a line of the source says.

- `false_eof`: `minlimit` can grow past the buffer, which then fills up; `read`
  of 0 bytes returns 0, which is taken for the EOF of line 424.
- `input_twice`: `writen` returns -1 when interrupted after a first piece, and
  the loop at `do_copy.c` 459 starts again from the first byte.
- `stop_lost`: a SIGTERM that finds the listener outside `accept()` is
  forgotten (`pad_svr3.c` 346-353; `cmdopt.c` 24).
- `reread_ignored`: `reread` sends SIGUSR1, on which the table is written out;
  the configuration is read on SIGHUP only (`cmdopt.c` 25, 59).

The modules show more behaviour that no line of the source speaks against, and
that the hazards of `PROJECT.json` list: with `Forward_idle_timeout` 0 the Q bit
byte that is sent is one nobody wrote after `malloc`; a session whose log file
cannot be had stays in the table; one whose pty is full and closed is there for
ever; the SET message of 25 parameters is 2 bytes longer than its memory, and 26
are more than the table holds; two overlapping starts become two daemons;
a packet length below 0 keeps `readcfg` in `faclen` for ever; a profile of one
parameter counts as none; a reload that fails ends its process.

## 4. Proofs

All theorems hold for every value of the constants that satisfies the ASSUME of
the module.  `SessionProofs` proves `TypeCorrect`, `Spec => []TypeOK`, with one
lemma for each group of actions.  `SessionSafety` and `SessionOrder` prove, from
`SessionAssumption`:

| Theorem | Property | Inductive invariant |
|---|---|---|
| `NeverStuckInPoll`, `PollsWake` | `ExpiryNoticed`, `PollWakes` | `WakeInv` |
| `WithdrawsOnce`, `EntriesRemoved` | `WithdrawnOnce`, `EntryRemoved` | `ListInv` |
| `ThresholdPositive` | `MinlimitPositive` | `LimitInv` |
| `ReadsFit` | `ReadsFitBuffer`, if all settings have one `Buffer_size` | `BufferInv` |
| `HeldBytesSent` | `HeldBytesDue`, if output is held back in all settings | `HeldInv` |
| `FlushedAtHangup` | `HangupFlushed`, likewise | `HangupInv` |
| `OutputSentInOrder` | `OutputInOrder`, if settings agree on holding back | `OrderInv` |
| `SessionIsStream` | `StreamKept`, likewise | `OrderInv` |

`EntryRemoved` is a property of the steps to `gone`: each leaves one withdrawal
behind, or is the `exit(1)` of `loging.c` (`LogLost`) while the session is served.
`ListInv` says that what `Exit` looks at agrees with what was sent.

None of the properties is inductive alone.  `ExpiryNoticed` speaks of the polls;
to reach a poll without an unseen flag the invariant must say, for each place of
a pass, that the pipe still holds the byte or the flags are yet to be read:
`WakeInv`, which also says that from the arming of the timer to its reset an
`ALRM` is the only way for it to be disarmed.  `MinlimitPositive` needs that
what was read last is part of what is held and positive (`LimitInv`), so that
the subtraction in `Shrunk` stays above 0.  `HeldBytesDue` needs to know at each
place of a pass what will send the bytes: the timer, its flag, or one of the two
`_ex` flags already set (`HeldInv`).

`OutputInOrder` says that what was taken from the pty is what was sent, followed
by what is in hand (`Whole`).  That is not kept when a write fails and the rest
is dropped; `OrderInv` adds that then, and only then, the session is on its way
out with nothing left that could be sent after the gap (`Dropped`).  The
refinement follows step by step (`StepOfStream`): a piece written by
`writensockint` is a `Deliver`, what the login process writes a `Produce`, the
end of the loop a `Shut`, and every other step leaves the three variables alone.

Four theorems have a premise.  Where a reload changes `Buffer_size`, the code
reads past the buffer allocated with the old one, and `ReadsFitBuffer` is false.
Where it switches between direct and held back, bytes stay behind without a
timer, are written over, or are discarded at a hang-up; the runs for these have
the settings in which the property holds.

`DaemonProofs` proves, from `DaemonAssumption`:

| Theorem | Property | Argument |
|---|---|---|
| `MessagesNoticed` | `FifoNoticed` | inductive as it stands |
| `NeverTwoListeners` | `OneListener` | `ListenerInv`: a listener that lives or has not been waited for is the last one started, and when one is to be started there is none |
| `DaemonTypeCorrect` | `TypeOK` | with `IdInv`: a session that has begun has a process id and a parent |
| `TableInStep` | `TableFollows`, if process ids fit an entry | `TableInv` |
| `TableIsRegister` | `RegisterKept`, likewise | `TableInv`, and step by step |

`TableFollows` speaks of the table as it will be when the monitor has read the
FIFO, `Settled`, and is not inductive: a session that is announced must find no
slot with its number.  `TableInv` says that a number which no listed session has
is in no slot, that a number is in use once, and that a message that went astray
belongs to a session that has begun.  Three lemmas carry it: reading the first
message does not change `Settled` (`ReceiveTail`), sending one receives it last
(`ReceiveAppend`), and an insertion or deletion changes the slots of its own
number only (`InsertSlots`, `DeleteSlots`).  The refinement (`StepOfRegister`) has
a lemma for each action of a session; for every other step, and for the reading
of a message (`EnteredRead`), the three variables of the register stay as they are.

Both have the premise that the process ids have at most the `MAXCHARPID` digits
of an entry.  Without it they are false: a longer id is cut when it is stored and
compared whole when it is deleted (`pts_addr.c` 199 and 213).

`PidFileProofs` proves, from `PidFileAssumption`:

| Theorem | Property | Argument |
|---|---|---|
| `PidTypeCorrect` | `TypeOK` | inductive |
| `DaemonsLeaveNoFile` | `FileGone` | inductive as it stands: a file exists only with a daemon, or after one was killed |
| `FileInvariant` | `IInv` | below |
| `NeverTwoDaemons`, `FileTellsDaemon`, `CommandsFindDaemon` | `OneDaemon`, `FileNamesDaemon`, `DaemonFound` | from `IInv` |

`IInv` is `TypeOK` with two facts about the history variables (`OverlapsMet`,
`UpRunning`) and, while `raced` is false, `Ordered`, since the three properties
need each other: a second daemon is kept away because a start finds the first
one's id in the file, the id is there because nobody but the daemon removes or
writes the file, and nobody else does because there is no second daemon.  Its
parts are `OnePath` (one daemon, from `go_daemon` on), `Written` (what the file is
at each step of `leave_pid` and after it), `StartSees` and `CommandSees`: a
process half way through `exist_pid` that met no other start, or had a daemon
running all the while, has the inode open that has the name, or has read that
daemon's id.

`ConfigProofs` proves `FacilitiesKnown` (`FacilitiesValid`) and `TimersCanArm`
(`TimersArm`) for all integers in a file, from the invariant `SettingsInv`: each
setting is its built-in value or went through its limits.  Further, from
`ConfigAssumption`:

| Theorem | Property | Inductive invariant |
|---|---|---|
| `ConfigTypeCorrect` | `CfgTypeOK` | `PlacesInv`, with `ProfileInv` for the length of the profile |
| `SetOverrunsWhenFull` | `SetFits` | `ProfileInv`: 25 accepted parameters and a length of 24 go together |
| `ProfileAsGiven` | `ProfileSent` | `ProfileInv`: the table begins with what was accepted of the last line, and has its length |
| `WrittenIsRead` | `WrittenReadsBack` | `WrittenInv` |

`ConfigAssumption` bounds neither the numbers nor the profile lines.  What these
theorems do not speak of is a process that has run over its table (`wild`).

`WrittenInv` has two sides.  What is in a written file is stable: the limits leave
a setting that went through them alone, and `faclen` of a power of two within
them is its exponent (`WrittenStable`, `FaclenOfPower`).  And at each line the
settings of the lines before it are in place (`LineApplied`), since no line
changes the setting of another.

`IssueProofs` proves, for every text, value and buffer size:

| Theorem | Property | Inductive invariant |
|---|---|---|
| `IssueStaysInside` | `IssueTypeOK` | `IssueInv`: what `fgets` guarantees of a piece, the types of text and expansion |
| `NothingLostAtTheCut` | `ShownWhole` | `IssueInv` and `ShowInv`: `flagc` is what the whole text, and not the piece, says of the next character |

`Expansion`, `Accepted` and `ReceiveAll` are recursive functions.  What one of
them computes is known to the provers only after it is shown to exist, by
induction.  The induction theorems of the library are about operators; `Recursion`
has the same as statements about sets, from the well-foundedness of the natural
numbers: `InductionUpTo` for a set that contains 0 and with a number the next,
and `RecursionExists` for a function given by its first value and its step.
`ReadingExists`, `AcceptedType`, `EscapedRule` and `ExpansionRule` apply them.

Every invariant and every action property of the passing runs is stated by a
theorem.  Only model-checked are the liveness properties (`OutputForwarded`,
`StopLeaves`, `HangupLeaves`, `WaitsEnd`, `ExpiredEnds`, `StopHeard`,
`MessagesRead`: fairness and ENABLED are beyond the prover), and the four
violations.

## 5. What is not modelled

- Logging, tracing, hex dumps and echo: no decision depends on them.  That a log
  file cannot be opened is (`ReloadFails`, `ReloadEnds`, `Reloaded`).
- `utmp`: all of `do_utmp.c` that would write a record is commented out.
- Opening the pty pair, the socket and its facilities, `do_login` up to `execl`:
  system calls before anything is concurrent, without state of their own.
- The lengths of timers.  A net timeout that the loop arms again as the watchdog
  is therefore the same timer.
- `do_inter` is one step in a session.  A SIGHUP during `readcfg`, which the
  code forgets because it resets the flag afterwards, is not seen.
- The pts name and address in a table entry; writing the table out.
- Characters: a line of the configuration is a name and a value, a process id
  has one of two lengths, a message of the FIFO is a record.  What `strtok_r`
  makes of odd lines is not seen.
- What is overwritten by a profile line of more than 25 parameters (`wild`), and by
  the last 2 bytes of a SET message with 25 (`SetFits` counts them).

## 6. What could follow

- The life of a session as `Daemon` sees it (`new`, `listed`, `left`, ended) as an
  abstract specification that `Session` implements.
- `Config` and `Daemon` composed: what a new configuration means for sessions
  that run, and for those that begin during the reload.
