------------------------------ MODULE PtsTable ------------------------------
(***************************************************************************)
(* The pts-addr table of pad_svr (pts_addr.c): a list of slots, each free  *)
(* or with the process id of a session as ins_entry stores it, and the     *)
(* messages that travel to it through the FIFO.  A message has a fixed     *)
(* length below PIPE_BUF, so that one write is one message.                *)
(***************************************************************************)
EXTENDS Naturals, Sequences

Free == 0           \* *(pid) = 0
MaxPid == 99999     \* the longest number that MAXCHARPID characters hold

\* strncpy(pfree->pid,pid,MAXCHARPID): the first digits of a longer number.
Stored(pid) ==
  IF pid <= MaxPid THEN pid
  ELSE IF pid \div 10 <= MaxPid THEN pid \div 10 ELSE pid \div 100

Insert(pid) == [op |-> "ins", pid |-> pid]
Delete(pid) == [op |-> "del", pid |-> pid]

\* A mutant of FindFree takes the first slot, free or not.
FindFirst(t) == 1

\* The slot of a new entry: the first that is free, or one more at the end.
FreeSlots(t) == {i \in 1..Len(t) : t[i] = Free}
FindFree(t) ==
  IF FreeSlots(t) = {} THEN Len(t) + 1
  ELSE CHOOSE i \in FreeSlots(t) : \A j \in FreeSlots(t) : i <= j

InsEntry(t, pid) ==
  LET slot == FindFree(t)
  IN  IF slot <= Len(t) THEN [t EXCEPT ![slot] = Stored(pid)]
      ELSE Append(t, Stored(pid))

\* Every slot with this number is freed: strcmp with the number in the message.
\* The mutant stops at the first.
CleanFirst(t, pid) ==
  [i \in DOMAIN t |-> IF t[i] = pid /\ \A j \in 1..(i - 1) : t[j] # pid
                     THEN Free ELSE t[i]]
CleanEntry(t, pid) ==
  [i \in DOMAIN t |-> IF t[i] = pid THEN Free ELSE t[i]]

\* One message of read_fifo.
Receive(t, m) ==
  IF m.op = "ins" THEN InsEntry(t, m.pid) ELSE CleanEntry(t, m.pid)

\* All messages of q, in their order.
ReceiveAll(t, q) ==
  LET after[n \in 0..Len(q)] ==
        IF n = 0 THEN t ELSE Receive(after[n - 1], q[n])
  IN  after[Len(q)]

\* The slots of the table with this number.
Slots(t, n) == {i \in 1..Len(t) : t[i] = n}
=============================================================================
