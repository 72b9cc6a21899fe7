-------------------------------- MODULE Ata ---------------------------------
(***************************************************************************)
(* The disk driver of kernel/ATA.c on one channel: the polling loops,      *)
(* send_command, read_ATA, write_ATA and init_ATA_device, against drives   *)
(* that take their time.                                                   *)
(*                                                                         *)
(* One step of the driver is one access to a port, or the transfer of one  *)
(* sector.  The data is the number of the sector.  A drive becomes busy    *)
(* only by a command or between two sectors; a drive that is not there     *)
(* reads as 0x00, or as 0xFF where the whole channel is empty.  A device   *)
(* that init_ATA_device never found has port 0: calls for it reach no      *)
(* drive, and read anything.                                               *)
(***************************************************************************)
EXTENDS Integers, Sequences

CONSTANTS Polls,        \* bound of the polling loops, 6000 in the code
          PerCommand,   \* sectors of one command, 256 in the code
          MaxCount,     \* bound: sectors of one request
          Lba           \* bound: the first sectors of requests

ASSUME AtaAssumption ==
  /\ Polls \in Nat \ {0} /\ PerCommand \in Nat \ {0} /\ MaxCount \in Nat
  /\ Lba \subseteq Nat

Slave == {0, 1}
Garbage == -1
StatusBits == [busy : BOOLEAN, ready : BOOLEAN, drq : BOOLEAN]

VARIABLES disk,         \* which drives are there
          status,       \* status bits of each drive
          current,      \* the drive last selected
          left, sector, \* sectors a drive has to transfer, and the next one
          pc, i, req, j,
          buffer,       \* the sectors a call has taken or given
          available,
          port,         \* whether the device's port and slave_bit have been set
          sent,         \* history: the drive's state when it got a command
          late,         \* history: a loop ran out, or a sector was not there in time
          lagged        \* history: this happened in some call to the drives

drive == <<disk, status, left, sector>>
device == <<available, port>>
vars == <<drive, current, pc, i, req, j, buffer, device, sent, late, lagged>>

Idle == [busy |-> FALSE, ready |-> TRUE, drq |-> FALSE]
Absent == LET high == disk = {} IN [busy |-> high, ready |-> high, drq |-> high]
Status == IF current \in disk THEN status[current] ELSE Absent

Init ==
  /\ disk \in SUBSET Slave
  /\ status \in [Slave -> [busy : BOOLEAN, ready : BOOLEAN, drq : {FALSE}]]
  /\ \A d \in Slave \ disk : status[d] = Idle
  /\ current = 0
  /\ left = [d \in Slave |-> 0] /\ sector = [d \in Slave |-> 0]
  /\ pc = "idle" /\ i = 0 /\ j = 0
  /\ req = [op |-> "none", slave |-> 0, wired |-> TRUE, lba |-> 0, count |-> 0]
  /\ buffer = <<>>
  /\ available = [d \in Slave |-> FALSE] /\ port = [d \in Slave |-> FALSE]
  /\ sent = [slave |-> 0, was |-> Idle]
  /\ late = FALSE /\ lagged = FALSE

(* A drive gets ready, or ends its work and offers or asks for a sector.   *)
DriveWorks(d) ==
  /\ d \in disk
  /\ \/ ~status[d].ready /\ status' = [status EXCEPT ![d].ready = TRUE]
     \/ status[d].busy /\ status' = [status EXCEPT ![d].busy = FALSE,
                                                   ![d].drq = left[d] > 0]
  /\ UNCHANGED <<disk, left, sector, current, pc, i, req, j, buffer, device,
                 sent, late, lagged>>

-----------------------------------------------------------------------------
(* send_command                                                            *)

(* A call for a device, on the channel (wired) or on port 0.               *)
Call(op, d, wired, lba, count) ==
  /\ pc = "idle"
  /\ req' = [op |-> op, slave |-> d, wired |-> wired, lba |-> lba, count |-> count]
  /\ j' = lba /\ buffer' = <<>> /\ late' = FALSE
  /\ UNCHANGED <<drive, current, device, sent, lagged>>

Send == pc' = "busy" /\ i' = Polls

(* Mutant of Refused: a drive that does not answer is taken for ready.     *)
NotRefused == CASE pc = "busy"  -> "select"
                [] pc = "ready" -> "busy2"
                [] OTHER        -> "command"

(* Where the driver goes on when a loop of polls has ended: the result of  *)
(* send_command is looked at by init_ATA_device only, and those of the two *)
(* loops behind the command by nobody.                                     *)
Refused == IF req.op = "identify" THEN "unavailable" ELSE "transfer"

(* Mutant of AfterReady: a drive that is ready is not asked if it is busy. *)
AfterReadyHasty == "command"

AfterReady == "busy2"

(* The loops, for a poll that reads s.                                     *)
Loops(s) ==
  [busy   |-> [until |-> ~s.busy, then |-> "select",   else |-> Refused],
   ready  |-> [until |-> s.ready, then |-> AfterReady, else |-> Refused],
   busy2  |-> [until |-> ~s.busy, then |-> "command",  else |-> Refused],
   busy3  |-> [until |-> ~s.busy, then |-> "drq",      else |-> "drq"],
   drq    |-> [until |-> s.drq,   then |-> "transfer", else |-> "transfer"]]

Waits == {"busy", "ready", "busy2", "busy3", "drq"}
Reads == IF req.wired THEN {Status} ELSE StatusBits

(* What is late in a call to the drives is never forgotten.                *)
Late(is_late) == late' = is_late /\ lagged' = (lagged \/ (req.wired /\ is_late))

(* Mutant of NextPoll: the loop does not count.                            *)
NextPollForever == i

NextPoll == i - 1

(* One poll.  A loop that ends with its last poll counts as failed, even   *)
(* when that poll saw what it waited for.                                  *)
Poll ==
  /\ pc \in Waits
  /\ \E s \in Reads :
       LET loop == Loops(s)[pc] IN
       IF ~loop.until /\ NextPoll > 0
       THEN i' = NextPoll /\ UNCHANGED pc
       ELSE i' = Polls /\ pc' = IF NextPoll = 0 THEN loop.else ELSE loop.then
  /\ Late(late \/ NextPoll = 0)
  /\ UNCHANGED <<drive, current, req, j, buffer, device, sent>>

Select ==
  /\ pc = "select"
  /\ current' = IF req.wired THEN req.slave ELSE current
  /\ pc' = "ready"
  /\ UNCHANGED <<drive, i, req, j, buffer, device, sent, late, lagged>>

(* Mutant of Nsector: the count is sent less one.                          *)
NsectorLess == (req.count - 1) % PerCommand

Nsector == req.count % PerCommand

(* The registers and the command.  The drive takes 0 for the most sectors, *)
(* and ignores a command while it is busy.                                 *)
Command ==
  /\ pc = "command"
  /\ sent' = IF req.wired THEN [slave |-> current, was |-> Status] ELSE sent
  /\ IF req.wired /\ current \in disk /\ ~Status.busy
     THEN /\ status' = [status EXCEPT ![current].busy = TRUE, ![current].drq = FALSE]
          /\ left' = [left EXCEPT ![current] =
                        IF req.op = "identify" THEN 1
                        ELSE IF Nsector = 0 THEN PerCommand ELSE Nsector]
          /\ sector' = [sector EXCEPT ![current] = req.lba]
     ELSE UNCHANGED <<status, left, sector>>
  /\ pc' = "busy3"
  /\ UNCHANGED <<disk, current, i, req, j, buffer, device, late, lagged>>

-----------------------------------------------------------------------------
(* read_ATA, write_ATA and init_ATA_device                                 *)

Wanted == IF req.op = "identify" THEN 1 ELSE req.count

(* One sector of insw or outsw.  Nothing is asked in between.              *)
Transfer ==
  /\ pc = "transfer" /\ Len(buffer) < Wanted
  /\ IF req.wired /\ current \in disk /\ Status.drq
     THEN /\ buffer' = Append(buffer, sector[current])
          /\ left' = [left EXCEPT ![current] = @ - 1]
          /\ sector' = [sector EXCEPT ![current] = @ + 1]
          /\ status' = [status EXCEPT ![current].drq = FALSE, ![current].busy = TRUE]
          /\ Late(late)
     ELSE /\ buffer' = Append(buffer, Garbage)
          /\ Late(late \/ left[current] > 0)
          /\ UNCHANGED <<status, left, sector>>
  /\ UNCHANGED <<disk, current, pc, i, req, j, device, sent>>

(* All words are through.  The loop over commands sends the same command   *)
(* again, to the same buffer.                                              *)
Transferred ==
  /\ pc = "transfer" /\ Len(buffer) = Wanted
  /\ j' = j + PerCommand
  /\ IF req.op # "identify" /\ j + PerCommand < req.lba + req.count
     THEN pc' = "busy" /\ i' = Polls /\ buffer' = <<>>
     ELSE pc' = "idle" /\ UNCHANGED <<i, buffer>>
  /\ IF req.op = "identify"
     THEN /\ available' = [available EXCEPT ![req.slave] = TRUE]
          /\ port' = [port EXCEPT ![req.slave] = TRUE]
     ELSE UNCHANGED device
  /\ UNCHANGED <<drive, current, req, sent, late, lagged>>

Unavailable ==
  /\ pc = "unavailable"
  /\ available' = [available EXCEPT ![req.slave] = FALSE]
  /\ pc' = "idle"
  /\ UNCHANGED <<drive, current, i, req, j, buffer, port, sent, late, lagged>>

(* Neither call looks whether the device is available.                     *)
read_ATA(d, lba, n) == Call("read", d, port[d], lba, n) /\ Send

(* Fewer sectors than one command takes are not written at all: the call   *)
(* returns at once.                                                        *)
write_ATA(d, lba, n) ==
  /\ Call("write", d, port[d], lba, n)
  /\ IF n >= PerCommand THEN Send ELSE UNCHANGED <<pc, i>>

init_ATA_device(d) == Call("identify", d, TRUE, 0, 0) /\ Send

Driver == Poll \/ Select \/ Command \/ Transfer \/ Transferred \/ Unavailable

Next ==
  \/ \E d \in Slave : DriveWorks(d) \/ init_ATA_device(d)
  \/ \E d \in Slave, lba \in Lba, n \in 1 .. MaxCount :
       read_ATA(d, lba, n) \/ write_ATA(d, lba, n)
  \/ Driver

Spec == Init /\ [][Next]_vars /\ WF_vars(Driver)

-----------------------------------------------------------------------------
(* Properties                                                              *)

(* Every variable has its type, and a drive never owes fewer than no       *)
(* sectors (ATA.c:45-88).                                                  *)
TypeOK ==
  /\ disk \subseteq Slave /\ current \in Slave
  /\ status \in [Slave -> StatusBits]
  /\ left \in [Slave -> 0 .. PerCommand] /\ sector \in [Slave -> Nat]
  /\ pc \in {"idle", "select", "command", "transfer", "unavailable"} \cup Waits
  /\ i \in 0 .. Polls
  /\ available \in [Slave -> BOOLEAN] /\ port \in [Slave -> BOOLEAN]

(* Types hold, and a command that goes to the channel reaches the drive it *)
(* is meant for, ready and not busy, however late it answers: the loops    *)
(* before the command give up rather than go on.  A sector of an earlier   *)
(* command is still pending there only if some call was late               *)
(* (ATA.c:47-58, 69-83).                                                   *)
CommandsReachIdleDrive ==
  /\ TypeOK
  /\ pc = "busy3" /\ req.wired =>
       /\ sent.slave = req.slave
       /\ sent.was.ready /\ ~sent.was.busy
       /\ sent.was.drq => lagged

(* A device is listed as available, or called at the channel's port, only  *)
(* where there is a drive: one that is absent either stays busy or never   *)
(* gets ready (ATA.c:90-99).                                               *)
AvailableIsThere == \A d \in Slave : available[d] \/ port[d] => d \in disk

Asked == [k \in 1 .. req.count |-> req.lba + k - 1]
IsShortWrite == req.op = "write" /\ req.count < PerCommand

(* A call for at most as many sectors as one command takes, of a device    *)
(* that was found, transfers these sectors in order, unless the drive was  *)
(* late: a loop of polls ran out or a sector was not there in time.  A     *)
(* full command is sent as 0.  The exception is a write of less than a     *)
(* full command, which returns without transferring anything (ATA.c:51,    *)
(* 62-88).                                                                 *)
OnlyShortWritesAreDropped ==
  pc = "idle" /\ req.op \in {"read", "write"} /\ req.wired =>
    /\ IsShortWrite => buffer = <<>>
    /\ ~IsShortWrite /\ req.count <= PerCommand /\ ~late => buffer = Asked

(* Every call returns, whatever the drives do: the polls are counted and   *)
(* nothing else waits (ATA.c:5-44).                                        *)
CallsEnd == pc # "idle" ~> pc = "idle"

=============================================================================
