----------------------------- MODULE AtaProofs ------------------------------
(* Proofs about the disk driver, for every number of polls, sectors of one *)
(* command, length of a request and first sector.                          *)
EXTENDS Ata, SequenceTheorems, TLAPS

Points == {"idle", "select", "command", "transfer", "unavailable",
           "busy", "ready", "busy2", "busy3", "drq"}

(* The types that TypeOK leaves out, and the polls that are left.  No      *)
(* short write is ever under way, and only a transfer fills the buffer.    *)
CallTypes ==
  /\ req \in [op : {"none", "identify", "read", "write"}, slave : Slave,
              wired : BOOLEAN, lba : Nat, count : Nat]
  /\ req.op \in {"read", "write"} => req.count > 0
  /\ j \in Nat /\ buffer \in Seq(Int) /\ late \in BOOLEAN /\ lagged \in BOOLEAN
  /\ pc # "idle" => i > 0 /\ ~IsShortWrite /\ req.op # "none"
  /\ pc \in Waits \cup {"select", "command"} => buffer = <<>>

(* A drive that offers or asks for a sector still owes one.                *)
OffersWhatItOwes == \A d \in Slave : status[d].drq => left[d] > 0

(* What the loops before the command have found still holds at the command *)
(* and a drive that took one is there.                                     *)
FoundIdle ==
  /\ req.wired =>
       /\ pc \in {"ready", "busy2", "command", "busy3", "drq"} => current = req.slave
       /\ pc \in {"busy2", "command"} => Status.ready
       /\ pc = "command" => ~Status.busy
       /\ pc \in {"busy3", "drq"} => req.slave \in disk
  /\ pc = "transfer" /\ req.op = "identify" => req.slave \in disk
  /\ pc = "unavailable" => req.op = "identify"
  /\ req.op = "identify" => req.wired

(* Unless something was late, a drive owes no more than the call that is   *)
(* under way will still take from it, and the others owe nothing.          *)
Settled ==
  ~lagged =>
    /\ req.wired => ~late
    /\ \A d \in Slave :
         ~(req.wired /\ d = current /\ pc \in {"busy3", "drq", "transfer"}) => left[d] = 0
    /\ req.wired /\ pc \in {"busy3", "drq", "transfer"} => left[current] <= Wanted - Len(buffer)

(* How far a request of at most one command has come, if nothing was late. *)
OneCommand ==
  req.op \in {"read", "write"} /\ req.wired /\ req.count <= PerCommand /\ ~late

InOrder ==
  /\ current \in disk
  /\ Len(buffer) <= req.count
  /\ left[current] = req.count - Len(buffer)
  /\ sector[current] = req.lba + Len(buffer)
  /\ \A k \in 1 .. Len(buffer) : buffer[k] = req.lba + k - 1

Progress ==
  OneCommand /\ pc # "idle" =>
    /\ j = req.lba
    /\ pc \in {"busy3", "drq", "transfer"} => InOrder

IInv ==
  /\ CommandsReachIdleDrive
  /\ AvailableIsThere
  /\ OnlyShortWritesAreDropped
  /\ CallTypes
  /\ OffersWhatItOwes
  /\ FoundIdle
  /\ Settled
  /\ Progress

-----------------------------------------------------------------------------
(* The operators                                                           *)

(* The table of the polling loops, one row at a time.                      *)
LEMMA LoopRows ==
  ASSUME NEW s
  PROVE  /\ Loops(s)["busy"] = [until |-> ~s.busy, then |-> "select", else |-> Refused]
         /\ Loops(s)["ready"] = [until |-> s.ready, then |-> "busy2", else |-> Refused]
         /\ Loops(s)["busy2"] = [until |-> ~s.busy, then |-> "command", else |-> Refused]
         /\ Loops(s)["busy3"] = [until |-> ~s.busy, then |-> "drq", else |-> "drq"]
         /\ Loops(s)["drq"] = [until |-> s.drq, then |-> "transfer", else |-> "transfer"]
BY DEF Loops, AfterReady

(* The status register reads as one byte of flags, also without a drive.   *)
LEMMA StatusType == ASSUME TypeOK PROVE Status \in StatusBits
BY DEF TypeOK, Status, Absent, StatusBits

(* A poll goes on, gives up and is late, or has found what it waited for.  *)
LEMMA PollCases ==
  ASSUME TypeOK, CallTypes, Poll
  PROVE  /\ pc \in Waits
         /\ i' \in 1 .. Polls
         /\ \/ pc' = pc /\ late' = late /\ lagged' = (lagged \/ (req.wired /\ late))
            \/ /\ late' = TRUE /\ lagged' = (lagged \/ req.wired)
               /\ pc' = IF pc \in {"busy", "ready", "busy2"} THEN Refused
                        ELSE IF pc = "busy3" THEN "drq" ELSE "transfer"
            \/ /\ late' = late /\ lagged' = (lagged \/ (req.wired /\ late))
               /\ \/ pc = "busy" /\ pc' = "select"
                  \/ pc = "ready" /\ (req.wired => Status.ready) /\ pc' = "busy2"
                  \/ pc = "busy2" /\ (req.wired => ~Status.busy) /\ pc' = "command"
                  \/ pc = "busy3" /\ pc' = "drq"
                  \/ pc = "drq" /\ pc' = "transfer"
<1>1. i \in 1 .. Polls /\ Polls \in Nat \ {0} /\ late \in BOOLEAN /\ lagged \in BOOLEAN
  <2>1. pc # "idle"
    BY DEF Poll, Waits
  <2> QED
    BY <2>1, AtaAssumption DEF TypeOK, CallTypes
<1>2. pc \in {"busy", "ready", "busy2", "busy3", "drq"}
  BY DEF Poll, Waits
<1>3. PICK s \in Reads :
        LET loop == Loops(s)[pc] IN
        IF ~loop.until /\ NextPoll > 0
        THEN i' = NextPoll /\ UNCHANGED pc
        ELSE i' = Polls /\ pc' = IF NextPoll = 0 THEN loop.else ELSE loop.then
  BY DEF Poll
<1>4. req.wired => s = Status
  BY <1>3 DEF Reads
<1>5. late' = (late \/ NextPoll = 0) /\ lagged' = (lagged \/ (req.wired /\ (late \/ NextPoll = 0)))
  BY DEF Poll, Late
<1>6. /\ Loops(s)["busy"] = [until |-> ~s.busy, then |-> "select", else |-> Refused]
      /\ Loops(s)["ready"] = [until |-> s.ready, then |-> "busy2", else |-> Refused]
      /\ Loops(s)["busy2"] = [until |-> ~s.busy, then |-> "command", else |-> Refused]
      /\ Loops(s)["busy3"] = [until |-> ~s.busy, then |-> "drq", else |-> "drq"]
      /\ Loops(s)["drq"] = [until |-> s.drq, then |-> "transfer", else |-> "transfer"]
  BY LoopRows, Zenon
<1>7. CASE i = 1
  <2>1. NextPoll = 0
    BY <1>7 DEF NextPoll
  <2>2. i' = Polls /\ pc' = Loops(s)[pc].else
    BY <1>3, <2>1
  <2>3. late' = TRUE /\ lagged' = (lagged \/ req.wired)
    BY <1>5, <2>1, Zenon
  <2>4. Loops(s)[pc].else = IF pc \in {"busy", "ready", "busy2"} THEN Refused
                            ELSE IF pc = "busy3" THEN "drq" ELSE "transfer"
    BY <1>2, <1>6
  <2> QED
    BY <1>1, <1>2, <2>2, <2>3, <2>4 DEF Waits
<1>8. CASE i # 1
  <2>1. NextPoll = i - 1 /\ NextPoll \in 1 .. Polls /\ NextPoll # 0 /\ NextPoll > 0
    BY <1>1, <1>8 DEF NextPoll
  <2>2. late' = late /\ lagged' = (lagged \/ (req.wired /\ late))
    BY <1>1, <1>5, <2>1, Zenon
  <2>3. CASE Loops(s)[pc].until
    <3>1. i' = Polls /\ pc' = Loops(s)[pc].then
      BY <1>3, <2>1, <2>3
    <3>2. /\ pc = "busy" => pc' = "select"
          /\ pc = "ready" => pc' = "busy2"
          /\ pc = "busy2" => pc' = "command"
          /\ pc = "busy3" => pc' = "drq"
          /\ pc = "drq" => pc' = "transfer"
      BY <3>1, <1>6
    <3>3. pc = "ready" => s.ready
      BY <2>3, <1>6
    <3>4. pc = "busy2" => ~s.busy
      <4>1. Loops(s)["busy2"].until = ~s.busy
        BY DEF Loops
      <4> QED
        BY <2>3, <4>1
    <3>5. i' \in 1 .. Polls
      BY <1>1, <3>1
    <3> QED
      BY <1>2, <1>4, <2>2, <3>2, <3>3, <3>4, <3>5, Zenon DEF Waits
  <2>4. CASE ~Loops(s)[pc].until
    <3>1. i' = NextPoll /\ pc' = pc
      BY <1>3, <2>1, <2>4
    <3> QED
      BY <1>2, <2>1, <2>2, <3>1, Zenon DEF Waits
  <2> QED
    BY <2>3, <2>4
<1> QED
  BY <1>1, <1>7, <1>8

(* The count that the register takes modulo PerCommand comes back as the   *)
(* number of sectors, 0 standing for all of them.                          *)
LEMMA SectorsOfCommand ==
  ASSUME CallTypes
  PROVE  LET n == IF Nsector = 0 THEN PerCommand ELSE Nsector IN
         /\ n \in 0 .. PerCommand
         /\ req.count \in 1 .. PerCommand => n = req.count
         /\ req.count > 0 => n <= req.count
<1>1. req.count \in Nat /\ PerCommand \in Nat \ {0}
  BY AtaAssumption DEF CallTypes
<1>2. req.count % PerCommand \in 0 .. PerCommand - 1
  BY <1>1
<1>3. req.count \in 1 .. PerCommand - 1 => req.count % PerCommand = req.count
  BY <1>1
<1>4. req.count = PerCommand => req.count % PerCommand = 0
  BY <1>1
<1> QED
  BY <1>1, <1>2, <1>3, <1>4 DEF Nsector

-----------------------------------------------------------------------------
(* The invariant                                                           *)

(* Where the driver can be, with the loops by name.                        *)
LEMMA PointsOfDriver ==
  ASSUME TypeOK PROVE pc \in Points
BY DEF TypeOK, Points, Waits

(* Before the first call nothing is under way.                             *)
LEMMA InvInit == Init => IInv
<1> SUFFICES ASSUME Init PROVE IInv
  OBVIOUS
<1> USE AtaAssumption DEF Init, Slave
<1>1. TypeOK
  <2>1. status \in [Slave -> StatusBits]
    BY DEF StatusBits
  <2>2. left \in [Slave -> 0 .. PerCommand] /\ sector \in [Slave -> Nat]
    OBVIOUS
  <2> QED
    BY <2>1, <2>2 DEF TypeOK, StatusBits
<1>2. CallTypes
  BY EmptySeq DEF CallTypes, Waits
<1>3. OffersWhatItOwes
  BY DEF OffersWhatItOwes, Idle
<1>4. Settled
  BY DEF Settled
<1> QED
  BY <1>1, <1>2, <1>3, <1>4 DEF IInv, CommandsReachIdleDrive, AvailableIsThere,
     OnlyShortWritesAreDropped, FoundIdle, Progress, OneCommand

(* A drive that works on its own gets ready and not busy, never the other  *)
(* way, and offers a sector only if it owes one.                           *)
LEMMA DriveKeeps ==
  ASSUME IInv, NEW d \in Slave, DriveWorks(d)
  PROVE  IInv'
<1> USE DEF IInv
<1>1. TypeOK /\ current \in Slave /\ left \in [Slave -> 0 .. PerCommand]
  BY DEF CommandsReachIdleDrive, TypeOK
<1>2. UNCHANGED <<disk, left, sector, current, pc, i, req, j, buffer, available, port,
                  sent, late, lagged>>
  BY DEF DriveWorks, device
<1>3. /\ status' \in [Slave -> StatusBits]
      /\ \A c \in Slave : /\ status[c].ready => status'[c].ready
                          /\ ~status[c].busy => ~status'[c].busy
                          /\ status'[c].drq => status[c].drq \/ left[c] > 0
  <2>1. CASE status' = [status EXCEPT ![d].ready = TRUE]
    BY <1>1, <2>1 DEF TypeOK, StatusBits
  <2>2. CASE status' = [status EXCEPT ![d].busy = FALSE, ![d].drq = left[d] > 0]
    <3> DEFINE offers == left[d] > 0
    <3>1. offers \in BOOLEAN /\ (offers => left[d] > 0)
      OBVIOUS
    <3>2. status' = [status EXCEPT ![d].busy = FALSE, ![d].drq = offers]
      BY <2>2
    <3> HIDE DEF offers
    <3>3. status' \in [Slave -> StatusBits]
      BY <1>1, <3>1, <3>2 DEF TypeOK, StatusBits
    <3>4. status'[d].ready = status[d].ready /\ ~status'[d].busy /\ status'[d].drq = offers
      BY <1>1, <3>2 DEF TypeOK, StatusBits
    <3>5. \A c \in Slave : c # d => status'[c] = status[c]
      BY <1>1, <3>2 DEF TypeOK
    <3> QED
      BY <3>1, <3>3, <3>4, <3>5
  <2> QED
    BY <2>1, <2>2 DEF DriveWorks
<1>4. TypeOK'
  BY <1>1, <1>2, <1>3 DEF TypeOK, StatusBits, Waits
<1>5. (Status.ready => Status'.ready) /\ (~Status.busy => ~Status'.busy)
  BY <1>1, <1>2, <1>3 DEF Status, Absent
<1>6. CommandsReachIdleDrive'
  BY <1>2, <1>4 DEF CommandsReachIdleDrive
<1>7. AvailableIsThere' /\ OnlyShortWritesAreDropped' /\ CallTypes' /\ Settled'
  BY <1>2 DEF AvailableIsThere, OnlyShortWritesAreDropped, CallTypes, Settled, Wanted,
     Asked, IsShortWrite
<1>8. OffersWhatItOwes'
  BY <1>2, <1>3 DEF OffersWhatItOwes
<1>9. FoundIdle'
  BY <1>2, <1>5 DEF FoundIdle
<1>10. Progress'
  BY <1>2 DEF Progress, OneCommand, InOrder
<1> QED
  BY <1>6, <1>7, <1>8, <1>9, <1>10

(* A call begins with everything still to be done, or drops a short write. *)
LEMMA CallKeeps ==
  ASSUME IInv, NEW op \in {"identify", "read", "write"}, NEW d \in Slave,
         NEW w \in BOOLEAN, NEW lba \in Nat, NEW n \in Nat,
         IF op = "identify" THEN w ELSE n > 0,
         Call(op, d, w, lba, n),
         \/ Send /\ ~(op = "write" /\ n < PerCommand)
         \/ op = "write" /\ n < PerCommand /\ UNCHANGED <<pc, i>>
  PROVE  IInv'
<1> USE DEF IInv
<1>1. TypeOK /\ CallTypes
  BY DEF CommandsReachIdleDrive
<1>2. /\ UNCHANGED <<disk, status, left, sector, current, available, port, sent, lagged>>
      /\ req' = [op |-> op, slave |-> d, wired |-> w, lba |-> lba, count |-> n]
      /\ j' = lba /\ buffer' = <<>> /\ late' = FALSE
      /\ pc = "idle"
      /\ \/ pc' = "busy" /\ i' = Polls /\ ~IsShortWrite'
         \/ pc' = "idle" /\ i' = i /\ IsShortWrite'
  BY DEF Call, Send, drive, device, IsShortWrite
<1>3. TypeOK'
  BY <1>1, <1>2, AtaAssumption DEF TypeOK, Waits
<1>4. CallTypes'
  <2>1. buffer' \in Seq(Int)
    BY <1>2, EmptySeq
  <2>2. req' \in [op : {"none", "identify", "read", "write"}, slave : Slave,
                  wired : BOOLEAN, lba : Nat, count : Nat]
    BY <1>2
  <2>3. req'.op \in {"read", "write"} => req'.count > 0
    BY <1>2
  <2>4. j' \in Nat /\ (pc' # "idle" => i' > 0 /\ ~IsShortWrite' /\ req'.op # "none")
    BY <1>2, AtaAssumption
  <2>5. late' \in BOOLEAN /\ lagged' \in BOOLEAN
    BY <1>1, <1>2 DEF CallTypes
  <2> QED
    BY <1>2, <2>1, <2>2, <2>3, <2>4, <2>5, Zenon DEF CallTypes
<1>5. AvailableIsThere' /\ OffersWhatItOwes'
  BY <1>2 DEF AvailableIsThere, OffersWhatItOwes
<1>6. Settled'
  BY <1>2 DEF Settled
<1>7. FoundIdle'
  BY <1>2 DEF FoundIdle
<1>8. OnlyShortWritesAreDropped'
  BY <1>2 DEF OnlyShortWritesAreDropped
<1> QED
  BY <1>2, <1>3, <1>4, <1>5, <1>6, <1>7, <1>8
     DEF CommandsReachIdleDrive, Progress, OneCommand

(* Giving up before the command makes the call late or the device          *)
(* unavailable; what a loop waited for still holds behind it.              *)
LEMMA PollKeeps ==
  ASSUME IInv, Poll
  PROVE  IInv'
<1> USE DEF IInv
<1>1. TypeOK /\ CallTypes
  BY DEF CommandsReachIdleDrive
<1>2. /\ UNCHANGED <<disk, status, left, sector, current, req, j, buffer,
                     available, port, sent>>
      /\ Status' = Status
  BY DEF Poll, drive, device, Status, Absent
<1>3. /\ pc \in Waits
      /\ i' \in 1 .. Polls
      /\ \/ pc' = pc /\ late' = late /\ lagged' = (lagged \/ (req.wired /\ late))
         \/ /\ late' = TRUE /\ lagged' = (lagged \/ req.wired)
            /\ pc' = IF pc \in {"busy", "ready", "busy2"} THEN Refused
                     ELSE IF pc = "busy3" THEN "drq" ELSE "transfer"
         \/ /\ late' = late /\ lagged' = (lagged \/ (req.wired /\ late))
            /\ \/ pc = "busy" /\ pc' = "select"
               \/ pc = "ready" /\ (req.wired => Status.ready) /\ pc' = "busy2"
               \/ pc = "busy2" /\ (req.wired => ~Status.busy) /\ pc' = "command"
               \/ pc = "busy3" /\ pc' = "drq"
               \/ pc = "drq" /\ pc' = "transfer"
  BY <1>1, PollCases
<1>4. /\ pc' # "idle" /\ pc # "idle"
      /\ pc' = "busy3" => pc = "busy3"
      /\ pc' \in Points
      /\ late \in BOOLEAN /\ lagged \in BOOLEAN /\ req.wired \in BOOLEAN
      /\ buffer = <<>>
  BY <1>1, <1>3 DEF Refused, Points, CallTypes, Waits
<1>5. late' \in BOOLEAN /\ lagged' \in BOOLEAN
  BY <1>3, <1>4, Zenon
<1>6. TypeOK'
  BY <1>1, <1>2, <1>3, <1>4, AtaAssumption DEF TypeOK, Points, Waits
<1>7. lagged => lagged'
  BY <1>3, <1>4, Zenon
<1>8. CommandsReachIdleDrive'
  BY <1>2, <1>4, <1>6, <1>7 DEF CommandsReachIdleDrive
<1>9. CallTypes'
  <2>1. i' > 0 /\ ~IsShortWrite' /\ req'.op # "none"
    BY <1>1, <1>2, <1>3, <1>4, AtaAssumption DEF CallTypes, IsShortWrite
  <2> QED
    BY <1>1, <1>2, <1>4, <1>5, <2>1, Zenon DEF CallTypes
<1>10. AvailableIsThere' /\ OffersWhatItOwes' /\ OnlyShortWritesAreDropped'
  BY <1>2, <1>4 DEF AvailableIsThere, OffersWhatItOwes, OnlyShortWritesAreDropped
<1>11. FoundIdle'
  BY <1>2, <1>3 DEF FoundIdle, Refused, Waits
<1>12. ASSUME ~late', req.wired
       PROVE  /\ ~late /\ (lagged' <=> lagged)
              /\ pc' \in {"busy3", "drq", "transfer"} <=> pc \in {"busy3", "drq"}
  <2>1. ~late /\ (lagged' <=> lagged)
    BY <1>3, <1>4, <1>12, Zenon
  <2>2. pc' \in {"busy3", "drq", "transfer"} <=> pc \in {"busy3", "drq"}
    BY <1>3, <1>12 DEF Waits
  <2> QED
    BY <2>1, <2>2
<1>13. Settled'
  <2> SUFFICES ASSUME ~lagged' PROVE Settled'
    BY DEF Settled
  <2>1. ~lagged /\ (req.wired => ~late')
    <3>1. \/ late' = late /\ lagged' = (lagged \/ (req.wired /\ late))
          \/ lagged' = (lagged \/ req.wired)
      BY <1>3, Zenon
    <3>2. CASE late' = late /\ lagged' = (lagged \/ (req.wired /\ late))
      BY <3>2
    <3>3. CASE lagged' = (lagged \/ req.wired)
      BY <3>3
    <3> QED
      BY <3>1, <3>2, <3>3
  <2>2. CASE req.wired
    <3>1. pc' \in {"busy3", "drq", "transfer"} <=> pc \in {"busy3", "drq"}
      BY <1>12, <2>1, <2>2
    <3>2. pc # "transfer"
      BY <1>3 DEF Waits
    <3> QED
      BY <1>2, <2>1, <2>2, <3>1, <3>2 DEF Settled, Wanted
  <2>3. CASE ~req.wired
    BY <1>2, <2>1, <2>3 DEF Settled, Wanted
  <2> QED
    BY <2>2, <2>3
<1>14. Progress'
  <2> SUFFICES ASSUME OneCommand' PROVE Progress'
    BY DEF Progress
  <2>1. req.wired /\ ~late' /\ OneCommand
    BY <1>2, <1>12 DEF OneCommand
  <2>2. j = req.lba /\ (pc \in {"busy3", "drq"} => InOrder)
    BY <1>4, <2>1 DEF Progress
  <2>3. InOrder' <=> InOrder
    BY <1>2 DEF InOrder
  <2> QED
    BY <1>2, <1>12, <2>1, <2>2, <2>3 DEF Progress
<1> QED
  BY <1>8, <1>9, <1>10, <1>11, <1>13, <1>14

(* The drive of the request is selected.                                   *)
LEMMA SelectKeeps ==
  ASSUME IInv, Select
  PROVE  IInv'
<1> USE DEF IInv
<1>1. TypeOK /\ CallTypes
  BY DEF CommandsReachIdleDrive
<1>2. /\ UNCHANGED <<disk, status, left, sector, i, req, j, buffer, available, port,
                     sent, late, lagged>>
      /\ pc = "select" /\ pc' = "ready"
      /\ current' = IF req.wired THEN req.slave ELSE current
  BY DEF Select, drive, device
<1>3. TypeOK'
  BY <1>1, <1>2 DEF TypeOK, CallTypes, Waits
<1>4. CallTypes'
  BY <1>1, <1>2 DEF CallTypes, IsShortWrite, Waits
<1>5. AvailableIsThere' /\ OffersWhatItOwes'
  BY <1>2 DEF AvailableIsThere, OffersWhatItOwes
<1>6. Progress' /\ Settled'
  BY <1>2 DEF Progress, OneCommand, Settled
<1> QED
  BY <1>2, <1>3, <1>4, <1>5, <1>6
     DEF CommandsReachIdleDrive, OnlyShortWritesAreDropped, FoundIdle

(* The command reaches a drive that is there, ready and idle, with the     *)
(* number of sectors that was asked for.                                   *)
LEMMA CommandKeeps ==
  ASSUME IInv, Command, req.wired
  PROVE  IInv'
<1> USE DEF IInv
<1>1. TypeOK /\ CallTypes /\ Status \in StatusBits
  BY StatusType DEF CommandsReachIdleDrive
<1>2. /\ pc = "command" /\ current = req.slave /\ Status.ready /\ ~Status.busy
      /\ buffer = <<>> /\ ~IsShortWrite /\ req.op # "none"
  BY <1>1 DEF Command, FoundIdle, CallTypes
<1>3. current \in disk /\ current \in Slave
  BY <1>1, <1>2 DEF Status, Absent, TypeOK
<1> DEFINE n == IF req.op = "identify" THEN 1
                ELSE IF Nsector = 0 THEN PerCommand ELSE Nsector
<1>4. /\ UNCHANGED <<disk, current, i, req, j, buffer, available, port, late, lagged>>
      /\ status' = [status EXCEPT ![current].busy = TRUE, ![current].drq = FALSE]
      /\ left' = [left EXCEPT ![current] = n]
      /\ sector' = [sector EXCEPT ![current] = req.lba]
      /\ sent' = [slave |-> current, was |-> Status]
      /\ pc' = "busy3"
  BY <1>2, <1>3 DEF Command, device
<1>5. /\ n \in 0 .. PerCommand /\ n <= Wanted
      /\ req.op \in {"read", "write"} /\ req.count <= PerCommand => n = req.count
  <2>1. req.count \in Nat /\ PerCommand \in Nat \ {0}
        /\ (req.op \in {"read", "write"} => req.count > 0)
        /\ req.op \in {"identify", "read", "write"}
    BY <1>1, <1>2, AtaAssumption DEF CallTypes
  <2> QED
    BY <1>1, <2>1, SectorsOfCommand DEF Wanted
<1> HIDE DEF n
<1>6. /\ status' \in [Slave -> StatusBits]
      /\ left' \in [Slave -> 0 .. PerCommand] /\ sector' \in [Slave -> Nat]
  <2>1. req.lba \in Nat
    BY <1>1 DEF CallTypes
  <2> QED
    BY <1>1, <1>3, <1>4, <1>5, <2>1 DEF TypeOK, StatusBits
<1>7. TypeOK'
  BY <1>1, <1>4, <1>6 DEF TypeOK, Waits
<1>8. Status.drq => lagged
  <2>1. status[current].drq => left[current] > 0
    BY <1>3 DEF OffersWhatItOwes
  <2>2. ~lagged => left[current] = 0
    BY <1>2, <1>3 DEF Settled
  <2> QED
    BY <1>3, <2>1, <2>2 DEF Status
<1>9. CommandsReachIdleDrive'
  BY <1>2, <1>4, <1>7, <1>8 DEF CommandsReachIdleDrive
<1>10. CallTypes'
  BY <1>1, <1>2, <1>4 DEF CallTypes, IsShortWrite, Waits
<1>11. AvailableIsThere' /\ OnlyShortWritesAreDropped'
  BY <1>4 DEF AvailableIsThere, OnlyShortWritesAreDropped
<1>12. OffersWhatItOwes'
  BY <1>1, <1>3, <1>4 DEF OffersWhatItOwes, TypeOK, StatusBits
<1>13. FoundIdle'
  BY <1>2, <1>3, <1>4 DEF FoundIdle
<1>14. Len(buffer) = 0 /\ req.count \in Nat /\ req.lba \in Nat /\ Wanted' = Wanted
       /\ left'[current] = n /\ sector'[current] = req.lba
       /\ \A d \in Slave : d # current => left'[d] = left[d]
  BY <1>1, <1>2, <1>3, <1>4, EmptySeq DEF CallTypes, Wanted, TypeOK
<1>15. Settled'
  <2>1. Wanted \in Nat
    BY <1>14 DEF Wanted
  <2> QED
    BY <1>2, <1>4, <1>5, <1>14, <2>1 DEF Settled
<1>16. Progress'
  <2> SUFFICES ASSUME OneCommand' PROVE Progress'
    BY DEF Progress
  <2>1. OneCommand
    BY <1>4 DEF OneCommand
  <2>2. j = req.lba
    BY <1>2, <2>1 DEF Progress
  <2>3. left'[current] = req.count
    BY <1>5, <1>14, <2>1 DEF OneCommand
  <2>4. InOrder'
    BY <1>3, <1>4, <1>14, <2>3 DEF InOrder
  <2> QED
    BY <1>4, <2>2, <2>4 DEF Progress
<1> QED
  BY <1>9, <1>10, <1>11, <1>12, <1>13, <1>15, <1>16

(* A command to port 0 reaches no drive.                                   *)
LEMMA StrayCommandKeeps ==
  ASSUME IInv, Command, ~req.wired
  PROVE  IInv'
<1> USE DEF IInv
<1>1. TypeOK /\ CallTypes
  BY DEF CommandsReachIdleDrive
<1>2. /\ UNCHANGED <<disk, status, left, sector, current, i, req, j, buffer, available,
                     port, sent, late, lagged>>
      /\ pc = "command" /\ pc' = "busy3"
  BY DEF Command, device
<1>3. TypeOK'
  BY <1>1, <1>2 DEF TypeOK, Waits
<1>4. CallTypes'
  BY <1>1, <1>2 DEF CallTypes, IsShortWrite, Waits
<1>5. AvailableIsThere' /\ OffersWhatItOwes' /\ Settled'
  BY <1>2 DEF AvailableIsThere, OffersWhatItOwes, Settled
<1> QED
  BY <1>2, <1>3, <1>4, <1>5 DEF CommandsReachIdleDrive, OnlyShortWritesAreDropped,
     FoundIdle, Progress, OneCommand

(* A sector is taken in its turn, or the call is late.                     *)
LEMMA TransferKeeps ==
  ASSUME IInv, Transfer
  PROVE  IInv'
<1> USE DEF IInv
<1>1. TypeOK /\ CallTypes /\ current \in Slave
  BY DEF CommandsReachIdleDrive, TypeOK
<1>2. UNCHANGED <<disk, current, pc, i, req, j, available, port, sent>> /\ pc = "transfer"
  BY DEF Transfer, device
<1>3. buffer \in Seq(Int) /\ Len(buffer) \in Nat /\ Len(buffer) < Wanted
      /\ req.count \in Nat /\ req.lba \in Nat /\ Wanted \in Nat /\ Wanted' = Wanted
      /\ late \in BOOLEAN /\ lagged \in BOOLEAN /\ req.wired \in BOOLEAN
  BY <1>1, <1>2, LenProperties DEF CallTypes, Transfer, Wanted
<1>4. CASE req.wired /\ current \in disk /\ Status.drq
  <2>1. /\ buffer' = Append(buffer, sector[current])
        /\ left' = [left EXCEPT ![current] = left[current] - 1]
        /\ sector' = [sector EXCEPT ![current] = sector[current] + 1]
        /\ status' = [status EXCEPT ![current].drq = FALSE, ![current].busy = TRUE]
        /\ late' = late /\ lagged' = (lagged \/ (req.wired /\ late))
    BY <1>4 DEF Transfer, Late
  <2>2. left[current] \in 1 .. PerCommand /\ sector[current] \in Nat
    <3>1. status[current].drq
      BY <1>4 DEF Status
    <3> QED
      BY <1>1, <3>1 DEF OffersWhatItOwes, TypeOK
  <2>3. /\ status' \in [Slave -> StatusBits]
        /\ left' \in [Slave -> 0 .. PerCommand] /\ sector' \in [Slave -> Nat]
    <3>1. status' \in [Slave -> StatusBits]
      BY <1>1, <2>1 DEF TypeOK, StatusBits
    <3>2. left' \in [Slave -> 0 .. PerCommand]
      <4>1. left[current] - 1 \in 0 .. PerCommand /\ left \in [Slave -> 0 .. PerCommand]
        BY <1>1, <2>2, AtaAssumption DEF TypeOK
      <4> QED
        BY <1>1, <2>1, <4>1
    <3>3. sector' \in [Slave -> Nat]
      BY <1>1, <2>1, <2>2 DEF TypeOK
    <3> QED
      BY <3>1, <3>2, <3>3
  <2>4. TypeOK'
    BY <1>1, <1>2, <2>3 DEF TypeOK, Waits
  <2>5. CallTypes'
    <3>1. buffer' \in Seq(Int)
      BY <1>3, <2>1, <2>2, AppendProperties
    <3>2. late' \in BOOLEAN /\ lagged' \in BOOLEAN
      BY <1>3, <2>1, Zenon
    <3>3. pc' \notin Waits \cup {"select", "command"} /\ ~IsShortWrite'
      BY <1>1, <1>2 DEF Waits, IsShortWrite, CallTypes
    <3> QED
      BY <1>1, <1>2, <3>1, <3>2, <3>3, Zenon DEF CallTypes
  <2>6. OffersWhatItOwes'
    BY <1>1, <2>1, <2>2 DEF OffersWhatItOwes, TypeOK, StatusBits
  <2>7. /\ Len(buffer') = Len(buffer) + 1
        /\ left'[current] = left[current] - 1 /\ sector'[current] = sector[current] + 1
        /\ \A d \in Slave : d # current => left'[d] = left[d]
    BY <1>1, <1>3, <2>1, <2>2, AppendProperties DEF TypeOK
  <2>8. Settled'
    <3> SUFFICES ASSUME ~lagged' PROVE Settled'
      BY DEF Settled
    <3>1. ~lagged /\ ~late
      BY <1>3, <1>4, <2>1, Zenon
    <3>2. left[current] <= Wanted - Len(buffer)
      BY <1>2, <1>4, <3>1 DEF Settled
    <3>3. left'[current'] <= Wanted' - Len(buffer')
      BY <1>2, <1>3, <2>2, <2>7, <3>2
    <3> QED
      BY <1>2, <1>4, <2>1, <2>7, <3>1, <3>3 DEF Settled
  <2>9. Progress'
    <3> SUFFICES ASSUME OneCommand' PROVE Progress'
      BY DEF Progress
    <3>1. OneCommand /\ Wanted = req.count
      BY <1>2, <2>1 DEF OneCommand, Wanted
    <3>2. j = req.lba /\ InOrder
      BY <1>2, <3>1 DEF Progress
    <3>3. /\ Len(buffer') = Len(buffer) + 1
          /\ \A k \in 1 .. Len(buffer) : buffer'[k] = buffer[k]
          /\ buffer'[Len(buffer) + 1] = sector[current]
      BY <1>3, <2>1, <2>2, AppendProperties
    <3>4. /\ Len(buffer) \in Nat /\ req.lba \in Nat /\ sector[current] = req.lba + Len(buffer)
          /\ \A k \in 1 .. Len(buffer) : buffer[k] = req.lba + k - 1
      BY <1>3, <3>2 DEF InOrder
    <3>5. \A k \in 1 .. Len(buffer') : buffer'[k] = req.lba + k - 1
      <4> SUFFICES ASSUME NEW k \in 1 .. Len(buffer') PROVE buffer'[k] = req.lba + k - 1
        OBVIOUS
      <4>1. k \in 1 .. Len(buffer) \/ k = Len(buffer) + 1
        BY <3>3, <3>4
      <4>2. CASE k \in 1 .. Len(buffer)
        BY <3>3, <3>4, <4>2
      <4>3. CASE k = Len(buffer) + 1
        BY <3>3, <3>4, <4>3
      <4> QED
        BY <4>1, <4>2, <4>3
    <3>6. InOrder'
      <4>1. Len(buffer') <= req.count /\ left'[current] = req.count - Len(buffer')
        BY <1>2, <1>3, <2>7, <3>1, <3>2 DEF InOrder
      <4>2. sector'[current] = req.lba + Len(buffer')
        <5>1. sector'[current] = sector[current] + 1 /\ Len(buffer') = Len(buffer) + 1
          BY <2>7
        <5>2. sector[current] = req.lba + Len(buffer) /\ Len(buffer) \in Nat /\ req.lba \in Nat
          BY <3>4
        <5> QED
          BY <5>1, <5>2
      <4> QED
        BY <1>2, <3>2, <3>5, <4>1, <4>2 DEF InOrder
    <3> QED
      BY <1>2, <3>2, <3>6 DEF Progress
  <2> QED
    BY <1>2, <2>4, <2>5, <2>6, <2>8, <2>9 DEF CommandsReachIdleDrive, AvailableIsThere,
       OnlyShortWritesAreDropped, FoundIdle
<1>5. CASE ~(req.wired /\ current \in disk /\ Status.drq)
  <2>1. /\ buffer' = Append(buffer, Garbage)
        /\ late' = (late \/ left[current] > 0)
        /\ lagged' = (lagged \/ (req.wired /\ (late \/ left[current] > 0)))
        /\ UNCHANGED <<status, left, sector>>
    BY <1>5 DEF Transfer, Late
  <2>2. TypeOK'
    BY <1>1, <1>2, <2>1 DEF TypeOK, Waits
  <2>3. CallTypes'
    <3>1. buffer' \in Seq(Int)
      BY <1>3, <2>1, AppendProperties DEF Garbage
    <3>2. late' \in BOOLEAN /\ lagged' \in BOOLEAN
      BY <1>3, <2>1, Zenon
    <3>3. pc' \notin Waits \cup {"select", "command"} /\ ~IsShortWrite'
      BY <1>1, <1>2 DEF Waits, IsShortWrite, CallTypes
    <3> QED
      BY <1>1, <1>2, <3>1, <3>2, <3>3, Zenon DEF CallTypes
  <2>4. OffersWhatItOwes'
    BY <2>1 DEF OffersWhatItOwes
  <2>5. ~OneCommand'
    <3> SUFFICES ASSUME OneCommand' PROVE FALSE
      OBVIOUS
    <3>1. ~late /\ ~(left[current] > 0)
      BY <2>1, Zenon DEF OneCommand
    <3>2. OneCommand /\ Wanted = req.count
      BY <1>2, <3>1 DEF OneCommand, Wanted
    <3>3. left[current] = req.count - Len(buffer)
      BY <1>2, <3>2 DEF Progress, InOrder
    <3> QED
      BY <1>3, <3>1, <3>2, <3>3
  <2>6. Settled'
    <3> SUFFICES ASSUME ~lagged' PROVE Settled'
      BY DEF Settled
    <3>1. ~lagged /\ (req.wired => ~late' /\ ~(left[current] > 0))
      BY <1>3, <2>1, Zenon
    <3>2. req.wired => left'[current'] <= Wanted' - Len(buffer')
      <4>1. Len(buffer') = Len(buffer) + 1
        BY <1>3, <2>1, AppendProperties DEF Garbage
      <4>2. left[current] \in Nat
        BY <1>1 DEF TypeOK
      <4> QED
        BY <1>2, <1>3, <2>1, <3>1, <4>1, <4>2
    <3> QED
      BY <1>2, <2>1, <3>1, <3>2 DEF Settled
  <2> QED
    BY <1>2, <2>2, <2>3, <2>4, <2>5, <2>6 DEF CommandsReachIdleDrive, AvailableIsThere,
       OnlyShortWritesAreDropped, FoundIdle, Status, Absent, Progress
<1> QED
  BY <1>4, <1>5

(* A call of one command ends with all its sectors; a device that answered *)
(* to identify becomes available.                                          *)
LEMMA TransferredKeeps ==
  ASSUME IInv, Transferred
  PROVE  IInv'
<1> USE DEF IInv
<1>1. TypeOK /\ CallTypes
  BY DEF CommandsReachIdleDrive
<1>2. /\ UNCHANGED <<disk, status, left, sector, current, req, sent, late, lagged>>
      /\ pc = "transfer" /\ Len(buffer) = Wanted /\ j' = j + PerCommand
      /\ \/ /\ req.op # "identify" /\ j + PerCommand < req.lba + req.count
            /\ pc' = "busy" /\ i' = Polls /\ buffer' = <<>>
         \/ pc' = "idle" /\ i' = i /\ buffer' = buffer
  BY DEF Transferred, drive
<1>3. /\ Polls \in Nat \ {0} /\ PerCommand \in Nat \ {0}
      /\ j \in Nat /\ req.lba \in Nat /\ req.count \in Nat
  BY <1>1, AtaAssumption DEF CallTypes
<1>4. available' \in [Slave -> BOOLEAN] /\ port' \in [Slave -> BOOLEAN] /\ AvailableIsThere'
  <2>1. available \in [Slave -> BOOLEAN] /\ port \in [Slave -> BOOLEAN] /\ req.slave \in Slave
    BY <1>1 DEF TypeOK, CallTypes
  <2>2. CASE req.op = "identify"
    <3>1. /\ available' = [available EXCEPT ![req.slave] = TRUE] /\ req.slave \in disk
          /\ port' = [port EXCEPT ![req.slave] = TRUE]
      BY <1>2, <2>2 DEF Transferred, FoundIdle
    <3> QED
      BY <1>2, <2>1, <3>1 DEF AvailableIsThere
  <2>3. CASE req.op # "identify"
    BY <1>2, <2>1, <2>3 DEF Transferred, AvailableIsThere, device
  <2> QED
    BY <2>2, <2>3
<1>5. TypeOK'
  BY <1>1, <1>2, <1>3, <1>4 DEF TypeOK, Waits
<1>6. CallTypes'
  <2>1. buffer' \in Seq(Int)
    BY <1>1, <1>2, EmptySeq DEF CallTypes
  <2>2. j' \in Nat /\ (pc' # "idle" => i' > 0 /\ ~IsShortWrite' /\ req'.op # "none")
    BY <1>1, <1>2, <1>3 DEF CallTypes, IsShortWrite
  <2>3. pc' \in Waits \cup {"select", "command"} => buffer' = <<>>
    BY <1>2 DEF Waits
  <2> QED
    BY <1>1, <1>2, <2>1, <2>2, <2>3 DEF CallTypes
<1>7. OffersWhatItOwes' /\ FoundIdle'
  BY <1>2 DEF OffersWhatItOwes, FoundIdle
<1>8. Settled'
  <2> SUFFICES ASSUME ~lagged PROVE Settled'
    BY <1>2 DEF Settled
  <2>1. pc' \notin {"busy3", "drq", "transfer"}
    BY <1>2
  <2>2. req.wired => left[current] = 0
    <3>1. left[current] \in Nat /\ Len(buffer) \in Nat
      BY <1>1, LenProperties DEF TypeOK, CallTypes
    <3>2. req.wired => left[current] <= Wanted - Len(buffer)
      BY <1>2 DEF Settled
    <3> QED
      BY <1>2, <3>1, <3>2
  <2>3. \A d \in Slave : left[d] = 0
    BY <2>2 DEF Settled
  <2> QED
    BY <1>2, <2>1, <2>3 DEF Settled
<1>9. OneCommand => pc' = "idle" /\ buffer = Asked /\ ~IsShortWrite
  <2> SUFFICES ASSUME OneCommand PROVE pc' = "idle" /\ buffer = Asked
    BY <1>1, <1>2 DEF CallTypes
  <2>1. j = req.lba /\ InOrder /\ req.count <= PerCommand /\ Len(buffer) = req.count
    BY <1>2 DEF Progress, OneCommand, Wanted
  <2>2. buffer \in [1 .. Len(buffer) -> Int]
    BY <1>1, LenProperties DEF CallTypes
  <2>3. buffer = Asked
    BY <2>1, <2>2 DEF InOrder, Asked
  <2> QED
    BY <1>2, <1>3, <2>1, <2>3
<1>10. OnlyShortWritesAreDropped'
  <2>1. ~IsShortWrite'
    BY <1>1, <1>2 DEF CallTypes, IsShortWrite
  <2>2. ASSUME pc' = "idle", OneCommand PROVE buffer' = Asked'
    BY <1>2, <1>9, <2>2 DEF Asked
  <2> QED
    BY <1>2, <2>1, <2>2 DEF OnlyShortWritesAreDropped, OneCommand
<1>11. Progress'
  BY <1>2, <1>9 DEF Progress, OneCommand
<1>12. CommandsReachIdleDrive'
  BY <1>2, <1>5 DEF CommandsReachIdleDrive
<1> QED
  BY <1>4, <1>6, <1>7, <1>8, <1>10, <1>11, <1>12

(* A device that did not answer to identify is not available.              *)
LEMMA UnavailableKeeps ==
  ASSUME IInv, Unavailable
  PROVE  IInv'
<1> USE DEF IInv
<1>1. TypeOK /\ CallTypes
  BY DEF CommandsReachIdleDrive
<1>2. /\ UNCHANGED <<disk, status, left, sector, current, i, req, j, buffer, port, sent,
                     late, lagged>>
      /\ available' = [available EXCEPT ![req.slave] = FALSE] /\ pc' = "idle"
  BY DEF Unavailable, drive
<1>3. available' \in [Slave -> BOOLEAN] /\ AvailableIsThere'
  BY <1>1, <1>2 DEF TypeOK, CallTypes, AvailableIsThere
<1>4. TypeOK'
  BY <1>1, <1>2, <1>3 DEF TypeOK, Waits
<1>5. CallTypes' /\ OffersWhatItOwes'
  BY <1>1, <1>2 DEF CallTypes, OffersWhatItOwes, Waits
<1>6. req'.op = "identify" /\ pc = "unavailable"
  BY <1>2 DEF Unavailable, FoundIdle
<1>7. Settled'
  BY <1>2, <1>6 DEF Settled
<1> QED
  BY <1>2, <1>3, <1>4, <1>5, <1>6, <1>7
     DEF CommandsReachIdleDrive, FoundIdle, OnlyShortWritesAreDropped, Progress

(* Every step keeps the invariant.                                         *)
LEMMA InvStep == IInv /\ [Next]_vars => IInv'
<1> SUFFICES ASSUME IInv, [Next]_vars PROVE IInv'
  OBVIOUS
<1>1. ASSUME NEW d \in Slave, init_ATA_device(d) PROVE IInv'
  BY <1>1, CallKeeps DEF init_ATA_device
<1>2. ASSUME NEW d \in Slave, NEW lba \in Lba, NEW n \in 1 .. MaxCount,
             read_ATA(d, lba, n) \/ write_ATA(d, lba, n)
      PROVE  IInv'
  <2>1. lba \in Nat /\ n \in Nat /\ n > 0
    BY AtaAssumption
  <2>2. port[d] \in BOOLEAN /\ PerCommand \in Nat
    BY AtaAssumption DEF IInv, CommandsReachIdleDrive, TypeOK
  <2>3. CASE read_ATA(d, lba, n)
    BY <2>1, <2>2, <2>3, CallKeeps DEF read_ATA
  <2>4. CASE write_ATA(d, lba, n)
    BY <2>1, <2>2, <2>4, CallKeeps DEF write_ATA
  <2> QED
    BY <1>2, <2>3, <2>4
<1>3. CASE Driver
  BY <1>3, PollKeeps, SelectKeeps, CommandKeeps, StrayCommandKeeps, TransferKeeps, TransferredKeeps,
     UnavailableKeeps DEF Driver
<1>4. CASE UNCHANGED vars
  <2>1. UNCHANGED <<disk, status, left, sector, current, pc, i, req, j, buffer,
                    available, port, sent, late, lagged>>
    BY <1>4 DEF vars, drive, device
  <2>2. Status' = Status
    BY <2>1 DEF Status, Absent
  <2>3. TypeOK'
    BY <2>1 DEF IInv, CommandsReachIdleDrive, TypeOK
  <2> QED
    BY <2>1, <2>2, <2>3 DEF IInv, CommandsReachIdleDrive, AvailableIsThere,
       OnlyShortWritesAreDropped, CallTypes, OffersWhatItOwes, FoundIdle, Settled,
       Progress, OneCommand, InOrder, Wanted, Asked, IsShortWrite
<1> QED
  BY <1>1, <1>2, <1>3, <1>4, DriveKeeps DEF Next

-----------------------------------------------------------------------------

(* A command to the channel goes to the drive it is meant for, which is    *)
(* there, ready and not busy, however late drives answer and however few   *)
(* polls are made; a sector is pending there only if some call was late    *)
(* (ATA.c:47-58).                                                          *)
THEOREM AtaCommandsReachIdleDrive == Spec => []CommandsReachIdleDrive
<1>1. IInv => CommandsReachIdleDrive
  BY DEF IInv
<1> QED
  BY InvInit, InvStep, <1>1, PTL DEF Spec

(* Only devices that have a drive are listed as available, or called at    *)
(* the channel's port (ATA.c:90-99).                                       *)
THEOREM AtaAvailableIsThere == Spec => []AvailableIsThere
<1>1. IInv => AvailableIsThere
  BY DEF IInv
<1> QED
  BY InvInit, InvStep, <1>1, PTL DEF Spec

(* A read of at most one command, or a write of exactly one, moves its     *)
(* sectors, each once and in order, unless a loop of polls ran out or a    *)
(* sector was not there in time; a write of less than one command moves    *)
(* none (ATA.c:51, 62-88).                                                 *)
THEOREM AtaOnlyShortWritesAreDropped == Spec => []OnlyShortWritesAreDropped
<1>1. IInv => OnlyShortWritesAreDropped
  BY DEF IInv
<1> QED
  BY InvInit, InvStep, <1>1, PTL DEF Spec

=============================================================================
