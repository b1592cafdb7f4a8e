------------------------------- MODULE TwoWire -------------------------------
(***************************************************************************)
(* The I2C bus of the device and the tasks that share it.  One object,     *)
(* Wire, with one buffer to send and one to receive, serves the clock, the *)
(* FRAM and the card reader.  A mutex is held from beginTransmission to    *)
(* endTransmission, and inside requestFrom; what requestFrom received is   *)
(* taken out of the buffer afterwards, without the mutex.                  *)
(*                                                                         *)
(* The chip has one core: a task runs when no ready task of higher         *)
(* priority is there, and may be preempted between any two steps.  During  *)
(* a transfer the driver blocks the task until the interrupt.  The mutex   *)
(* lends its owner the priority of those who wait for it.                  *)
(*                                                                         *)
(* A byte received is the name of the device it came from; reading an      *)
(* exhausted buffer gives None (the code's -1).                            *)
(***************************************************************************)
EXTENDS Integers, Sequences

CONSTANTS
  Clock, Fram, Reader,  \* the devices
  None,
  TimeBytes,            \* bytes of the clock's time (7)
  RideBytes,            \* bytes of the ride in the FRAM (10)
  Fifo,                 \* bytes MFRC522 reads at a time at most
  Faulty                \* the devices that may fail to answer

Devices == {Clock, Fram, Reader}

ASSUME WireAssumption ==
  /\ TimeBytes \in Nat \ {0} /\ RideBytes \in Nat \ {0} /\ Fifo \in Nat \ {0}
  /\ Faulty \subseteq Devices /\ None \notin Devices

Journal == "task_8563"
Cmd == "task_cmd"
Rfid == "rc522_dec"
Tasks == {Journal, Cmd, Rfid}

ASSUME NobodyAssumption == None \notin Tasks

Prio(t) == CASE t = Journal -> 5 [] t = Cmd -> 10 [] t = Rfid -> 15

\* What a task asks of Wire.  how: "probe" and "write" only send; "stop" sends a
\* register, releases the bus and reads; "repeat" reads after a repeated start.
\* take: how the bytes are taken from the buffer: "exact", as many as were asked
\* for, if requestFrom reported as many; "plain", without looking at its result;
\* "available", as long as there are any; "bounded", both.
Op(dev, how, take, len) == [dev |-> dev, how |-> how, take |-> take, len |-> len]

now == Op(Clock, "repeat", "exact", TimeBytes)
adjust == Op(Clock, "write", "exact", 0)
readRegister == Op(Clock, "stop", "exact", 1)
writeData == Op(Fram, "write", "exact", 0)
readData == Op(Fram, "stop", "bounded", RideBytes)
Probe(dev) == Op(dev, "probe", "exact", 0)

PCD_WriteRegister == Op(Reader, "write", "exact", 0)
PCD_ReadRegister == Op(Reader, "stop", "plain", 1)
PCD_ReadRegisters == Op(Reader, "stop", "available", Fifo)

\* task_8563 up to its loop: rtc.begin, lostPower and adjust, start twice, now,
\* memory.begin, readData.
Startup == <<Probe(Clock), readRegister, adjust, readRegister, readRegister, now,
             Probe(Fram), readData>>

Ops == {Startup[i] : i \in DOMAIN Startup} \union
       {writeData, PCD_WriteRegister, PCD_ReadRegister, PCD_ReadRegisters}

VARIABLES
  lock, nonStop, nonStopTask, txAddress,
  tx,          \* txBuffer: the tasks that wrote its bytes
  rxFrom,      \* rxBuffer: the device its bytes came from
  rxLength, rxIndex,
  pc, op,      \* of each task: where it is, and in which operation
  got,         \* the bytes a task has taken
  step         \* how far task_8563 has come in Startup

shared == <<lock, nonStop, nonStopTask, txAddress, tx, rxFrom, rxLength, rxIndex>>
vars == <<shared, pc, op, got, step>>

States == {"sleep", "begin", "write", "end", "sending", "sent", "request", "receiving",
           "received", "returned", "read", "done"}

TypeOK ==
  /\ lock \in Tasks \union {None} /\ nonStopTask \in Tasks \union {None}
  /\ nonStop \in BOOLEAN
  /\ txAddress \in Devices \union {None} /\ tx \in Seq(Tasks)
  /\ rxFrom \in Devices \union {None} /\ rxLength \in Nat /\ rxIndex \in 0..rxLength
  /\ pc \in [Tasks -> States] /\ op \in [Tasks -> Ops]
  /\ got \in [Tasks -> Seq(Devices \union {None})]
  /\ step \in 1..(Len(Startup) + 1)

Init ==
  /\ lock = None /\ nonStop = FALSE /\ nonStopTask = None /\ txAddress = None
  /\ tx = <<>> /\ rxFrom = None /\ rxLength = 0 /\ rxIndex = 0
  /\ pc = [t \in Tasks |-> "sleep"] /\ op = [t \in Tasks |-> writeData]
  /\ got = [t \in Tasks |-> <<>>]
  /\ step = 1

-----------------------------------------------------------------------------
(* The scheduler. *)

\* The mutex is free for t, or t has to clear an unfinished transaction of its own.
Free(t) == lock = None \/ (nonStop /\ nonStopTask = t)

\* requestFrom goes on with the transaction of its own task.
Continues(t) == nonStop /\ nonStopTask = t

Waits(t) ==
  \/ pc[t] = "begin" /\ ~Free(t)
  \/ pc[t] = "request" /\ ~Continues(t) /\ lock # None

Blocked(t) == pc[t] \in {"sleep", "sending", "receiving"} \/ Waits(t)

Lent(t, p) == lock = t /\ \E w \in Tasks : Waits(w) /\ Prio(w) >= p

\* Variant: the tasks run in any order.
MayRunAny(t) == ~Blocked(t)

MayRun(t) ==
  /\ ~Blocked(t)
  /\ \A u \in Tasks \ {t} : Blocked(u) \/ Prio(u) < Prio(t) \/ Lent(t, Prio(u))

Goto(t, s) == pc' = [pc EXCEPT ![t] = s]

-----------------------------------------------------------------------------
(* Wire. *)

\* Variant: the mutex is taken by requestFrom only.
beginTransmissionUnlocked(t) ==
  /\ MayRun(t) /\ pc[t] = "begin"
  /\ nonStop' = FALSE /\ txAddress' = op[t].dev /\ tx' = <<>>
  /\ Goto(t, "write")
  /\ UNCHANGED <<lock, nonStopTask, rxFrom, rxLength, rxIndex, op, got, step>>

beginTransmission(t) ==
  /\ MayRun(t) /\ pc[t] = "begin"
  /\ lock' = t
  /\ nonStop' = FALSE /\ txAddress' = op[t].dev /\ tx' = <<>>
  /\ Goto(t, "write")
  /\ UNCHANGED <<nonStopTask, rxFrom, rxLength, rxIndex, op, got, step>>

write(t) ==
  /\ MayRun(t) /\ pc[t] = "write"
  /\ tx' = IF op[t].how = "probe" THEN tx ELSE Append(tx, t)
  /\ Goto(t, "end")
  /\ UNCHANGED <<lock, nonStop, nonStopTask, txAddress, rxFrom, rxLength, rxIndex, op, got, step>>

\* endTransmission(true) up to i2cWrite, or endTransmission(false).
endTransmission(t) ==
  /\ MayRun(t) /\ pc[t] = "end"
  /\ IF op[t].how = "repeat"
     THEN nonStop' = TRUE /\ nonStopTask' = t /\ Goto(t, "request")
     ELSE UNCHANGED <<nonStop, nonStopTask>> /\ Goto(t, "sending")
  /\ UNCHANGED <<lock, txAddress, tx, rxFrom, rxLength, rxIndex, op, got, step>>

\* The transfer ends, and the driver's interrupt wakes the task.
i2cWrite(t) ==
  /\ pc[t] = "sending"
  /\ Goto(t, "sent")
  /\ UNCHANGED <<shared, op, got, step>>

\* Variant: what is not acknowledged is sent again.
EndGiveRetry(t) ==
  /\ MayRun(t) /\ pc[t] = "sent"
  /\ lock' = None
  /\ \E ok \in IF txAddress \in Faulty THEN BOOLEAN ELSE {TRUE} :
       Goto(t, IF ~ok THEN "begin" ELSE IF op[t].how = "stop" THEN "request" ELSE "done")
  /\ UNCHANGED <<nonStop, nonStopTask, txAddress, tx, rxFrom, rxLength, rxIndex, op, got, step>>

\* The rest of endTransmission; without an acknowledgement nothing is read.  Only
\* PCD_ReadRegister does not look.
EndGive(t) ==
  /\ MayRun(t) /\ pc[t] = "sent"
  /\ lock' = None
  /\ \E ok \in IF txAddress \in Faulty THEN BOOLEAN ELSE {TRUE} :
       Goto(t, IF op[t].how = "stop" /\ (ok \/ op[t].dev = Reader) THEN "request" ELSE "done")
  /\ UNCHANGED <<nonStop, nonStopTask, txAddress, tx, rxFrom, rxLength, rxIndex, op, got, step>>

\* requestFrom up to the transfer.
requestFrom(t) ==
  /\ MayRun(t) /\ pc[t] = "request"
  /\ IF Continues(t) THEN nonStop' = FALSE /\ UNCHANGED lock
                     ELSE lock' = t /\ UNCHANGED nonStop
  /\ rxIndex' = 0 /\ rxLength' = 0
  /\ Goto(t, "receiving")
  /\ UNCHANGED <<nonStopTask, txAddress, tx, rxFrom, op, got, step>>

i2cRead(t) ==
  /\ pc[t] = "receiving"
  /\ \E n \in {op[t].len} \union (IF op[t].dev \in Faulty THEN {0} ELSE {}) : rxLength' = n
  /\ rxFrom' = op[t].dev
  /\ Goto(t, "received")
  /\ UNCHANGED <<lock, nonStop, nonStopTask, txAddress, tx, rxIndex, op, got, step>>

RequestGive(t) ==
  /\ MayRun(t) /\ pc[t] = "received"
  /\ lock' = None
  /\ Goto(t, "returned")
  /\ UNCHANGED <<nonStop, nonStopTask, txAddress, tx, rxFrom, rxLength, rxIndex, op, got, step>>

\* rxLength is returned after the mutex was given back.
RequestReturn(t) ==
  /\ MayRun(t) /\ pc[t] = "returned"
  /\ Goto(t, IF op[t].take = "exact" /\ rxLength # op[t].len THEN "done" ELSE "read")
  /\ UNCHANGED <<shared, op, got, step>>

\* Does the caller take another byte?
Another(t) ==
  LET wanted == Len(got[t]) < op[t].len
      available == rxIndex < rxLength
  IN  CASE op[t].take \in {"exact", "plain"} -> wanted
        [] op[t].take = "available" -> available
        [] op[t].take = "bounded" -> available /\ wanted

\* read(), as often as the caller calls it.
read(t) ==
  /\ MayRun(t) /\ pc[t] = "read" /\ Another(t)
  /\ got' = [got EXCEPT ![t] = Append(@, IF rxIndex < rxLength THEN rxFrom ELSE None)]
  /\ rxIndex' = IF rxIndex < rxLength THEN rxIndex + 1 ELSE rxIndex
  /\ UNCHANGED <<lock, nonStop, nonStopTask, txAddress, tx, rxFrom, rxLength, pc, op, step>>

ReadEnd(t) ==
  /\ MayRun(t) /\ pc[t] = "read" /\ ~Another(t)
  /\ Goto(t, "done")
  /\ UNCHANGED <<shared, op, got, step>>

-----------------------------------------------------------------------------
(* The tasks. *)

Start(t, o) ==
  /\ pc[t] = "sleep"
  /\ Goto(t, "begin")
  /\ op' = [op EXCEPT ![t] = o]
  /\ got' = [got EXCEPT ![t] = <<>>]
  /\ UNCHANGED shared

\* The other tasks come to the bus seconds after task_8563: setup waits two before
\* it creates task_rfid, which waits two more, and five before it creates task_ble.
Begun == step > Len(Startup)

\* The steps of Startup follow one another; the clock is only set if it lost power.
WakeJournal ==
  /\ Start(Journal, IF Begun THEN writeData ELSE Startup[step])
  /\ UNCHANGED step

SkipAdjust ==
  /\ pc[Journal] = "sleep" /\ step = 3
  /\ step' = 4
  /\ UNCHANGED <<shared, pc, op, got>>

\* A command asks for the time, or sets the clock and then reads it.
WakeCmd ==
  /\ Begun
  /\ \E o \in {now, adjust} : Start(Cmd, o)
  /\ UNCHANGED step

CmdNow ==
  /\ MayRun(Cmd) /\ pc[Cmd] = "done" /\ op[Cmd] = adjust
  /\ Goto(Cmd, "begin")
  /\ op' = [op EXCEPT ![Cmd] = now]
  /\ UNCHANGED <<shared, got, step>>

\* Between two accesses of the reader the task may go on at once, or wait.
WakeRfid ==
  /\ Begun
  /\ \E o \in {PCD_WriteRegister, PCD_ReadRegister, PCD_ReadRegisters} : Start(Rfid, o)
  /\ UNCHANGED step

\* The operation is over.
Rest(t) ==
  /\ MayRun(t) /\ pc[t] = "done" /\ ~(t = Cmd /\ op[t] = adjust)
  /\ Goto(t, "sleep")
  /\ step' = IF t = Journal /\ ~Begun THEN step + 1 ELSE step
  /\ UNCHANGED <<shared, op, got>>

Wake == WakeJournal \/ SkipAdjust \/ WakeCmd \/ WakeRfid

Work(t) ==
  \/ beginTransmission(t) \/ write(t) \/ endTransmission(t) \/ i2cWrite(t) \/ EndGive(t)
  \/ requestFrom(t) \/ i2cRead(t) \/ RequestGive(t) \/ RequestReturn(t)
  \/ read(t) \/ ReadEnd(t) \/ Rest(t)

Next == Wake \/ CmdNow \/ \E t \in Tasks : Work(t)

Spec == Init /\ [][Next]_vars

\* A task that may run does, and transfers end; nobody has to wake up.
FairSpec == Spec /\ WF_vars(CmdNow) /\ \A t \in Tasks : WF_vars(Work(t))

-----------------------------------------------------------------------------
(* Properties. *)

\* What goes out on the bus is what its task wrote, to the device it meant
\* (Wire.cpp 389-390, 465, 473).
TransmissionOwn ==
  \A t \in Tasks : pc[t] \in {"end", "sending"} =>
    txAddress = op[t].dev /\ \A i \in DOMAIN tx : tx[i] = t

\* No task is given a byte of another device, although the buffer is read without
\* the mutex: whoever refills it has taken his bytes before others run again.
NoForeignByte == \A t \in Tasks : \A i \in DOMAIN got[t] : got[t][i] \in {op[t].dev, None}

Whole(t) == got[t] = [i \in 1..op[t].len |-> op[t].dev]

\* rc522_dec comes through, whatever is under way on the bus when it wakes up.
RfidServed == pc[Rfid] # "sleep" ~> pc[Rfid] = "sleep"

\* RTC_PCF8563.cpp 58-59: now returns the current date and time.
NowIsTime == pc[Cmd] = "done" /\ op[Cmd] = now => Whole(Cmd)
=============================================================================
