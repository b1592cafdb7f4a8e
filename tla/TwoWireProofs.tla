---------------------------- MODULE TwoWireProofs ----------------------------
(***************************************************************************)
(* Proofs about TwoWire, for any lengths of the answers and any devices     *)
(* that fail: what is sent is what its task wrote, and nobody is given a    *)
(* byte of another device.                                                  *)
(*                                                                         *)
(* The mutex protects what is sent.  It does not protect what was received  *)
(* and is taken from the buffer after the mutex was given back: there it is *)
(* the priorities.  Whoever takes the mutex outranks everyone who still has *)
(* bytes to take (LockOutranks), since they are ready and he runs; so the   *)
(* owner of what is in the buffer (Unread) outranks them too, and they do   *)
(* not run before he has taken all of it.                                   *)
(***************************************************************************)
EXTENDS TwoWire, SequenceTheorems, TLAPS

\* The task is where Wire holds the mutex for it.
Inside(t) ==
  \/ pc[t] \in {"write", "end", "sending", "sent", "receiving", "received"}
  \/ pc[t] = "request" /\ op[t].how = "repeat"

Locking ==
  /\ \A t \in Tasks : Inside(t) => lock = t
  /\ \A t \in Tasks : pc[t] = "request" /\ op[t].how = "repeat" => nonStop /\ nonStopTask = t
  /\ nonStop => /\ nonStopTask \in Tasks /\ pc[nonStopTask] = "request"
                /\ op[nonStopTask].how = "repeat"

Sending ==
  \A t \in Tasks : pc[t] \in {"write", "end", "sending"} =>
    txAddress = op[t].dev /\ \A i \in DOMAIN tx : tx[i] = t

\* The task may still take bytes from the buffer, without the mutex.
Taking(t) == pc[t] \in {"returned", "read"}

\* Bytes are taken by those who read, once; a transfer starts with an empty buffer.
Taken ==
  \A t \in Tasks :
    /\ got[t] # <<>> => pc[t] \in {"read", "done", "sleep"} /\ op[t].how \in {"stop", "repeat"}
    /\ pc[t] \in {"request", "receiving", "received"} \/ Taking(t) => op[t].how \in {"stop", "repeat"}
    /\ pc[t] = "receiving" => rxIndex = 0 /\ rxLength = 0

LockOutranks ==
  \A t \in Tasks : lock = t => \A u \in Tasks \ {t} : Taking(u) => Prio(u) < Prio(t)

\* What is in the buffer is r's.
Owner(r) ==
  /\ pc[r] = "received" \/ Taking(r)
  /\ rxFrom = op[r].dev /\ rxLength = op[r].len /\ rxIndex = Len(got[r])
  /\ \A u \in Tasks \ {r} : /\ Taking(u) => Prio(u) < Prio(r)
                            /\ pc[u] \notin {"receiving", "received"}

Unread == rxIndex < rxLength => \E r \in Tasks : Owner(r)

IInv == TypeOK /\ Locking /\ Sending /\ Taken /\ LockOutranks /\ Unread /\ NoForeignByte

-------------------------------------------------------------------------------
(***************************************************************************)
(* Operations and tasks.                                                   *)
(***************************************************************************)
Hows == {"probe", "write", "stop", "repeat"}
Takes == {"exact", "plain", "available", "bounded"}
OpTypes == [dev : Devices, how : Hows, take : Takes, len : Nat]

\* Every operation has a device, a way and a length.
LEMMA OpsTyped == Ops \subseteq OpTypes
<1> USE WireAssumption DEF OpTypes, Hows, Takes, Devices, Op
<1>1. \A i \in 1 .. 8 : Startup[i] \in OpTypes
  BY DEF Startup, Probe, readRegister, adjust, now, readData
<1>2. DOMAIN Startup = 1 .. 8
  BY DEF Startup
<1>3. {writeData, PCD_WriteRegister, PCD_ReadRegister, PCD_ReadRegisters} \subseteq OpTypes
  BY DEF writeData, PCD_WriteRegister, PCD_ReadRegister, PCD_ReadRegisters
<1> QED
  BY <1>1, <1>2, <1>3 DEF Ops

\* The operations the tasks start are operations.
LEMMA OpsStarted ==
  /\ {writeData, PCD_WriteRegister, PCD_ReadRegister, PCD_ReadRegisters, now, adjust} \subseteq Ops
  /\ \A i \in 1 .. 8 : Startup[i] \in Ops
  /\ Len(Startup) = 8
  /\ adjust.how = "write"
<1>1. DOMAIN Startup = 1 .. 8 /\ Len(Startup) = 8 /\ Startup[6] = now /\ Startup[3] = adjust
  BY DEF Startup
<1> QED
  BY <1>1 DEF Ops, adjust, Op

\* Priorities are numbers.
LEMMA Priorities == \A t \in Tasks : Prio(t) \in Nat
BY DEF Tasks, Prio, Journal, Cmd, Rfid

\* No device is nobody, and no task is.
LEMMA NoneOther == None \notin Devices /\ None \notin Tasks
BY WireAssumption, NobodyAssumption

\* Who runs outranks all others who could, unless he holds the mutex.
LEMMA RunnerOutranks ==
  ASSUME NEW t \in Tasks, NEW u \in Tasks \ {t}, MayRun(t), lock # t,
         pc[u] = "received" \/ Taking(u)
  PROVE  Prio(u) < Prio(t)
<1>1. ~Blocked(u)
  BY DEF Blocked, Waits, Taking
<1> QED
  BY <1>1 DEF MayRun, Lent

\* Who takes the mutex finds it free.
LEMMA FindsFree ==
  ASSUME Locking, NEW t \in Tasks, MayRun(t),
         pc[t] = "begin" \/ (pc[t] = "request" /\ ~Continues(t))
  PROVE  lock = None /\ (pc[t] = "begin" => ~nonStop)
<1>1. CASE pc[t] = "begin"
  <2>1. lock = None \/ (nonStop /\ nonStopTask = t)
    BY <1>1 DEF MayRun, Blocked, Waits, Free
  <2>2. nonStop => nonStopTask \in Tasks /\ lock = nonStopTask /\ pc[nonStopTask] = "request"
    BY DEF Locking, Inside
  <2> QED
    BY <1>1, <2>1, <2>2, NoneOther
<1>2. CASE pc[t] = "request" /\ ~Continues(t)
  BY <1>2 DEF MayRun, Blocked, Waits
<1> QED
  BY <1>1, <1>2


-------------------------------------------------------------------------------
(***************************************************************************)
(* The steps.                                                              *)
(***************************************************************************)

\* What every step but those of Wire leaves alone: the tasks' own steps.
Own(t) == RequestReturn(t) \/ ReadEnd(t) \/ Rest(t)

\* A task begins an operation.
Begins(t) ==
  /\ pc[t] = "sleep" \/ (pc[t] = "done" /\ op[t].how = "write")
  /\ Goto(t, "begin")
  /\ \E o \in Ops : op' = [op EXCEPT ![t] = o]
  /\ got' = got \/ got' = [got EXCEPT ![t] = <<>>]
  /\ pc[t] = "sleep" => got' = [got EXCEPT ![t] = <<>>]
  /\ step' = step
  /\ UNCHANGED shared

\* Every step is one of these.
LEMMA Steps ==
  ASSUME TypeOK, [Next]_vars
  PROVE  \/ \E t \in Tasks : Begins(t)
         \/ UNCHANGED <<shared, pc, op, got>> /\ step' \in {step, 4}
         \/ \E t \in Tasks : Work(t)
<1>1. CASE WakeJournal
  <2>1. step \in 1 .. 9
    BY OpsStarted DEF TypeOK
  <2>2. (IF Begun THEN writeData ELSE Startup[step]) \in Ops
    BY <2>1, OpsStarted DEF Begun
  <2> QED
    BY <1>1, <2>2 DEF WakeJournal, Start, Begins, Tasks
<1>2. CASE SkipAdjust
  BY <1>2 DEF SkipAdjust
<1>3. CASE WakeCmd
  BY <1>3, OpsStarted DEF WakeCmd, Start, Begins, Tasks
<1>4. CASE WakeRfid
  BY <1>4, OpsStarted DEF WakeRfid, Start, Begins, Tasks
<1>5. CASE CmdNow
  BY <1>5, OpsStarted DEF CmdNow, Begins, Tasks
<1>6. CASE UNCHANGED vars
  BY <1>6 DEF vars
<1> QED
  BY <1>1, <1>2, <1>3, <1>4, <1>5, <1>6 DEF Next, Wake

\* The mutex is where it belongs.
LEMMA NextLocking == TypeOK /\ Locking /\ [Next]_vars => Locking'
<1> SUFFICES ASSUME TypeOK, Locking, [Next]_vars PROVE Locking'
  OBVIOUS
<1> USE NoneOther DEF Locking, Inside, TypeOK, Goto, shared
<1>1. ASSUME NEW t \in Tasks, Begins(t) PROVE Locking'
  BY <1>1 DEF Begins
<1>2. CASE UNCHANGED <<shared, pc, op, got>>
  BY <1>2
<1>3. ASSUME NEW t \in Tasks, Work(t) PROVE Locking'
  <2>1. CASE beginTransmission(t)
    <3>1. lock = None /\ ~nonStop
      BY <2>1, FindsFree DEF beginTransmission
    <3> QED
      BY <2>1, <3>1 DEF beginTransmission
  <2>2. CASE write(t) \/ i2cWrite(t) \/ i2cRead(t)
    BY <2>2 DEF write, i2cWrite, i2cRead
  <2>3. CASE endTransmission(t)
    BY <2>3 DEF endTransmission
  <2>4. CASE EndGive(t)
    <3>1. pc[t] = "sent" /\ lock = t /\ ~nonStop
      BY <2>4 DEF EndGive
    <3>2. pc' = [pc EXCEPT ![t] = "done"] \/ (pc' = [pc EXCEPT ![t] = "request"] /\ op[t].how = "stop")
      BY <2>4 DEF EndGive
    <3>3. lock' = None /\ UNCHANGED <<nonStop, nonStopTask, op>>
      BY <2>4 DEF EndGive
    <3> QED
      BY <3>1, <3>2, <3>3
  <2>5. CASE requestFrom(t)
    <3>1. ~Continues(t) => lock = None
      BY <2>5, FindsFree DEF requestFrom
    <3> QED
      BY <2>5, <3>1 DEF requestFrom, Continues
  <2>6. CASE RequestGive(t)
    BY <2>6 DEF RequestGive
  <2>7. CASE Own(t) \/ read(t)
    BY <2>7 DEF Own, RequestReturn, ReadEnd, Rest, read
  <2> QED
    BY <1>3, <2>1, <2>2, <2>3, <2>4, <2>5, <2>6, <2>7 DEF Work, Own
<1> QED
  BY <1>1, <1>2, <1>3, Steps

\* What is sent is its task's.
LEMMA NextSending == TypeOK /\ Locking /\ Sending /\ [Next]_vars => Sending'
<1> SUFFICES ASSUME TypeOK, Locking, Sending, [Next]_vars PROVE Sending'
  OBVIOUS
<1> USE NoneOther DEF Sending, TypeOK, Goto, shared
<1>1. ASSUME NEW t \in Tasks, Begins(t) PROVE Sending'
  BY <1>1 DEF Begins
<1>2. CASE UNCHANGED <<shared, pc, op, got>>
  BY <1>2
<1>3. ASSUME NEW t \in Tasks, Work(t) PROVE Sending'
  <2>1. CASE beginTransmission(t)
    <3>1. \A u \in Tasks : pc[u] \notin {"write", "end", "sending"}
      BY <2>1, FindsFree DEF beginTransmission, Locking, Inside
    <3> QED
      BY <2>1, <3>1 DEF beginTransmission
  <2>2. CASE write(t)
    <3>1. \A u \in Tasks \ {t} : pc[u] \notin {"write", "end", "sending"}
      BY <2>2 DEF write, Locking, Inside
    <3>2. pc[t] = "write" /\ txAddress' = txAddress /\ op' = op /\ pc' = [pc EXCEPT ![t] = "end"]
          /\ (tx' = tx \/ tx' = Append(tx, t))
      BY <2>2 DEF write
    <3>3. \A i \in DOMAIN tx' : tx'[i] = t
      <4>1. tx \in Seq(Tasks) /\ \A i \in DOMAIN tx : tx[i] = t
        BY <3>2
      <4>2. CASE tx' = Append(tx, t)
        <5>1. /\ \A i \in 1 .. Len(tx) : Append(tx, t)[i] = tx[i]
              /\ Append(tx, t)[Len(tx) + 1] = t /\ Len(Append(tx, t)) = Len(tx) + 1
          BY <4>1, AppendProperties
        <5>2. Append(tx, t) \in Seq(Tasks) /\ Len(tx) \in Nat
          BY <4>1, AppendProperties, LenProperties
        <5>3. DOMAIN tx = 1 .. Len(tx) /\ DOMAIN tx' = 1 .. Len(tx) + 1
          BY <4>1, <4>2, <5>1, <5>2, LenProperties
        <5> QED
          BY <4>1, <4>2, <5>1, <5>2, <5>3
      <4> QED
        BY <3>2, <4>1, <4>2
    <3> QED
      BY <3>1, <3>2, <3>3
  <2>3. CASE endTransmission(t) \/ i2cWrite(t)
    BY <2>3 DEF endTransmission, i2cWrite
  <2>4. CASE EndGive(t) \/ requestFrom(t) \/ i2cRead(t) \/ RequestGive(t) \/ Own(t) \/ read(t)
    <3>1. UNCHANGED <<txAddress, tx, op>>
      BY <2>4 DEF EndGive, requestFrom, i2cRead, RequestGive, Own, RequestReturn, ReadEnd, Rest, read
    <3>2. \A u \in Tasks : pc'[u] \in {"write", "end", "sending"} => pc[u] = pc'[u]
      <4>1. CASE EndGive(t) \/ requestFrom(t) \/ i2cRead(t)
        <5>1. CASE EndGive(t)
          BY <5>1 DEF EndGive
        <5>2. CASE requestFrom(t)
          BY <5>2 DEF requestFrom
        <5>3. CASE i2cRead(t)
          BY <5>3 DEF i2cRead
        <5> QED
          BY <4>1, <5>1, <5>2, <5>3
      <4>2. CASE RequestGive(t) \/ read(t)
        BY <4>2 DEF RequestGive, read
      <4>3. CASE Own(t)
        BY <4>3 DEF Own, RequestReturn, ReadEnd, Rest
      <4> QED
        BY <2>4, <4>1, <4>2, <4>3
    <3> QED
      BY <3>1, <3>2
  <2> QED
    BY <1>3, <2>1, <2>2, <2>3, <2>4 DEF Work, Own
<1> QED
  BY <1>1, <1>2, <1>3, Steps

\* The types.
LEMMA NextTypeOK == TypeOK /\ Locking /\ Taken /\ [Next]_vars => TypeOK'
<1> SUFFICES ASSUME TypeOK, Locking, Taken, [Next]_vars PROVE TypeOK'
  OBVIOUS
<1> USE NoneOther, OpsStarted DEF TypeOK, Goto, shared, States
<1>1. ASSUME NEW t \in Tasks, Begins(t) PROVE TypeOK'
  <2>1. got' \in [Tasks -> Seq(Devices \cup {None})]
    <3>1. <<>> \in Seq(Devices \cup {None})
      OBVIOUS
    <3> QED
      BY <1>1, <3>1 DEF Begins
  <2>2. pc' = [pc EXCEPT ![t] = "begin"] /\ UNCHANGED <<shared, step>>
    BY <1>1 DEF Begins
  <2>3. \E o \in Ops : op' = [op EXCEPT ![t] = o]
    BY <1>1 DEF Begins
  <2>4. pc' \in [Tasks -> States]
    BY <2>2
  <2>5. op' \in [Tasks -> Ops]
    BY <2>3
  <2> QED
    BY <2>1, <2>2, <2>4, <2>5
<1>2. CASE UNCHANGED <<shared, pc, op, got>> /\ step' \in {step, 4}
  BY <1>2
<1>3. ASSUME NEW t \in Tasks, Work(t) PROVE TypeOK'
  <2>0. op[t] \in OpTypes
    BY OpsTyped
  <2>1. CASE beginTransmission(t)
    <3>1. tx' \in Seq(Tasks)
      BY <2>1 DEF beginTransmission
    <3>2. op[t].dev \in Devices
      BY <2>0 DEF OpTypes
    <3> QED
      BY <2>1, <3>1, <3>2 DEF beginTransmission
  <2>2. CASE write(t)
    <3>1. tx' \in Seq(Tasks)
      BY <2>2, AppendProperties DEF write
    <3> QED
      BY <2>2, <3>1 DEF write
  <2>3. CASE endTransmission(t) \/ i2cWrite(t) \/ RequestGive(t)
    BY <2>3 DEF endTransmission, i2cWrite, RequestGive
  <2>4. CASE EndGive(t)
    <3>1. pc' = [pc EXCEPT ![t] = "done"] \/ pc' = [pc EXCEPT ![t] = "request"]
      BY <2>4 DEF EndGive
    <3> QED
      BY <2>4, <3>1 DEF EndGive
  <2>5. CASE requestFrom(t)
    <3>1. rxLength' \in Nat /\ rxIndex' \in 0 .. rxLength'
      BY <2>5 DEF requestFrom
    <3>2. lock' \in Tasks \cup {None} /\ nonStop' \in BOOLEAN
      BY <2>5 DEF requestFrom
    <3> QED
      BY <2>5, <3>1, <3>2 DEF requestFrom
  <2>6. CASE i2cRead(t)
    <3>1. rxIndex = 0
      BY <2>6 DEF i2cRead, Taken
    <3>2. op[t].len \in Nat /\ op[t].dev \in Devices
      BY <2>0 DEF OpTypes
    <3>3. rxLength' \in Nat
      BY <2>6, <3>2 DEF i2cRead
    <3> QED
      BY <2>6, <3>1, <3>2, <3>3 DEF i2cRead
  <2>7. CASE RequestReturn(t) \/ ReadEnd(t)
    BY <2>7 DEF RequestReturn, ReadEnd
  <2>8. CASE Rest(t)
    BY <2>8 DEF Rest, Begun
  <2>9. CASE read(t)
    <3>1. (IF rxIndex < rxLength THEN rxFrom ELSE None) \in Devices \cup {None}
      OBVIOUS
    <3>2. \A x \in Devices \cup {None} : Append(got[t], x) \in Seq(Devices \cup {None})
      BY AppendProperties
    <3>3. got' \in [Tasks -> Seq(Devices \cup {None})]
      BY <2>9, <3>1, <3>2 DEF read
    <3>4. rxIndex' \in 0 .. rxLength'
      BY <2>9 DEF read
    <3> QED
      BY <2>9, <3>3, <3>4 DEF read
  <2> QED
    BY <1>3, <2>1, <2>2, <2>3, <2>4, <2>5, <2>6, <2>7, <2>8, <2>9 DEF Work
<1> QED
  BY <1>1, <1>2, <1>3, Steps

\* Bytes are taken by those who read.
LEMMA NextTaken == TypeOK /\ Locking /\ Taken /\ [Next]_vars => Taken'
<1> SUFFICES ASSUME TypeOK, Locking, Taken, [Next]_vars PROVE Taken'
  OBVIOUS
<1> USE NoneOther DEF Taken, Taking, TypeOK, Goto, shared
<1>1. ASSUME NEW t \in Tasks, Begins(t) PROVE Taken'
  <2>1. got'[t] = <<>> /\ pc' = [pc EXCEPT ![t] = "begin"]
    BY <1>1 DEF Begins
  <2>2. \A u \in Tasks \ {t} : got'[u] = got[u] /\ op'[u] = op[u] /\ pc'[u] = pc[u]
    BY <1>1 DEF Begins
  <2>3. rxIndex' = rxIndex /\ rxLength' = rxLength
    BY <1>1 DEF Begins
  <2> QED
    BY <2>1, <2>2, <2>3
<1>2. CASE UNCHANGED <<shared, pc, op, got>>
  BY <1>2
<1>3. ASSUME NEW t \in Tasks, Work(t) PROVE Taken'
  <2>1. CASE beginTransmission(t) \/ write(t) \/ i2cWrite(t)
    BY <2>1 DEF beginTransmission, write, i2cWrite
  <2>2. CASE endTransmission(t)
    BY <2>2 DEF endTransmission
  <2>3. CASE EndGive(t)
    <3>1. pc' = [pc EXCEPT ![t] = "done"] \/ (pc' = [pc EXCEPT ![t] = "request"] /\ op[t].how = "stop")
      BY <2>3 DEF EndGive
    <3>2. UNCHANGED <<rxIndex, rxLength, op, got>> /\ pc[t] = "sent"
      BY <2>3 DEF EndGive
    <3> QED
      BY <3>1, <3>2
  <2>4. CASE requestFrom(t)
    BY <2>4 DEF requestFrom
  <2>5. CASE i2cRead(t)
    <3>1. \A u \in Tasks \ {t} : pc[u] # "receiving"
      BY <2>5 DEF i2cRead, Locking, Inside
    <3> QED
      BY <2>5, <3>1 DEF i2cRead
  <2>6. CASE RequestGive(t) \/ RequestReturn(t) \/ ReadEnd(t) \/ Rest(t)
    BY <2>6 DEF RequestGive, RequestReturn, ReadEnd, Rest
  <2>7. CASE read(t)
    <3>1. /\ pc[t] = "read" /\ UNCHANGED <<pc, op, rxLength>>
          /\ rxIndex' = IF rxIndex < rxLength THEN rxIndex + 1 ELSE rxIndex
          /\ \A u \in Tasks \ {t} : got'[u] = got[u]
      BY <2>7 DEF read
    <3> QED
      BY <3>1
  <2> QED
    BY <1>3, <2>1, <2>2, <2>3, <2>4, <2>5, <2>6, <2>7 DEF Work
<1> QED
  BY <1>1, <1>2, <1>3, Steps

\* Who takes the mutex outranks those who still take bytes.
LEMMA NextLockOutranks ==
  TypeOK /\ Locking /\ LockOutranks /\ [Next]_vars => LockOutranks'
<1> SUFFICES ASSUME TypeOK, Locking, LockOutranks, [Next]_vars PROVE LockOutranks'
  OBVIOUS
<1> USE NoneOther DEF LockOutranks, Taking, TypeOK, Goto, shared
<1>1. ASSUME NEW t \in Tasks, Begins(t) PROVE LockOutranks'
  BY <1>1 DEF Begins
<1>2. CASE UNCHANGED <<shared, pc, op, got>>
  BY <1>2
<1>3. ASSUME NEW t \in Tasks, Work(t) PROVE LockOutranks'
  <2>1. CASE beginTransmission(t) \/ (requestFrom(t) /\ ~Continues(t))
    <3>1. lock = None /\ MayRun(t)
      BY <2>1, FindsFree DEF beginTransmission, requestFrom
    <3>2. \A u \in Tasks \ {t} : Taking(u) => Prio(u) < Prio(t)
      BY <3>1, RunnerOutranks
    <3>3. lock' = t /\ \A u \in Tasks \ {t} : pc'[u] = pc[u]
      BY <2>1 DEF beginTransmission, requestFrom
    <3> QED
      BY <3>2, <3>3
  <2>2. CASE requestFrom(t) /\ Continues(t)
    BY <2>2 DEF requestFrom
  <2>3. CASE write(t) \/ i2cWrite(t) \/ endTransmission(t) \/ i2cRead(t) \/ ReadEnd(t) \/ Rest(t)
    BY <2>3 DEF write, i2cWrite, endTransmission, i2cRead, ReadEnd, Rest
  <2>4. CASE EndGive(t) \/ RequestGive(t)
    BY <2>4 DEF EndGive, RequestGive
  <2>5. CASE RequestReturn(t) \/ read(t)
    BY <2>5 DEF RequestReturn, read
  <2> QED
    BY <1>3, <2>1, <2>2, <2>3, <2>4, <2>5 DEF Work
<1> QED
  BY <1>1, <1>2, <1>3, Steps

\* An owner stays the owner through a step that touches neither his place nor
\* the buffer, and brings nobody to where a transfer is under way.
LEMMA OwnerStays ==
  ASSUME TypeOK, NEW r \in Tasks, Owner(r), NEW t \in Tasks \ {r},
         UNCHANGED <<rxFrom, rxLength, rxIndex>>,
         pc'[r] = pc[r], op'[r] = op[r], got'[r] = got[r],
         \A u \in Tasks \ {t} : pc'[u] = pc[u],
         pc'[t] \notin {"receiving", "received"}, Taking(t)' => Taking(t)
  PROVE  Owner(r)'
BY DEF Owner, Taking

\* Whoever holds the mutex is nobody who can still be overtaken by an owner.
LEMMA OwnerRuns ==
  ASSUME TypeOK, Locking, LockOutranks, NEW r \in Tasks, Owner(r), NEW t \in Tasks \ {r},
         Taking(t)
  PROVE  ~MayRun(t)
<1>1. Prio(t) < Prio(r)
  BY DEF Owner
<1>2. lock # t
  <2>1. CASE pc[r] = "received"
    BY <2>1 DEF Locking, Inside
  <2>2. CASE Taking(r)
    <3>1. lock = t => Prio(r) < Prio(t)
      BY <2>2 DEF LockOutranks
    <3> QED
      BY <1>1, <3>1, Priorities
  <2> QED
    BY <2>1, <2>2 DEF Owner
<1>3. MayRun(t) => Prio(r) < Prio(t)
  BY <1>2, RunnerOutranks DEF Owner
<1> QED
  BY <1>1, <1>3, Priorities

\* What is unread stays its owner's until he has read it.
LEMMA NextUnread == IInv /\ [Next]_vars => Unread'
<1> SUFFICES ASSUME IInv, [Next]_vars, rxIndex' < rxLength' PROVE \E r \in Tasks : Owner(r)'
  BY DEF Unread
<1> USE NoneOther DEF IInv, TypeOK, Goto, shared
<1>1. ASSUME NEW t \in Tasks, Begins(t) PROVE \E r \in Tasks : Owner(r)'
  <2>1. PICK r \in Tasks : Owner(r)
    BY <1>1 DEF Begins, Unread
  <2>2. r # t
    BY <1>1, <2>1 DEF Begins, Owner, Taking
  <2>3. pc' = [pc EXCEPT ![t] = "begin"] /\ UNCHANGED <<rxFrom, rxLength, rxIndex>>
        /\ op'[r] = op[r] /\ got'[r] = got[r]
    BY <1>1, <2>2 DEF Begins
  <2> QED
    BY <2>1, <2>2, <2>3, OwnerStays DEF Taking
<1>2. CASE UNCHANGED <<shared, pc, op, got>>
  BY <1>2 DEF Unread, Owner, Taking
<1>3. ASSUME NEW t \in Tasks, Work(t) PROVE \E r \in Tasks : Owner(r)'
  <2>1. CASE beginTransmission(t) \/ write(t) \/ endTransmission(t) \/ i2cWrite(t) \/ EndGive(t)
             \/ Rest(t)
    <3>1. /\ pc[t] \in {"begin", "write", "end", "sending", "sent", "done"}
          /\ pc'[t] \in {"write", "end", "sending", "request", "sent", "done", "sleep"}
          /\ \A u \in Tasks \ {t} : pc'[u] = pc[u]
          /\ UNCHANGED <<rxFrom, rxLength, rxIndex, op, got>>
      BY <2>1 DEF beginTransmission, write, endTransmission, i2cWrite, EndGive, Rest
    <3>2. PICK r \in Tasks : Owner(r)
      BY <3>1 DEF Unread
    <3>3. r # t
      BY <3>1, <3>2 DEF Owner, Taking
    <3> QED
      BY <3>1, <3>2, <3>3, OwnerStays DEF Taking
  <2>2. CASE requestFrom(t)
    BY <2>2 DEF requestFrom
  <2>3. CASE i2cRead(t)
    <3>1. /\ pc[t] = "receiving" /\ pc' = [pc EXCEPT ![t] = "received"] /\ rxFrom' = op[t].dev
          /\ rxLength' \in {0, op[t].len} /\ UNCHANGED <<rxIndex, op, got>>
      BY <2>3 DEF i2cRead
    <3>2. rxIndex = 0 /\ got[t] = <<>> /\ lock = t
      BY <3>1 DEF Taken, Locking, Inside
    <3>3. \A u \in Tasks \ {t} : /\ pc[u] \notin {"receiving", "received"}
                                 /\ Taking(u) => Prio(u) < Prio(t)
      BY <3>2 DEF Locking, Inside, LockOutranks
    <3>4. rxLength' = op[t].len
      BY <3>1, <3>2
    <3>5. Owner(t)'
      BY <3>1, <3>2, <3>3, <3>4 DEF Owner, Taking
    <3> QED
      BY <3>5
  <2>4. CASE RequestGive(t)
    <3>1. /\ pc[t] = "received" /\ pc' = [pc EXCEPT ![t] = "returned"]
          /\ UNCHANGED <<rxFrom, rxLength, rxIndex, op, got>>
      BY <2>4 DEF RequestGive
    <3>2. PICK r \in Tasks : Owner(r)
      BY <3>1 DEF Unread
    <3>3. r = t
      BY <3>1, <3>2 DEF Owner
    <3> QED
      BY <3>1, <3>2, <3>3 DEF Owner, Taking
  <2>5. CASE RequestReturn(t) \/ ReadEnd(t)
    <3>1. /\ Taking(t) /\ MayRun(t) /\ UNCHANGED <<rxFrom, rxLength, rxIndex, op, got>>
          /\ \A u \in Tasks \ {t} : pc'[u] = pc[u]
          /\ pc'[t] \in {"read", "done"}
      BY <2>5 DEF RequestReturn, ReadEnd, Taking
    <3>2. PICK r \in Tasks : Owner(r)
      BY <3>1 DEF Unread
    <3>3. r = t
      BY <3>1, <3>2, OwnerRuns
    <3>4. rxLength = op[t].len /\ rxIndex = Len(got[t]) /\ rxIndex < rxLength
      BY <3>1, <3>2, <3>3 DEF Owner
    <3>5. pc'[t] = "read"
      <4>1. CASE RequestReturn(t)
        BY <3>4, <4>1 DEF RequestReturn
      <4>2. CASE ReadEnd(t)
        <5>1. op[t].take \in {"exact", "plain", "available", "bounded"}
          BY OpsTyped DEF OpTypes, Takes
        <5>2. ~Another(t)
          BY <4>2 DEF ReadEnd
        <5>3. Len(got[t]) < op[t].len
          BY <3>4
        <5> QED
          BY <3>4, <5>1, <5>2, <5>3 DEF Another
      <4> QED
        BY <2>5, <4>1, <4>2
    <3> QED
      BY <3>1, <3>2, <3>3, <3>5 DEF Owner, Taking
  <2>6. CASE read(t)
    <3>1. /\ pc[t] = "read" /\ MayRun(t) /\ UNCHANGED <<rxFrom, rxLength, op, pc>>
          /\ rxIndex' = IF rxIndex < rxLength THEN rxIndex + 1 ELSE rxIndex
          /\ got' = [got EXCEPT ![t] = Append(got[t], IF rxIndex < rxLength THEN rxFrom ELSE None)]
      BY <2>6 DEF read
    <3>2. rxIndex < rxLength
      BY <3>1
    <3>3. PICK r \in Tasks : Owner(r)
      BY <3>2 DEF Unread
    <3>4. r = t
      BY <3>1, <3>3, OwnerRuns DEF Taking
    <3>5. Len(got'[t]) = Len(got[t]) + 1
      BY <3>1, AppendProperties
    <3>6. rxIndex' = Len(got'[t])
      BY <3>1, <3>2, <3>3, <3>4, <3>5 DEF Owner
    <3> QED
      BY <3>1, <3>3, <3>4, <3>6 DEF Owner, Taking
  <2> QED
    BY <1>3, <2>1, <2>2, <2>3, <2>4, <2>5, <2>6 DEF Work
<1> QED
  BY <1>1, <1>2, <1>3, Steps

\* Who takes a byte is its owner.
LEMMA NextNoForeignByte == IInv /\ [Next]_vars => NoForeignByte'
<1> SUFFICES ASSUME IInv, [Next]_vars PROVE NoForeignByte'
  OBVIOUS
<1> USE NoneOther DEF IInv, TypeOK, Goto, shared, NoForeignByte
<1>1. ASSUME NEW t \in Tasks, Begins(t) PROVE NoForeignByte'
  <2>1. got'[t] = <<>>
    BY <1>1 DEF Begins, Taken
  <2>2. \A u \in Tasks \ {t} : got'[u] = got[u] /\ op'[u] = op[u]
    BY <1>1 DEF Begins
  <2>3. DOMAIN got'[t] = {}
    BY <2>1
  <2>4. ASSUME NEW u \in Tasks PROVE \A i \in DOMAIN got'[u] : got'[u][i] \in {op'[u].dev, None}
    <3>1. CASE u = t
      BY <2>3, <3>1
    <3>2. CASE u # t
      BY <2>2, <3>2
    <3> QED
      BY <3>1, <3>2
  <2> QED
    BY <2>4
<1>2. CASE UNCHANGED <<shared, pc, op, got>>
  BY <1>2
<1>3. ASSUME NEW t \in Tasks, Work(t) PROVE NoForeignByte'
  <2>1. CASE read(t)
    <3> DEFINE x == IF rxIndex < rxLength THEN rxFrom ELSE None
    <3>1. /\ pc[t] = "read" /\ MayRun(t) /\ op' = op
          /\ got' = [got EXCEPT ![t] = Append(got[t], x)]
      BY <2>1 DEF read
    <3>2. x \in {op[t].dev, None}
      <4>1. ASSUME rxIndex < rxLength PROVE rxFrom = op[t].dev
        <5>1. PICK r \in Tasks : Owner(r)
          BY <4>1 DEF Unread
        <5>2. r = t
          BY <3>1, <5>1, OwnerRuns DEF Taking
        <5> QED
          BY <5>1, <5>2 DEF Owner
      <4> QED
        BY <4>1
    <3>3. x \in Devices \cup {None}
      OBVIOUS
    <3> HIDE DEF x
    <3>4. \A i \in DOMAIN Append(got[t], x) : Append(got[t], x)[i] \in {op[t].dev, None}
      <4>1. got[t] \in Seq(Devices \cup {None}) /\ \A i \in DOMAIN got[t] : got[t][i] \in {op[t].dev, None}
        OBVIOUS
      <4> DEFINE s == got[t]
                 a == Append(s, x)
      <4>2. /\ \A i \in 1 .. Len(s) : a[i] = s[i]
            /\ a[Len(s) + 1] = x /\ Len(a) = Len(s) + 1 /\ a \in Seq(Devices \cup {None})
        BY <3>3, <4>1, AppendProperties
      <4>3. Len(s) \in Nat /\ DOMAIN s = 1 .. Len(s)
        BY <4>1, LenProperties
      <4>4. \A i \in 1 .. Len(s) : s[i] \in {op[t].dev, None}
        BY <4>1, <4>3
      <4> HIDE DEF a, s
      <4>5. DOMAIN a = 1 .. Len(s) + 1
        BY <4>2, <4>3, LenProperties
      <4>6. \A i \in DOMAIN a : a[i] \in {op[t].dev, None}
        BY <3>2, <4>2, <4>3, <4>4, <4>5, SMTT(20)
      <4> QED
        BY <4>6 DEF a, s
    <3> QED
      BY <3>1, <3>4
  <2>2. CASE ~read(t)
    <3>1. op' = op /\ got' = got
      BY <1>3, <2>2 DEF Work, beginTransmission, write, endTransmission, i2cWrite, EndGive, requestFrom,
                        i2cRead, RequestGive, RequestReturn, ReadEnd, Rest
    <3> QED
      BY <3>1
  <2> QED
    BY <2>1, <2>2
<1> QED
  BY <1>1, <1>2, <1>3, Steps

-------------------------------------------------------------------------------
\* The first state.
LEMMA InitIInv == Init => IInv
<1> SUFFICES ASSUME Init PROVE IInv
  OBVIOUS
<1> USE OpsStarted, NoneOther DEF Init
<1>1. /\ tx \in Seq(Tasks) /\ got \in [Tasks -> Seq(Devices \cup {None})]
      /\ pc \in [Tasks -> States] /\ op \in [Tasks -> Ops] /\ step \in 1 .. 9
  BY DEF States
<1>2. TypeOK
  <2>1. /\ lock \in Tasks \cup {None} /\ nonStopTask \in Tasks \cup {None} /\ nonStop \in BOOLEAN
        /\ txAddress \in Devices \cup {None}
    OBVIOUS
  <2>2. rxFrom \in Devices \cup {None} /\ rxLength \in Nat /\ rxIndex \in 0 .. rxLength
    OBVIOUS
  <2>3. step \in 1 .. (Len(Startup) + 1)
    BY <1>1
  <2> QED
    BY ONLY <1>1, <2>1, <2>2, <2>3 DEF TypeOK
<1>3. Locking /\ Sending /\ Taken /\ LockOutranks /\ Unread /\ NoForeignByte
  BY DEF Locking, Inside, Sending, Taken, Taking, LockOutranks, Unread, NoForeignByte
<1> QED
  BY <1>2, <1>3 DEF IInv

\* The invariant is inductive.
THEOREM Inductive == Spec => []IInv
<1>1. IInv /\ [Next]_vars => IInv'
  BY NextTypeOK, NextLocking, NextSending, NextTaken, NextLockOutranks, NextUnread,
     NextNoForeignByte DEF IInv
<1> QED
  BY <1>1, InitIInv, PTL DEF Spec

\* The variables keep their types; in particular the buffer is never read beyond
\* what was received.
THEOREM TypeCorrect == Spec => []TypeOK
<1>1. IInv => TypeOK
  BY DEF IInv
<1> QED
  BY <1>1, Inductive, PTL

\* What goes out on the bus is what the task wrote that holds the mutex.
THEOREM SentIsOwn == Spec => []TransmissionOwn
<1>1. IInv => TransmissionOwn
  BY DEF IInv, Sending, TransmissionOwn
<1> QED
  BY <1>1, Inductive, PTL

(***************************************************************************)
(* No task is given a byte of another device, although the buffer is read   *)
(* without the mutex: on one core, with these priorities, whoever refills   *)
(* it has taken his bytes before those he interrupted run again.            *)
(***************************************************************************)
THEOREM BytesAreOwn == Spec => []NoForeignByte
<1>1. IInv => NoForeignByte
  BY DEF IInv
<1> QED
  BY <1>1, Inductive, PTL

=============================================================================
