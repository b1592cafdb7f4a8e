---------------------------- MODULE BleCommandProofs ----------------------------
(***************************************************************************)
(* Proofs about BleCommand, for any number of writes, any set of commands   *)
(* and any listing length.                                                  *)
(*                                                                         *)
(* The inductive invariant IInv adds to the properties what ties them to    *)
(* the steps: tasks exist only for writes that happened, a task that is     *)
(* about to copy finds a frame that is not older than its own write, a task *)
(* between setValue and notify has a reply left to send, and the value it   *)
(* will notify is its own reply or a later frame.                           *)
(* PInv is about a client that waits for each reply (MCBleCommand).         *)
(***************************************************************************)
EXTENDS MCBleCommand, TLAPS

TasksOfWrites == \A n \in Writes : n > written => pc[n] = "none"

FrameAtHand ==
  \A n \in Writes : /\ pc[n] = "ready" => rxValue >= n
                    /\ pc[n] = "copy" => seen[n] >= n /\ rxValue >= n
                    /\ pc[n] \in Holding \ {"copy"} => src[n] >= n

RepliesLeft == \A n \in Writes : pc[n] \in {"set", "notify"} => left[n] >= 1

OwnOrLater(v, n) == v = Reply(n) \/ \E m \in Writes : m > n /\ v = Frame(m)

ValueToNotify == \A n \in Writes : pc[n] = "notify" => OwnOrLater(value, n)

SemaNamesHolder == \A n \in Writes : pc[n] \in Holding <=> sema = n

IInv == /\ TypeOK /\ TasksOfWrites /\ FrameAtHand /\ RepliesLeft
        /\ SemaNamesHolder /\ ValueToNotify /\ CommandReplyUnmixed

\* The commands of the client are commands of the parser.
LEMMA CodesKnown == Codes \subseteq KnownCodes /\ MaxPages \in Nat /\ MaxWrites \in Nat \ {0}
BY CodesAssumption, BoundAssumption

\* The invariant holds at the start.
LEMMA InitIInv == Init => IInv
<1> SUFFICES ASSUME Init PROVE IInv
  OBVIOUS
<1> USE CodesKnown DEF Init
<1>1. TypeOK
  BY DEF TypeOK, KnownCodes, PCs, Holding, Blocked, Torn, Writes, NoWrite,
         Values, Nothing
<1>2. TasksOfWrites /\ FrameAtHand /\ RepliesLeft /\ SemaNamesHolder /\ ValueToNotify
  BY DEF TasksOfWrites, FrameAtHand, RepliesLeft, SemaNamesHolder, ValueToNotify, Writes,
         Holding, Blocked
<1>3. CommandReplyUnmixed
  BY DEF CommandReplyUnmixed, Nothing, Reply
<1> QED
  BY <1>1, <1>2, <1>3 DEF IInv

-------------------------------------------------------------------------------
\* What the characteristic can hold.
LEMMA ValueTypes ==
  Nothing \in Values /\ \A n \in Writes : {Frame(n), Reply(n), ErasedBy(n)} \subseteq Values
BY DEF Values

\* The places of a task_cmd.
LEMMA PlaceTypes ==
  /\ {"none", "ready", "done", "copy", "body", "set", "notify", "give", "wait", "delay"} = PCs
  /\ {"copy", "body", "set", "notify", "give", "wait", "delay"} = Holding
BY DEF PCs, Holding, Blocked

\* Every step preserves the types, given that a task that replies has a reply
\* left to send and that a task that copies finds a frame.
LEMMA NextTypeOK == TypeOK /\ RepliesLeft /\ FrameAtHand /\ [Next]_vars => TypeOK'
<1> SUFFICES ASSUME TypeOK, RepliesLeft, FrameAtHand, [Next]_vars PROVE TypeOK'
  OBVIOUS
<1> USE ValueTypes, PlaceTypes, CodesKnown DEF TypeOK
<1>1. ASSUME NEW c \in Codes, onWrite(c) PROVE TypeOK'
  <2>1. written + 1 \in Writes /\ Frame(written + 1) \in Values /\ c \in KnownCodes
    BY <1>1 DEF onWrite, Writes
  <2>2. code' \in [Writes -> KnownCodes] /\ pc' \in [Writes -> PCs]
    BY <1>1, <2>1 DEF onWrite
  <2>3. written' \in 0 .. MaxWrites /\ rxValue' \in 0 .. MaxWrites
    BY <1>1 DEF onWrite
  <2> QED
    BY <1>1, <2>1, <2>2, <2>3 DEF onWrite
<1>2. ASSUME NEW n \in Writes, TakeSema(n) PROVE TypeOK'
  BY <1>2 DEF TakeSema, Writes
<1>3. ASSUME NEW n \in Writes, Busy(n) PROVE TypeOK'
  BY <1>3 DEF Busy
<1>4. ASSUME NEW n \in Writes, CopyFrame(n) PROVE TypeOK'
  <2>1. rxValue \in Writes
    BY <1>4 DEF CopyFrame, FrameAtHand, Writes
  <2>2. code[rxValue] \in KnownCodes
    BY <2>1
  <2>3. \E x \in 0 .. Torn : src' = [src EXCEPT ![n] = x]
    <3>1. rxValue \in 0 .. Torn /\ Torn \in 0 .. Torn
      BY <2>1 DEF Torn, Writes
    <3> QED
      BY <1>4, <3>1 DEF CopyFrame
  <2>4. \E c \in KnownCodes : cmd' = [cmd EXCEPT ![n] = c]
    BY <1>4, <2>2 DEF CopyFrame
  <2> QED
    BY <1>4, <2>3, <2>4 DEF CopyFrame
<1>5. ASSUME NEW n \in Writes, Execute(n) PROVE TypeOK'
  BY <1>5 DEF Execute, Goto, DoAnswered, DoList, DoSensor, DoErase, DoRename, DoUnknown
<1>6. ASSUME NEW n \in Writes, SensorDone(n) PROVE TypeOK'
  BY <1>6 DEF SensorDone, Goto
<1>7. ASSUME NEW n \in Writes, SetValue(n) PROVE TypeOK'
  BY <1>7 DEF SetValue
<1>8. ASSUME NEW n \in Writes, Notify(n) PROVE TypeOK'
  <2>1. left[n] - 1 \in 0 .. (MaxPages + 1)
    BY <1>8 DEF Notify, RepliesLeft
  <2> QED
    BY <1>8, <2>1 DEF Notify, Goto, AfterReplies
<1>9. ASSUME NEW n \in Writes, GiveSema(n) PROVE TypeOK'
  BY <1>9 DEF GiveSema
<1>10. ASSUME NEW n \in Writes, Restart(n) PROVE TypeOK'
  BY <1>10 DEF Restart, NoWrite
<1>11. ASSUME NEW n \in Writes, EraseStores(n) PROVE TypeOK'
  BY <1>11 DEF EraseStores, EraserMove, taskVars
<1>12. ASSUME NEW n \in Writes, EraserSetValue(n) PROVE TypeOK'
  BY <1>12 DEF EraserSetValue, EraserMove, taskVars
<1>13. ASSUME NEW n \in Writes, EraserNotify(n) PROVE TypeOK'
  BY <1>13 DEF EraserNotify, EraserMove, taskVars
<1>14. CASE UNCHANGED vars
  BY <1>14 DEF vars
<1> QED
  BY <1>1, <1>2, <1>3, <1>4, <1>5, <1>6, <1>7, <1>8, <1>9, <1>10, <1>11, <1>12, <1>13, <1>14
     DEF Next, task_cmd, empty_all_dec

-------------------------------------------------------------------------------
\* A task is created by a write, and never comes back.
LEMMA NextTasksOfWrites == IInv /\ [Next]_vars => TasksOfWrites'
<1> SUFFICES ASSUME IInv, [Next]_vars PROVE TasksOfWrites'
  OBVIOUS
<1> USE PlaceTypes, CodesKnown DEF IInv, TypeOK, TasksOfWrites, Writes
<1>1. ASSUME NEW c \in Codes, onWrite(c) PROVE TasksOfWrites'
  BY <1>1 DEF onWrite
<1>2. ASSUME NEW n \in Writes, TakeSema(n) PROVE TasksOfWrites'
  BY <1>2 DEF TakeSema
<1>3. ASSUME NEW n \in Writes, Busy(n) PROVE TasksOfWrites'
  BY <1>3 DEF Busy
<1>4. ASSUME NEW n \in Writes, CopyFrame(n) PROVE TasksOfWrites'
  BY <1>4 DEF CopyFrame
<1>5. ASSUME NEW n \in Writes, Execute(n) PROVE TasksOfWrites'
  BY <1>5 DEF Execute, Goto, DoAnswered, DoList, DoSensor, DoErase, DoRename, DoUnknown
<1>6. ASSUME NEW n \in Writes, SensorDone(n) PROVE TasksOfWrites'
  BY <1>6 DEF SensorDone, Goto
<1>7. ASSUME NEW n \in Writes, SetValue(n) PROVE TasksOfWrites'
  BY <1>7 DEF SetValue
<1>8. ASSUME NEW n \in Writes, Notify(n) PROVE TasksOfWrites'
  BY <1>8 DEF Notify, Goto, AfterReplies
<1>9. ASSUME NEW n \in Writes, GiveSema(n) PROVE TasksOfWrites'
  BY <1>9 DEF GiveSema
<1>10. ASSUME NEW n \in Writes, Restart(n) PROVE TasksOfWrites'
  BY <1>10 DEF Restart
<1>11. ASSUME NEW n \in Writes, EraseStores(n) PROVE TasksOfWrites'
  BY <1>11 DEF EraseStores, taskVars
<1>12. ASSUME NEW n \in Writes, EraserSetValue(n) PROVE TasksOfWrites'
  BY <1>12 DEF EraserSetValue, taskVars
<1>13. ASSUME NEW n \in Writes, EraserNotify(n) PROVE TasksOfWrites'
  BY <1>13 DEF EraserNotify, taskVars
<1>14. CASE UNCHANGED vars
  BY <1>14 DEF vars
<1> QED
  BY <1>1, <1>2, <1>3, <1>4, <1>5, <1>6, <1>7, <1>8, <1>9, <1>10, <1>11, <1>12, <1>13, <1>14
     DEF Next, task_cmd, empty_all_dec

\* What a task finds in rxValue, and executes, is not older than its write.
LEMMA NextFrameAtHand == IInv /\ [Next]_vars => FrameAtHand'
<1> SUFFICES ASSUME IInv, [Next]_vars PROVE FrameAtHand'
  OBVIOUS
<1> USE PlaceTypes, CodesKnown DEF IInv, TypeOK, FrameAtHand, Writes
<1>1. ASSUME NEW c \in Codes, onWrite(c) PROVE FrameAtHand'
  <2> SUFFICES ASSUME NEW m \in Writes
               PROVE  /\ pc'[m] = "ready" => rxValue' >= m
                      /\ pc'[m] = "copy" => seen'[m] >= m /\ rxValue' >= m
                      /\ pc'[m] \in Holding \ {"copy"} => src'[m] >= m
    OBVIOUS
  <2>1. rxValue' = written + 1 /\ seen' = seen /\ src' = src /\ written + 1 \in Writes
    BY <1>1 DEF onWrite
  <2>2. CASE m = written + 1
    <3>1. pc'[m] = "ready"
      BY <1>1, <2>1, <2>2 DEF onWrite
    <3>2. rxValue' = m /\ m \in Int
      BY <2>1, <2>2
    <3>3. pc'[m] # "copy" /\ pc'[m] \notin Holding
      BY <3>1
    <3> QED
      BY <3>2, <3>3
  <2>3. CASE m # written + 1
    <3>1. pc'[m] = pc[m]
      BY <1>1, <2>3 DEF onWrite
    <3>2. pc[m] = "none" \/ m <= written
      BY DEF TasksOfWrites
    <3> QED
      BY <2>1, <3>1, <3>2
  <2> QED
    BY <2>2, <2>3
<1>2. ASSUME NEW n \in Writes, TakeSema(n) PROVE FrameAtHand'
  BY <1>2 DEF TakeSema
<1>3. ASSUME NEW n \in Writes, Busy(n) PROVE FrameAtHand'
  BY <1>3 DEF Busy
<1>4. ASSUME NEW n \in Writes, CopyFrame(n) PROVE FrameAtHand'
  <2>1. src'[n] >= n /\ pc'[n] = "body"
    <3>1. pc[n] = "copy" /\ pc'[n] = "body" /\ src'[n] \in {rxValue, Torn}
      BY <1>4 DEF CopyFrame
    <3>2. rxValue >= n /\ Torn >= n
      BY <3>1 DEF Torn
    <3> QED
      BY ONLY <3>1, <3>2
  <2>2. \A m \in Writes \ {n} : pc'[m] = pc[m] /\ src'[m] = src[m]
    BY <1>4 DEF CopyFrame
  <2>3. rxValue' = rxValue /\ seen' = seen
    BY <1>4 DEF CopyFrame
  <2> QED
    BY <2>1, <2>2, <2>3
<1>5. ASSUME NEW n \in Writes, Execute(n) PROVE FrameAtHand'
  BY <1>5 DEF Execute, Goto, DoAnswered, DoList, DoSensor, DoErase, DoRename, DoUnknown
<1>6. ASSUME NEW n \in Writes, SensorDone(n) PROVE FrameAtHand'
  BY <1>6 DEF SensorDone, Goto
<1>7. ASSUME NEW n \in Writes, SetValue(n) PROVE FrameAtHand'
  BY <1>7 DEF SetValue
<1>8. ASSUME NEW n \in Writes, Notify(n) PROVE FrameAtHand'
  BY <1>8 DEF Notify, Goto, AfterReplies
<1>9. ASSUME NEW n \in Writes, GiveSema(n) PROVE FrameAtHand'
  BY <1>9 DEF GiveSema
<1>10. ASSUME NEW n \in Writes, Restart(n) PROVE FrameAtHand'
  BY <1>10 DEF Restart
<1>11. ASSUME NEW n \in Writes, EraseStores(n) PROVE FrameAtHand'
  BY <1>11 DEF EraseStores, taskVars
<1>12. ASSUME NEW n \in Writes, EraserSetValue(n) PROVE FrameAtHand'
  BY <1>12 DEF EraserSetValue, taskVars
<1>13. ASSUME NEW n \in Writes, EraserNotify(n) PROVE FrameAtHand'
  BY <1>13 DEF EraserNotify, taskVars
<1>14. CASE UNCHANGED vars
  BY <1>14 DEF vars
<1> QED
  BY <1>1, <1>2, <1>3, <1>4, <1>5, <1>6, <1>7, <1>8, <1>9, <1>10, <1>11, <1>12, <1>13, <1>14
     DEF Next, task_cmd, empty_all_dec

\* A task only replies while it has a reply left.
LEMMA NextRepliesLeft == IInv /\ [Next]_vars => RepliesLeft'
<1> SUFFICES ASSUME IInv, [Next]_vars PROVE RepliesLeft'
  OBVIOUS
<1> USE PlaceTypes, CodesKnown DEF IInv, TypeOK, RepliesLeft, Writes
<1>1. ASSUME NEW c \in Codes, onWrite(c) PROVE RepliesLeft'
  BY <1>1 DEF onWrite
<1>2. ASSUME NEW n \in Writes, TakeSema(n) PROVE RepliesLeft'
  BY <1>2 DEF TakeSema
<1>3. ASSUME NEW n \in Writes, Busy(n) PROVE RepliesLeft'
  BY <1>3 DEF Busy
<1>4. ASSUME NEW n \in Writes, CopyFrame(n) PROVE RepliesLeft'
  BY <1>4 DEF CopyFrame
<1>5. ASSUME NEW n \in Writes, Execute(n) PROVE RepliesLeft'
  <2>1. pc'[n] \in {"set", "notify"} => left'[n] >= 1
    <3>1. CASE DoList(n)
      BY <1>5, <3>1 DEF Execute, DoList, Goto
    <3>2. CASE ~DoList(n)
      BY <1>5, <3>2 DEF Execute, DoAnswered, DoSensor, DoErase, DoRename, DoUnknown, Goto
    <3> QED
      BY <3>1, <3>2
  <2>2. \A m \in Writes \ {n} : pc'[m] = pc[m] /\ left'[m] = left[m]
    BY <1>5 DEF Execute, DoAnswered, DoList, DoSensor, DoErase, DoRename, DoUnknown, Goto
  <2> QED
    BY <2>1, <2>2
<1>6. ASSUME NEW n \in Writes, SensorDone(n) PROVE RepliesLeft'
  <2>1. pc'[n] \in {"set", "notify"} => left'[n] >= 1
    BY <1>6 DEF SensorDone, Goto
  <2>2. \A m \in Writes \ {n} : pc'[m] = pc[m] /\ left'[m] = left[m]
    BY <1>6 DEF SensorDone, Goto
  <2> QED
    BY <2>1, <2>2
<1>7. ASSUME NEW n \in Writes, SetValue(n) PROVE RepliesLeft'
  BY <1>7 DEF SetValue
<1>8. ASSUME NEW n \in Writes, Notify(n) PROVE RepliesLeft'
  BY <1>8 DEF Notify, Goto, AfterReplies
<1>9. ASSUME NEW n \in Writes, GiveSema(n) PROVE RepliesLeft'
  BY <1>9 DEF GiveSema
<1>10. ASSUME NEW n \in Writes, Restart(n) PROVE RepliesLeft'
  BY <1>10 DEF Restart
<1>11. ASSUME NEW n \in Writes, EraseStores(n) PROVE RepliesLeft'
  BY <1>11 DEF EraseStores, taskVars
<1>12. ASSUME NEW n \in Writes, EraserSetValue(n) PROVE RepliesLeft'
  BY <1>12 DEF EraserSetValue, taskVars
<1>13. ASSUME NEW n \in Writes, EraserNotify(n) PROVE RepliesLeft'
  BY <1>13 DEF EraserNotify, taskVars
<1>14. CASE UNCHANGED vars
  BY <1>14 DEF vars
<1> QED
  BY <1>1, <1>2, <1>3, <1>4, <1>5, <1>6, <1>7, <1>8, <1>9, <1>10, <1>11, <1>12, <1>13, <1>14
     DEF Next, task_cmd, empty_all_dec

\* The semaphore names the one task between take and give.
LEMMA NextSemaNamesHolder == IInv /\ [Next]_vars => SemaNamesHolder'
<1> SUFFICES ASSUME IInv, [Next]_vars PROVE SemaNamesHolder'
  OBVIOUS
<1> USE PlaceTypes, CodesKnown DEF IInv, TypeOK, SemaNamesHolder, TasksOfWrites, Writes
<1>1. ASSUME NEW c \in Codes, onWrite(c) PROVE SemaNamesHolder'
  <2>1. pc[written + 1] = "none" /\ written + 1 \in Writes
    BY <1>1 DEF onWrite
  <2>2. \A m \in Writes : pc'[m] \in Holding <=> pc[m] \in Holding
    BY <1>1, <2>1 DEF onWrite
  <2> QED
    BY <1>1, <2>2 DEF onWrite
<1>2. ASSUME NEW n \in Writes, TakeSema(n) PROVE SemaNamesHolder'
  <2>1. sema' = n /\ pc'[n] = "copy"
    BY <1>2 DEF TakeSema
  <2>2. \A m \in Writes \ {n} : pc'[m] = pc[m] /\ pc[m] \notin Holding
    BY <1>2 DEF TakeSema
  <2> QED
    BY <2>1, <2>2
<1>3. ASSUME NEW n \in Writes, Busy(n) PROVE SemaNamesHolder'
  BY <1>3 DEF Busy
<1>4. ASSUME NEW n \in Writes, CopyFrame(n) PROVE SemaNamesHolder'
  BY <1>4 DEF CopyFrame
<1>5. ASSUME NEW n \in Writes, Execute(n) PROVE SemaNamesHolder'
  <2>1. sema' = sema /\ pc[n] \in Holding
    BY <1>5 DEF Execute
  <2>2. pc'[n] \in Holding
    BY <1>5 DEF Execute, Goto, DoAnswered, DoList, DoSensor, DoErase, DoRename, DoUnknown
  <2>3. \A m \in Writes \ {n} : pc'[m] = pc[m]
    BY <1>5 DEF Execute, Goto, DoAnswered, DoList, DoSensor, DoErase, DoRename, DoUnknown
  <2> QED
    BY <2>1, <2>2, <2>3
<1>6. ASSUME NEW n \in Writes, SensorDone(n) PROVE SemaNamesHolder'
  BY <1>6 DEF SensorDone, Goto
<1>7. ASSUME NEW n \in Writes, SetValue(n) PROVE SemaNamesHolder'
  BY <1>7 DEF SetValue
<1>8. ASSUME NEW n \in Writes, Notify(n) PROVE SemaNamesHolder'
  BY <1>8 DEF Notify, Goto, AfterReplies
<1>9. ASSUME NEW n \in Writes, GiveSema(n) PROVE SemaNamesHolder'
  <2>1. \A m \in Writes : pc'[m] \notin Holding
    <3>1. sema = n /\ pc'[n] = "done" /\ \A m \in Writes \ {n} : pc'[m] = pc[m]
      BY <1>9 DEF GiveSema
    <3> QED
      BY <3>1
  <2>2. sema' = 0
    BY <1>9 DEF GiveSema
  <2> QED
    BY <2>1, <2>2
<1>10. ASSUME NEW n \in Writes, Restart(n) PROVE SemaNamesHolder'
  <2>1. \A m \in Writes : pc'[m] \in {"none", "done"}
    BY <1>10 DEF Restart
  <2>2. sema' = 0
    BY <1>10 DEF Restart
  <2>3. \A m \in Writes : pc'[m] \notin Holding
    BY <2>1
  <2> QED
    BY <2>2, <2>3
<1>11. ASSUME NEW n \in Writes, EraseStores(n) PROVE SemaNamesHolder'
  BY <1>11 DEF EraseStores, taskVars
<1>12. ASSUME NEW n \in Writes, EraserSetValue(n) PROVE SemaNamesHolder'
  BY <1>12 DEF EraserSetValue, taskVars
<1>13. ASSUME NEW n \in Writes, EraserNotify(n) PROVE SemaNamesHolder'
  BY <1>13 DEF EraserNotify, taskVars
<1>14. CASE UNCHANGED vars
  BY <1>14 DEF vars
<1> QED
  BY <1>1, <1>2, <1>3, <1>4, <1>5, <1>6, <1>7, <1>8, <1>9, <1>10, <1>11, <1>12, <1>13, <1>14
     DEF Next, task_cmd, empty_all_dec

-------------------------------------------------------------------------------
\* A reply, a frame and the reply of an eraser are different values, and each
\* names its task.
LEMMA ValuesDiffer ==
  \A m, n \in Writes : /\ Reply(m) = Reply(n) => m = n
                       /\ Reply(m) # Nothing /\ Reply(m) # ErasedBy(n)
BY DEF Reply, Nothing, ErasedBy

\* Between setValue and notify only the stack changes the value, to a later
\* frame: the other commands wait for xSema_BLE, empty_all_dec for the processor.
LEMMA NextValueToNotify == IInv /\ [Next]_vars => ValueToNotify'
<1> SUFFICES ASSUME IInv, [Next]_vars, NEW m \in Writes, pc'[m] = "notify"
             PROVE  OwnOrLater(value', m)
  BY DEF ValueToNotify, OwnOrLater
<1> USE PlaceTypes, CodesKnown
<1>1. ASSUME pc[m] = "notify", value' = value PROVE OwnOrLater(value', m)
  BY <1>1 DEF IInv, ValueToNotify, OwnOrLater
<1>2. ASSUME NEW c \in Codes, onWrite(c) PROVE OwnOrLater(value', m)
  <2>1. written \in 0 .. MaxWrites /\ pc \in [Writes -> PCs] /\ written + 1 \in Writes
    BY <1>2 DEF IInv, TypeOK, onWrite, Writes
  <2>2. m # written + 1 /\ pc[m] = "notify"
    BY <1>2, <2>1 DEF onWrite
  <2>3. m < written + 1
    BY <2>1, <2>2 DEF IInv, TasksOfWrites, Writes
  <2> QED
    BY <1>2, <2>1, <2>3 DEF onWrite, OwnOrLater
<1>3. ASSUME NEW n \in Writes, SetValue(n) PROVE OwnOrLater(value', m)
  <2>1. pc \in [Writes -> PCs] /\ pc[n] = "set"
    BY <1>3 DEF IInv, TypeOK, SetValue
  <2>2. sema = n
    BY <2>1 DEF IInv, SemaNamesHolder
  <2>3. m = n
    <3>1. CASE m # n
      <4>1. pc[m] = "notify"
        BY <1>3, <2>1, <3>1 DEF SetValue
      <4> QED
        BY <2>2, <3>1, <4>1 DEF IInv, SemaNamesHolder
    <3> QED
      BY <3>1
  <2> QED
    BY <1>3, <2>3 DEF SetValue, OwnOrLater
<1>4. ASSUME NEW n \in Writes, EraserSetValue(n) PROVE OwnOrLater(value', m)
  BY <1>4 DEF EraserSetValue, LowPriority, Runnable, taskVars
<1>5. ASSUME NEW n \in Writes, task_cmd(n), ~SetValue(n) PROVE OwnOrLater(value', m)
  <2> USE DEF IInv, TypeOK
  <2>1. ASSUME TakeSema(n) \/ Busy(n) \/ CopyFrame(n) \/ GiveSema(n)
        PROVE  pc[m] = "notify" /\ value' = value
    BY <2>1 DEF TakeSema, Busy, CopyFrame, GiveSema
  <2>2. ASSUME Execute(n) PROVE pc[m] = "notify" /\ value' = value
    BY <2>2 DEF Execute, Goto, DoAnswered, DoList, DoSensor, DoErase, DoRename, DoUnknown
  <2>3. ASSUME SensorDone(n) \/ Notify(n) PROVE pc[m] = "notify" /\ value' = value
    BY <2>3 DEF SensorDone, Notify, Goto, AfterReplies
  <2>4. ~Restart(n)
    BY DEF Restart
  <2> QED
    BY <1>1, <1>5, <2>1, <2>2, <2>3, <2>4 DEF task_cmd
<1>6. ASSUME NEW n \in Writes, EraseStores(n) \/ EraserNotify(n) PROVE OwnOrLater(value', m)
  BY <1>1, <1>6 DEF EraseStores, EraserNotify, taskVars
<1>7. CASE UNCHANGED vars
  BY <1>1, <1>7 DEF vars
<1> QED
  BY <1>2, <1>3, <1>4, <1>5, <1>6, <1>7 DEF Next, empty_all_dec

\* A notification of a task_cmd carries what was there to notify.
LEMMA NextCommandReplyUnmixed == IInv /\ [Next]_vars => CommandReplyUnmixed'
<1> SUFFICES ASSUME IInv, [Next]_vars, NEW m \in Writes, note'.by = Reply(m)
             PROVE  OwnOrLater(note'.carried, m)
  BY DEF CommandReplyUnmixed, OwnOrLater
<1>1. ASSUME note' = note PROVE OwnOrLater(note'.carried, m)
  BY <1>1 DEF IInv, CommandReplyUnmixed, OwnOrLater
<1>2. ASSUME NEW n \in Writes, Notify(n) PROVE OwnOrLater(note'.carried, m)
  BY <1>2, ValuesDiffer DEF IInv, Notify, ValueToNotify
<1>3. ASSUME NEW n \in Writes, EraserNotify(n) PROVE OwnOrLater(note'.carried, m)
  BY <1>3, ValuesDiffer DEF EraserNotify
<1>4. ASSUME NEW n \in Writes, task_cmd(n), ~Notify(n) PROVE note' = note
  BY <1>4 DEF task_cmd, TakeSema, Busy, CopyFrame, Execute, SensorDone, SetValue, GiveSema,
              Restart
<1>5. ASSUME NEW n \in Writes, EraseStores(n) \/ EraserSetValue(n) PROVE note' = note
  BY <1>5 DEF EraseStores, EraserSetValue
<1>6. ASSUME NEW c \in Codes, onWrite(c) PROVE note' = note
  BY <1>6 DEF onWrite
<1> QED
  BY <1>1, <1>2, <1>3, <1>4, <1>5, <1>6 DEF Next, vars, empty_all_dec

-------------------------------------------------------------------------------
\* Every step preserves the invariant.
LEMMA NextInv == IInv /\ [Next]_vars => IInv'
<1> SUFFICES ASSUME IInv, [Next]_vars PROVE IInv'
  OBVIOUS
<1>1. TypeOK'
  BY NextTypeOK DEF IInv
<1> QED
  BY <1>1, NextTasksOfWrites, NextFrameAtHand, NextRepliesLeft, NextSemaNamesHolder,
     NextValueToNotify, NextCommandReplyUnmixed DEF IInv

\* The invariant is inductive.
THEOREM Inductive == Spec => []IInv
BY InitIInv, NextInv, PTL DEF Spec

\* The variables keep their types.
THEOREM TypeCorrect == Spec => []TypeOK
<1>1. IInv => TypeOK
  BY DEF IInv
<1> QED
  BY <1>1, Inductive, PTL

(***************************************************************************)
(* However many writes arrive, and whenever: at most one task_cmd is        *)
(* between take and give of xSema_BLE, which is free when none is.          *)
(***************************************************************************)
THEOREM Serial == Spec => []SerialExecution
<1>1. IInv => SerialExecution
  BY DEF IInv, SemaNamesHolder, SerialExecution
<1> QED
  BY <1>1, Inductive, PTL

\* No task executes a frame older than the write that created it.
THEOREM Fresh == Spec => []NoStaleFrame
<1>1. IInv => NoStaleFrame
  BY DEF IInv, FrameAtHand, NoStaleFrame
<1> QED
  BY <1>1, Inductive, PTL

\* A task_cmd never sends the reply of another task as its own.
THEOREM Unmixed == Spec => []CommandReplyUnmixed
<1>1. IInv => CommandReplyUnmixed
  BY DEF IInv
<1> QED
  BY <1>1, Inductive, PTL

-------------------------------------------------------------------------------
(***************************************************************************)
(* The client that waits for its reply (MCBleCommand).  The invariant says  *)
(* that an answered write is over: its task has left the parser but for     *)
(* giving the semaphore back (or waits for the restart), and its eraser is  *)
(* gone, so that nothing notifies the client twice.  A later write          *)
(* therefore comes when nobody is about to copy rxValue.                    *)
(***************************************************************************)
\* The task of write n has replied, or was dropped.
Over(n) == pc[n] \in {"give", "delay", "done"} /\ eraser[n] \in {"none", "done"}

EarlierOver == \A n \in Writes : n < written => code[n] \notin Listings /\ Over(n)

AnsweredOver == written \in Writes /\ heard /\ code[written] \notin Listings => Over(written)

FrameOwn == \A n \in Writes : /\ pc[n] \in {"ready", "copy"} => rxValue = n
                              /\ pc[n] = "copy" => seen[n] = n

CommandOwn == \A n \in Writes : pc[n] \in Holding \ {"copy"} => src[n] = n /\ cmd[n] = code[n]

OneReply == \A n \in Writes : pc[n] \in {"set", "notify"} /\ cmd[n] \notin Listings => left[n] = 1

EraserLast == \A n \in Writes : eraser[n] \in {"ready", "set", "notify"} => pc[n] \in {"give", "done"}

Orderly == /\ EarlierOver /\ AnsweredOver /\ FrameOwn /\ CommandOwn /\ OneReply /\ EraserLast

Started == \A n \in Writes : n <= written => pc[n] # "none"

PInv == IInv /\ Started /\ (patient => Orderly)

\* The types, and the places, in one list.
LEMMA Types ==
  ASSUME IInv
  PROVE  /\ written \in 0 .. MaxWrites /\ MaxWrites \in Nat /\ rxValue \in 0 .. MaxWrites
         /\ Writes = 1 .. MaxWrites
         /\ pc \in [Writes -> PCs] /\ seen \in [Writes -> 0 .. MaxWrites]
         /\ src \in [Writes -> 0 .. Torn] /\ cmd \in [Writes -> KnownCodes]
         /\ code \in [Writes -> KnownCodes]
         /\ left \in [Writes -> 0 .. (MaxPages + 1)]
         /\ eraser \in [Writes -> {"none", "ready", "set", "notify", "done"}]
         /\ heard \in BOOLEAN
         /\ \A n \in Writes : n > written => pc[n] = "none"
BY CodesKnown DEF IInv, TypeOK, TasksOfWrites, Writes

\* A write of a client that was answered finds the parser done with all before it.
LEMMA OnWriteOrderly ==
  ASSUME IInv, Orderly, NEW c \in Codes, onWrite(c),
         written = 0 \/ (heard /\ code[written] \notin Listings)
  PROVE  Orderly'
<1> USE Types, PlaceTypes, CodesKnown DEF Listings
<1>1. /\ written + 1 \in Writes /\ written' = written + 1 /\ rxValue' = written + 1
      /\ code' = [code EXCEPT ![written + 1] = c]
      /\ pc' = [pc EXCEPT ![written + 1] = "ready"] /\ heard' = FALSE
      /\ UNCHANGED <<seen, src, cmd, left, eraser>>
  BY DEF onWrite
<1>2. \A n \in Writes : n <= written => code[n] \notin Listings /\ Over(n)
  BY DEF Orderly, EarlierOver, AnsweredOver
<1>3. pc[written + 1] = "none" /\ eraser[written + 1] \in {"none", "done"}
  <2>1. pc[written + 1] = "none"
    BY <1>1
  <2>2. eraser[written + 1] \notin {"ready", "set", "notify"}
    BY <1>1, <2>1 DEF Orderly, EraserLast
  <2> QED
    BY <1>1, <2>1, <2>2
<1>4. EarlierOver'
  BY <1>1, <1>2, SMTT(20) DEF EarlierOver, Over
<1>5. AnsweredOver'
  BY <1>1 DEF AnsweredOver
<1>6. FrameOwn'
  <2> SUFFICES ASSUME NEW n \in Writes, n # written + 1 PROVE pc'[n] \notin {"ready", "copy"}
    BY <1>1 DEF FrameOwn
  <2>1. pc'[n] = pc[n]
    BY <1>1
  <2>2. CASE n <= written
    BY <1>2, <2>1, <2>2 DEF Over
  <2>3. CASE n > written
    BY <2>1, <2>3
  <2> QED
    BY <2>2, <2>3
<1>7. CommandOwn'
  BY <1>1 DEF Orderly, CommandOwn
<1>8. OneReply'
  BY <1>1 DEF Orderly, OneReply
<1>9. EraserLast'
  BY <1>1, <1>3 DEF Orderly, EraserLast
<1> QED
  BY <1>4, <1>5, <1>6, <1>7, <1>8, <1>9 DEF Orderly

\* Only the last write can have a task that is not over.
LEMMA BusyIsLast ==
  ASSUME IInv, Orderly, NEW n \in Writes,
         pc[n] \in {"ready", "copy", "body", "wait", "set", "notify"}
         \/ eraser[n] \in {"ready", "set", "notify"}
  PROVE  n = written
<1> USE Types
<1>1. ~(n < written)
  BY DEF Orderly, EarlierOver, Over
<1>2. ~(n > written)
  BY DEF Orderly, EraserLast
<1> QED
  BY <1>1, <1>2

\* A task goes to a place, with some replies left.
LEMMA GotoEffect ==
  ASSUME IInv, NEW n \in Writes, NEW p, NEW k, Goto(n, p, k)
  PROVE  /\ pc' = [pc EXCEPT ![n] = p] /\ left' = [left EXCEPT ![n] = k]
         /\ pc'[n] = p /\ left'[n] = k
         /\ pc' = [pc EXCEPT ![n] = pc'[n]] /\ left' = [left EXCEPT ![n] = left'[n]]
BY Types DEF Goto

\* A step of task n that changes its own place, and replies only at the end.
LEMMA TaskOrderly ==
  ASSUME IInv, Started, Orderly, NEW n \in Writes, task_cmd(n)
  PROVE  Orderly'
<1> USE Types, PlaceTypes, CodesKnown DEF Listings
<1>1. CASE TakeSema(n)
  <2>1. n = written /\ rxValue = n
    BY <1>1, BusyIsLast DEF TakeSema, Orderly, FrameOwn
  <2>2. EarlierOver' /\ EraserLast'
    BY <1>1, <2>1 DEF TakeSema, Orderly, EarlierOver, Over, EraserLast
  <2>3. AnsweredOver'
    BY <1>1, <2>1 DEF TakeSema, Orderly, AnsweredOver, Over
  <2>4. FrameOwn'
    BY <1>1, <2>1 DEF TakeSema, Orderly, FrameOwn
  <2>5. CommandOwn' /\ OneReply'
    BY <1>1 DEF TakeSema, Orderly, CommandOwn, OneReply
  <2> QED
    BY <2>2, <2>3, <2>4, <2>5 DEF Orderly
<1>2. CASE Busy(n)
  <2>1. EarlierOver' /\ AnsweredOver' /\ EraserLast'
    BY <1>2 DEF Busy, Orderly, EarlierOver, AnsweredOver, Over, EraserLast
  <2>2. FrameOwn' /\ CommandOwn' /\ OneReply'
    <3>1. FrameOwn'
      BY <1>2 DEF Busy, Orderly, FrameOwn
    <3>2. CommandOwn'
      BY <1>2 DEF Busy, Orderly, CommandOwn
    <3>3. OneReply'
      BY <1>2 DEF Busy, Orderly, OneReply
    <3> QED
      BY <3>1, <3>2, <3>3
  <2> QED
    BY <2>1, <2>2 DEF Orderly
<1>3. CASE CopyFrame(n)
  <2>1. n = written /\ rxValue = n /\ seen[n] = n
    BY <1>3, BusyIsLast DEF CopyFrame, Orderly, FrameOwn
  <2>2. /\ pc[n] = "copy" /\ pc' = [pc EXCEPT ![n] = "body"]
        /\ src' = [src EXCEPT ![n] = n] /\ cmd' = [cmd EXCEPT ![n] = code[n]]
        /\ UNCHANGED <<written, code, rxValue, seen, left, eraser, heard>>
    BY <1>3, <2>1 DEF CopyFrame
  <2>3. EarlierOver' /\ AnsweredOver' /\ EraserLast'
    BY <2>1, <2>2 DEF Orderly, EarlierOver, AnsweredOver, Over, EraserLast
  <2>4. FrameOwn' /\ CommandOwn' /\ OneReply'
    BY <2>2 DEF Orderly, FrameOwn, CommandOwn, OneReply
  <2> QED
    BY <2>3, <2>4 DEF Orderly
<1>4. CASE Execute(n)
  <2>1. n = written /\ pc[n] = "body" /\ eraser[n] \in {"none", "done"}
    BY <1>4, BusyIsLast DEF Execute, Orderly, EraserLast
  <2>2. UNCHANGED <<written, code, rxValue, seen, src, cmd, heard>>
    BY <1>4 DEF Execute
  <2>3. cmd[n] = code[n] /\ ~(heard /\ code[n] \notin Listings)
    BY <2>1 DEF Orderly, CommandOwn, AnsweredOver, Over
  <2>4. /\ pc' = [pc EXCEPT ![n] = pc'[n]] /\ left' = [left EXCEPT ![n] = left'[n]]
        /\ pc'[n] \in {"give", "set", "wait"}
        /\ pc'[n] = "set" /\ cmd[n] \notin Listings => left'[n] = 1
        /\ eraser' = eraser \/ (pc'[n] = "give" /\ eraser' = [eraser EXCEPT ![n] = "ready"])
    <3>1. CASE DoAnswered(n)
      BY <3>1, GotoEffect DEF DoAnswered
    <3>2. CASE DoList(n)
      BY <3>2, GotoEffect DEF DoList
    <3>3. CASE DoSensor(n)
      BY <3>3, GotoEffect DEF DoSensor
    <3>4. CASE DoErase(n)
      BY <3>4, GotoEffect DEF DoErase
    <3>5. CASE DoRename(n)
      BY <3>5, GotoEffect DEF DoRename
    <3>6. CASE DoUnknown(n)
      BY <3>6, GotoEffect DEF DoUnknown
    <3> QED
      BY <1>4, <3>1, <3>2, <3>3, <3>4, <3>5, <3>6 DEF Execute
  <2>5. EarlierOver' /\ AnsweredOver'
    BY <2>1, <2>2, <2>3, <2>4 DEF Orderly, EarlierOver, AnsweredOver, Over
  <2>6. EraserLast'
    BY <2>1, <2>4 DEF Orderly, EraserLast
  <2>7. FrameOwn' /\ CommandOwn' /\ OneReply'
    <3>1. \A m \in Writes : m # n => pc'[m] = pc[m] /\ left'[m] = left[m]
      BY <2>4
    <3>2. FrameOwn'
      BY <2>2, <2>4, <3>1 DEF Orderly, FrameOwn
    <3>3. CommandOwn'
      BY <2>1, <2>2, <2>4, <3>1, SMTT(20) DEF Orderly, CommandOwn
    <3>4. OneReply'
      BY <2>2, <2>4, <3>1 DEF Orderly, OneReply
    <3> QED
      BY <3>2, <3>3, <3>4
  <2> QED
    BY <2>5, <2>6, <2>7 DEF Orderly
<1>5. CASE SensorDone(n)
  <2>1. n = written /\ pc[n] = "wait"
    BY <1>5, BusyIsLast DEF SensorDone
  <2>2. /\ pc' = [pc EXCEPT ![n] = pc'[n]] /\ left' = [left EXCEPT ![n] = left'[n]]
        /\ pc'[n] \in {"give", "set"} /\ (pc'[n] = "set" => left'[n] = 1)
    BY <1>5, GotoEffect DEF SensorDone
  <2>3. UNCHANGED <<written, code, rxValue, seen, src, cmd, heard, eraser>>
    BY <1>5 DEF SensorDone
  <2>4. EarlierOver' /\ AnsweredOver' /\ EraserLast'
    BY <2>1, <2>2, <2>3 DEF Orderly, EarlierOver, AnsweredOver, Over, EraserLast
  <2>5. FrameOwn' /\ CommandOwn' /\ OneReply'
    <3>1. \A m \in Writes : m # n => pc'[m] = pc[m] /\ left'[m] = left[m]
      BY <2>2
    <3>2. FrameOwn'
      BY <2>3, <2>2, <3>1 DEF Orderly, FrameOwn
    <3>3. CommandOwn'
      BY <2>1, <2>3, <2>2, <3>1 DEF Orderly, CommandOwn
    <3>4. OneReply'
      BY <2>3, <2>2, <3>1 DEF Orderly, OneReply
    <3> QED
      BY <3>2, <3>3, <3>4
  <2> QED
    BY <2>4, <2>5 DEF Orderly
<1>6. CASE SetValue(n)
  <2>1. n = written /\ pc[n] = "set"
    BY <1>6, BusyIsLast DEF SetValue
  <2>2. /\ pc' = [pc EXCEPT ![n] = "notify"]
        /\ UNCHANGED <<written, code, rxValue, seen, src, cmd, left, heard, eraser>>
    BY <1>6 DEF SetValue
  <2>3. EarlierOver' /\ AnsweredOver' /\ EraserLast'
    BY <2>1, <2>2 DEF Orderly, EarlierOver, AnsweredOver, Over, EraserLast
  <2>4. FrameOwn' /\ CommandOwn' /\ OneReply'
    BY <2>1, <2>2 DEF Orderly, FrameOwn, CommandOwn, OneReply
  <2> QED
    BY <2>3, <2>4 DEF Orderly
<1>7. CASE Notify(n)
  <2>1. n = written /\ pc[n] = "notify" /\ eraser[n] \in {"none", "done"} /\ cmd[n] = code[n]
    <3>1. pc[n] = "notify" /\ n = written
      BY <1>7, BusyIsLast DEF Notify
    <3>2. eraser[n] \notin {"ready", "set", "notify"}
      BY <3>1 DEF Orderly, EraserLast
    <3>3. cmd[n] = code[n]
      BY <3>1 DEF Orderly, CommandOwn
    <3> QED
      BY <3>1, <3>2, <3>3
  <2>2. /\ pc' = [pc EXCEPT ![n] = pc'[n]] /\ left' = [left EXCEPT ![n] = left'[n]]
        /\ pc'[n] \in {"give", "delay", "set"} /\ (pc'[n] = "set" => cmd[n] \in Listings)
    <3>1. Goto(n, IF left[n] > 1 THEN "set" ELSE AfterReplies(n), left[n] - 1)
      BY <1>7 DEF Notify
    <3>2. cmd[n] \notin Listings => left[n] = 1
      BY <2>1 DEF Orderly, OneReply
    <3>3. AfterReplies(n) \in {"give", "delay"}
      BY DEF AfterReplies
    <3>4. pc'[n] = IF left[n] > 1 THEN "set" ELSE AfterReplies(n)
      BY <3>1, GotoEffect
    <3>5. pc' = [pc EXCEPT ![n] = pc'[n]] /\ left' = [left EXCEPT ![n] = left'[n]]
      BY <3>1, GotoEffect
    <3> QED
      BY <3>2, <3>3, <3>4, <3>5
  <2>3. UNCHANGED <<written, code, rxValue, seen, src, cmd, eraser>>
    BY <1>7 DEF Notify
  <2>4. EarlierOver' /\ AnsweredOver' /\ EraserLast'
    BY <2>1, <2>2, <2>3 DEF Orderly, EarlierOver, AnsweredOver, Over, EraserLast
  <2>5. FrameOwn' /\ CommandOwn' /\ OneReply'
    <3>1. \A m \in Writes : m # n => pc'[m] = pc[m] /\ left'[m] = left[m]
      BY <2>2
    <3>2. FrameOwn'
      BY <2>3, <2>2, <3>1 DEF Orderly, FrameOwn
    <3>3. CommandOwn'
      BY <2>1, <2>3, <2>2, <3>1 DEF Orderly, CommandOwn
    <3>4. OneReply'
      BY <2>3, <2>2, <3>1 DEF Orderly, OneReply
    <3> QED
      BY <3>2, <3>3, <3>4
  <2> QED
    BY <2>4, <2>5 DEF Orderly
<1>8. CASE GiveSema(n)
  <2>1. /\ pc[n] = "give" /\ pc' = [pc EXCEPT ![n] = "done"]
        /\ UNCHANGED <<written, code, rxValue, seen, src, cmd, left, heard, eraser>>
    BY <1>8 DEF GiveSema
  <2>2. EarlierOver' /\ AnsweredOver' /\ EraserLast'
    BY <2>1 DEF Orderly, EarlierOver, AnsweredOver, Over, EraserLast
  <2>3. FrameOwn' /\ CommandOwn' /\ OneReply'
    BY <2>1 DEF Orderly, FrameOwn, CommandOwn, OneReply
  <2> QED
    BY <2>2, <2>3 DEF Orderly
<1>9. CASE Restart(n)
  <2>1. /\ \A m \in Writes : pc'[m] = IF pc[m] = "none" THEN "none" ELSE "done"
        /\ \A m \in Writes : eraser'[m] = IF eraser[m] = "none" THEN "none" ELSE "done"
        /\ UNCHANGED <<written, code, seen, src, cmd, left>>
    BY <1>9 DEF Restart
  <2>2. EarlierOver'
    BY <2>1 DEF Orderly, EarlierOver, Over
  <2>3. AnsweredOver'
    <3>1. written \in Writes => pc[written] # "none"
      BY DEF Started
    <3> QED
      BY <2>1, <3>1 DEF AnsweredOver, Over
  <2>4. FrameOwn' /\ CommandOwn' /\ OneReply' /\ EraserLast'
    BY <2>1 DEF FrameOwn, CommandOwn, OneReply, EraserLast
  <2> QED
    BY <2>2, <2>3, <2>4 DEF Orderly
<1> QED
  BY <1>1, <1>2, <1>3, <1>4, <1>5, <1>6, <1>7, <1>8, <1>9 DEF task_cmd

\* So does a step of the eraser.
LEMMA EraserOrderly ==
  ASSUME IInv, Orderly, NEW n \in Writes, empty_all_dec(n)
  PROVE  Orderly'
<1> USE Types, PlaceTypes DEF Listings
<1>1. n = written /\ pc[n] \in {"give", "done"}
  BY BusyIsLast DEF empty_all_dec, EraseStores, EraserSetValue, EraserNotify, EraserMove, Orderly,
                    EraserLast
<1>2. PICK e \in {"set", "notify", "done"} :
        /\ eraser' = [eraser EXCEPT ![n] = e]
        /\ heard' = heard \/ e = "done"
        /\ eraser[n] \in {"ready", "set", "notify"}
        /\ UNCHANGED <<written, code, rxValue, pc, seen, src, cmd, left>>
  BY DEF empty_all_dec, EraseStores, EraserSetValue, EraserNotify, EraserMove, taskVars
<1>3. ~(heard /\ code[written] \notin Listings)
  BY <1>1, <1>2 DEF Orderly, AnsweredOver, Over
<1>4. EarlierOver' /\ AnsweredOver' /\ EraserLast'
  BY <1>1, <1>2, <1>3 DEF Orderly, EarlierOver, AnsweredOver, Over, EraserLast
<1>5. FrameOwn' /\ CommandOwn' /\ OneReply'
  BY <1>2 DEF Orderly, FrameOwn, CommandOwn, OneReply
<1> QED
  BY <1>4, <1>5 DEF Orderly

\* The task of a write never goes back to before it was created.
LEMMA NextStarted == IInv /\ Started /\ [Next]_vars => Started'
<1> SUFFICES ASSUME IInv, Started, [Next]_vars PROVE Started'
  OBVIOUS
<1> USE Types, PlaceTypes DEF Listings
<1>1. ASSUME NEW c \in Codes, onWrite(c) PROVE Started'
  BY <1>1 DEF onWrite, Started
<1>2. ASSUME NEW n \in Writes, task_cmd(n) PROVE Started'
  <2>1. CASE Restart(n)
    <3>1. \A m \in Writes : pc[m] # "none" => pc'[m] # "none"
      BY <2>1 DEF Restart
    <3> QED
      BY <2>1, <3>1 DEF Restart, Started
  <2>2. CASE ~Restart(n)
    <3>1. PICK p \in PCs \ {"none"} : pc' = [pc EXCEPT ![n] = p] /\ written' = written
      <4>1. CASE TakeSema(n) \/ Busy(n) \/ CopyFrame(n) \/ SensorDone(n) \/ SetValue(n)
                 \/ Notify(n) \/ GiveSema(n)
        BY <4>1 DEF TakeSema, Busy, CopyFrame, SensorDone, SetValue, Notify, GiveSema,
                    Goto, AfterReplies
      <4>2. CASE Execute(n)
        BY <4>2 DEF Execute, DoAnswered, DoList, DoSensor, DoErase, DoRename, DoUnknown, Goto
      <4> QED
        BY <1>2, <2>2, <4>1, <4>2 DEF task_cmd
    <3> QED
      BY <3>1 DEF Started
  <2> QED
    BY <2>1, <2>2
<1>3. ASSUME NEW n \in Writes, empty_all_dec(n) PROVE Started'
  BY <1>3 DEF empty_all_dec, EraseStores, EraserSetValue, EraserNotify, taskVars, Started
<1>4. CASE UNCHANGED vars
  BY <1>4 DEF vars, Started
<1> QED
  BY <1>1, <1>2, <1>3, <1>4 DEF Next

\* A patient client keeps the parser orderly.
LEMMA NextOrderly ==
  IInv /\ Started /\ (patient => Orderly) /\ [MCNext]_<<vars, patient>> => (patient => Orderly)'
<1> SUFFICES ASSUME IInv, Started, patient => Orderly, [MCNext]_<<vars, patient>>, patient'
             PROVE  Orderly'
  OBVIOUS
<1>1. CASE UNCHANGED <<vars, patient>>
  BY <1>1 DEF vars, Orderly, EarlierOver, AnsweredOver, Over, FrameOwn, CommandOwn, OneReply,
              EraserLast
<1>2. CASE MCNext
  <2>1. Orderly /\ (written' # written => heard /\ (written = 0 \/ code[written] \notin Listings))
    BY <1>2 DEF MCNext
  <2>2. ASSUME NEW c \in Codes, onWrite(c) PROVE Orderly'
    <3>1. written' # written
      BY <2>2, Types DEF onWrite
    <3>2. written = 0 \/ (heard /\ code[written] \notin Listings)
      BY <2>1, <3>1
    <3> QED
      BY <2>1, <2>2, <3>2, OnWriteOrderly
  <2>3. ASSUME NEW n \in Writes, task_cmd(n) PROVE Orderly'
    BY <2>1, <2>3, TaskOrderly
  <2>4. ASSUME NEW n \in Writes, empty_all_dec(n) PROVE Orderly'
    BY <2>1, <2>4, EraserOrderly
  <2> QED
    BY <1>2, <2>2, <2>3, <2>4 DEF MCNext, Next
<1> QED
  BY <1>1, <1>2

(***************************************************************************)
(* If a client waits for the notification of each write before the next and *)
(* writes nothing after a listing, then whatever is executed is executed as *)
(* it was written, by the task of its own write: never the frame of another *)
(* write, nor a torn one.  It does not say that every command is executed:  *)
(* one that comes between the notification and the give is dropped.         *)
(***************************************************************************)
THEOREM PatientServed == MCSpec => []PatientExact
<1>1. MCInit => PInv
  <2>1. Init => Started /\ Orderly
    BY CodesKnown DEF Init, Writes, Started, Orderly, EarlierOver, AnsweredOver, Over, FrameOwn,
                      CommandOwn, OneReply, EraserLast, Holding, Blocked
  <2> QED
    BY <2>1, InitIInv DEF MCInit, PInv
<1>2. PInv /\ [MCNext]_<<vars, patient>> => PInv'
  <2> SUFFICES ASSUME PInv, [MCNext]_<<vars, patient>> PROVE PInv'
    OBVIOUS
  <2>1. [Next]_vars
    BY DEF MCNext
  <2>2. IInv'
    BY <2>1, NextInv DEF PInv
  <2> QED
    BY <2>1, <2>2, NextStarted, NextOrderly DEF PInv
<1>3. PInv => PatientExact
  BY DEF PInv, Orderly, CommandOwn, PatientExact
<1> QED
  BY <1>1, <1>2, <1>3, PTL DEF MCSpec

-------------------------------------------------------------------------------
(***************************************************************************)
(* BleCommand implements Executor.  A task copies either rxValue or, when   *)
(* rxValue changed since the task took the semaphore, a mixture.  That the  *)
(* promise allows what it copies needs two facts: rxValue names a write     *)
(* that happened, and so does what a task saw in it.                        *)
(***************************************************************************)
KnownFrames == rxValue <= written /\ \A n \in Writes : seen[n] <= written

\* The frames in rxValue are those of writes that happened.
LEMMA NextKnownFrames == IInv /\ KnownFrames /\ [Next]_vars => KnownFrames'
<1> SUFFICES ASSUME IInv, KnownFrames, [Next]_vars PROVE KnownFrames'
  OBVIOUS
<1> USE Types DEF KnownFrames
<1>1. ASSUME NEW c \in Codes, onWrite(c) PROVE KnownFrames'
  BY <1>1 DEF onWrite
<1>2. ASSUME NEW n \in Writes, task_cmd(n) PROVE KnownFrames'
  <2>1. CASE TakeSema(n)
    BY <2>1 DEF TakeSema
  <2>2. CASE Restart(n)
    BY <2>2 DEF Restart, NoWrite
  <2>3. CASE ~TakeSema(n) /\ ~Restart(n)
    BY <1>2, <2>3 DEF task_cmd, Busy, CopyFrame, Execute, SensorDone, SetValue, Notify, GiveSema
  <2> QED
    BY <2>1, <2>2, <2>3
<1>3. ASSUME NEW n \in Writes, empty_all_dec(n) PROVE KnownFrames'
  BY <1>3 DEF empty_all_dec, EraseStores, EraserSetValue, EraserNotify, taskVars
<1>4. CASE UNCHANGED vars
  BY <1>4 DEF vars
<1> QED
  BY <1>1, <1>2, <1>3, <1>4 DEF Next

\* What the promise sees of the tasks.
Shown == <<written, Open, Running, Copied>>

\* The task that holds the semaphore is the one that runs; when it is free none does.
LEMMA HolderRuns ==
  ASSUME IInv
  PROVE  /\ sema = 0 => Running = {} /\ Copied = {}
         /\ \A n \in Writes : (sema = n <=> pc[n] \in Holding)
         /\ \A n \in Writes : sema = n =>
              Running = {n} /\ Copied = IF pc[n] # "copy" THEN {src[n]} ELSE {}
         /\ sema # 0 => sema \in Writes /\ Running # {}
<1> USE Types
<1>1. \A n \in Writes : (sema = n <=> pc[n] \in Holding) /\ n # 0
  BY DEF IInv, SemaNamesHolder
<1>2. sema # 0 => sema \in Writes
  BY DEF IInv, TypeOK
<1>3. ASSUME NEW n \in Writes, sema = n
      PROVE  Running = {n} /\ Copied = IF pc[n] # "copy" THEN {src[n]} ELSE {}
  <2>1. Running = {n}
    BY <1>1, <1>3 DEF Running
  <2> QED
    BY <2>1 DEF Copied
<1>4. sema = 0 => Running = {} /\ Copied = {}
  BY <1>1 DEF Running, Copied
<1> QED
  BY <1>1, <1>2, <1>3, <1>4

\* A holder that goes from one place after the copy to another shows nothing.
LEMMA HolderMoves ==
  ASSUME IInv, NEW n \in Writes, NEW p \in Holding \ {"copy"},
         pc[n] \in Holding \ {"copy"}, pc' = [pc EXCEPT ![n] = p],
         UNCHANGED <<written, src>>
  PROVE  UNCHANGED Shown
<1>1. pc'[n] = p /\ \A m \in Writes : m # n => pc'[m] = pc[m]
  BY Types
<1>2. Open' = Open
  BY <1>1, PlaceTypes DEF Open
<1>3. Running' = Running
  BY <1>1 DEF Running
<1>4. {m \in Running : pc[m] # "copy"} = {m \in Running' : pc'[m] # "copy"}
  BY <1>1, <1>3
<1>5. Copied' = Copied
  BY <1>4 DEF Copied
<1> QED
  BY <1>2, <1>3, <1>5 DEF Shown

\* onWrite opens a write.
LEMMA WriteOpens == ASSUME IInv, NEW c \in Codes, onWrite(c) PROVE Promise!Write
<1> USE Types
<1>1. /\ written' = written + 1 /\ written + 1 \in Writes /\ src' = src
      /\ pc' = [pc EXCEPT ![written + 1] = "ready"] /\ pc[written + 1] = "none"
  BY DEF onWrite
<1>2. pc'[written'] = "ready" /\ \A m \in Writes : m # written' => pc'[m] = pc[m]
  BY <1>1
<1>3. Open' = Open \cup {written'}
  BY <1>1, <1>2 DEF Open
<1>4. Running' = Running
  BY <1>1, <1>2, PlaceTypes DEF Running
<1>5. {m \in Running : pc[m] # "copy"} = {m \in Running' : pc'[m] # "copy"}
  BY <1>1, <1>2, <1>4, PlaceTypes DEF Running
<1>6. Copied' = Copied
  BY <1>1, <1>5 DEF Copied
<1> QED
  BY <1>1, <1>3, <1>4, <1>6 DEF Promise!Write

\* A ready task is an open write: it is started, or dropped when one is running.
LEMMA ReadyDecides ==
  ASSUME IInv, NEW n \in Writes, TakeSema(n) \/ Busy(n)
  PROVE  Promise!Start \/ Promise!Drop
<1> USE Types
<1>1. CASE TakeSema(n)
  <2>1. /\ pc[n] = "ready" /\ sema = 0 /\ written' = written
        /\ pc' = [pc EXCEPT ![n] = "copy"]
    BY <1>1 DEF TakeSema
  <2>2. pc'[n] = "copy" /\ \A m \in Writes : m # n => pc'[m] = pc[m]
    BY <2>1
  <2>3. n \in Open /\ Open' = Open \ {n}
    BY <2>1, <2>2 DEF Open
  <2>4. Running = {} /\ Copied = {}
    BY <2>1, HolderRuns
  <2>5. Running' = {n}
    BY <2>2, <2>4, PlaceTypes DEF Running
  <2>6. Copied' = {}
    BY <2>2, <2>5 DEF Copied
  <2> QED
    BY <2>1, <2>3, <2>4, <2>5, <2>6 DEF Promise!Start
<1>2. CASE Busy(n)
  <2>1. /\ pc[n] = "ready" /\ sema # 0 /\ UNCHANGED <<written, src>>
        /\ pc' = [pc EXCEPT ![n] = "done"]
    BY <1>2 DEF Busy
  <2>2. pc'[n] = "done" /\ \A m \in Writes : m # n => pc'[m] = pc[m]
    BY <2>1
  <2>3. n \in Open /\ Open' = Open \ {n}
    BY <2>1, <2>2 DEF Open
  <2>4. Running' = Running
    BY <2>1, <2>2, PlaceTypes DEF Running
  <2>5. {m \in Running : pc[m] # "copy"} = {m \in Running' : pc'[m] # "copy"}
    BY <2>1, <2>2, <2>4, PlaceTypes DEF Running
  <2>6. Copied' = Copied
    BY <2>1, <2>5 DEF Copied
  <2> QED
    BY <2>1, <2>3, <2>4, <2>6, HolderRuns DEF Promise!Drop
<1> QED
  BY <1>1, <1>2

\* Copying rxValue reads the frame of the task's own write, or of a later one,
\* or a mixture if there was a later one.
LEMMA CopyReads ==
  ASSUME IInv, KnownFrames, NEW n \in Writes, CopyFrame(n) PROVE Promise!Read
<1> USE Types
<1>1. /\ pc[n] = "copy" /\ pc' = [pc EXCEPT ![n] = "body"] /\ written' = written
      /\ \/ src' = [src EXCEPT ![n] = rxValue]
         \/ rxValue # seen[n] /\ src' = [src EXCEPT ![n] = Torn]
  BY DEF CopyFrame
<1>2. pc'[n] = "body" /\ \A m \in Writes : m # n => pc'[m] = pc[m]
  BY <1>1
<1>3. Running = {n} /\ Copied = {}
  <2>1. sema = n
    BY <1>1, HolderRuns, PlaceTypes
  <2> QED
    BY <1>1, <2>1, HolderRuns
<1>4. Open' = Open
  BY <1>1, <1>2 DEF Open
<1>5. Running' = Running
  BY <1>1, <1>2, PlaceTypes DEF Running
<1>6. Copied' = {src'[n]}
  BY <1>2, <1>3, <1>5 DEF Copied
<1>7. rxValue >= n /\ seen[n] >= n /\ rxValue <= written /\ seen[n] <= written
  BY <1>1 DEF IInv, FrameAtHand, KnownFrames
<1>8. src'[n] \in n .. written \/ (written > n /\ src'[n] = Torn)
  <2>1. src'[n] = rxValue \/ (rxValue # seen[n] /\ src'[n] = Torn)
    BY <1>1
  <2>2. n \in Int /\ rxValue \in Int /\ written \in Int /\ seen[n] \in Int
    OBVIOUS
  <2> QED
    BY ONLY <1>7, <2>1, <2>2
<1> QED
  BY <1>1, <1>3, <1>4, <1>5, <1>6, <1>8 DEF Promise!Read

\* What the holder does between the copy and the give shows nothing.
LEMMA WorkHidden ==
  ASSUME IInv, NEW n \in Writes, Execute(n) \/ SensorDone(n) \/ SetValue(n) \/ Notify(n)
  PROVE  UNCHANGED Shown
<1> USE PlaceTypes
<1>1. /\ pc[n] \in Holding \ {"copy"} /\ UNCHANGED <<written, src>>
      /\ \E p \in Holding \ {"copy"} : pc' = [pc EXCEPT ![n] = p]
  <2>1. CASE Execute(n)
    BY <2>1 DEF Execute, Goto, DoAnswered, DoList, DoSensor, DoErase, DoRename, DoUnknown
  <2>2. CASE SensorDone(n)
    BY <2>2 DEF SensorDone, Goto
  <2>3. CASE SetValue(n)
    BY <2>3 DEF SetValue
  <2>4. CASE Notify(n)
    BY <2>4 DEF Notify, Goto, AfterReplies
  <2> QED
    BY <2>1, <2>2, <2>3, <2>4
<1> QED
  BY <1>1, HolderMoves

\* Giving the semaphore back ends the command.
LEMMA GiveEnds == ASSUME IInv, NEW n \in Writes, GiveSema(n) PROVE Promise!End
<1> USE Types
<1>1. pc[n] = "give" /\ pc' = [pc EXCEPT ![n] = "done"] /\ written' = written
  BY DEF GiveSema
<1>2. pc'[n] = "done" /\ \A m \in Writes : m # n => pc'[m] = pc[m]
  BY <1>1
<1>3. Running = {n}
  BY <1>1, HolderRuns, PlaceTypes
<1>4. Open' = Open
  BY <1>1, <1>2 DEF Open
<1>5. Running' = {}
  BY <1>2, <1>3, PlaceTypes DEF Running
<1>6. Copied' = {}
  BY <1>5 DEF Copied
<1> QED
  BY <1>1, <1>3, <1>4, <1>5, <1>6 DEF Promise!End

\* A restart by a command loses what is open and ends the command.
LEMMA RestartLoses == ASSUME IInv, NEW n \in Writes, Restart(n) PROVE Promise!Restart
<1>1. /\ pc[n] \in {"delay", "body"} /\ written' = written
      /\ \A m \in Writes : pc'[m] \in {"none", "done"}
  BY DEF Restart
<1>2. Running # {}
  BY <1>1, PlaceTypes DEF Running
<1>3. Open' = {} /\ Running' = {}
  BY <1>1, PlaceTypes DEF Open, Running
<1>4. Copied' = {}
  BY <1>3 DEF Copied
<1> QED
  BY <1>1, <1>2, <1>3, <1>4 DEF Promise!Restart

(***************************************************************************)
(* The command path (onWrite, task_cmd, parseDataCmd, cmd_reply) keeps the  *)
(* promise of Executor for any number of writes, any commands and any       *)
(* preemption: one command at a time, one write one task, dropped and not   *)
(* queued while another runs, and no frame older than the write.            *)
(***************************************************************************)
THEOREM ExecutorImplemented == Spec => ImplementsExecutor
<1>1. Init => Promise!Init
  BY DEF Init, Open, Running, Copied, Holding, Blocked, Promise!Init
<1>2. IInv /\ KnownFrames /\ [Next]_vars => [Promise!Next]_(Promise!vars)
  <2> SUFFICES ASSUME IInv, KnownFrames, [Next]_vars
               PROVE  Promise!Next \/ UNCHANGED Shown
    BY DEF Promise!vars, Shown
  <2>1. ASSUME NEW c \in Codes, onWrite(c) PROVE Promise!Next
    BY <2>1, WriteOpens DEF Promise!Next
  <2>2. ASSUME NEW n \in Writes, task_cmd(n) PROVE Promise!Next \/ UNCHANGED Shown
    <3>1. CASE TakeSema(n) \/ Busy(n)
      BY <3>1, ReadyDecides DEF Promise!Next
    <3>2. CASE CopyFrame(n)
      BY <3>2, CopyReads DEF Promise!Next
    <3>3. CASE Execute(n) \/ SensorDone(n) \/ SetValue(n) \/ Notify(n)
      BY <3>3, WorkHidden
    <3>4. CASE GiveSema(n)
      BY <3>4, GiveEnds DEF Promise!Next
    <3>5. CASE Restart(n)
      BY <3>5, RestartLoses DEF Promise!Next
    <3> QED
      BY <2>2, <3>1, <3>2, <3>3, <3>4, <3>5 DEF task_cmd
  <2>3. ASSUME NEW n \in Writes, empty_all_dec(n) PROVE UNCHANGED Shown
    <3>1. UNCHANGED <<written, sema, pc, src>>
      BY <2>3 DEF empty_all_dec, EraseStores, EraserSetValue, EraserNotify, taskVars
    <3> QED
      BY <3>1 DEF Shown, Open, Running, Copied
  <2>4. CASE UNCHANGED vars
    BY <2>4 DEF vars, Shown, Open, Running, Copied
  <2> QED
    BY <2>1, <2>2, <2>3, <2>4 DEF Next
<1>3. Init => KnownFrames
  BY CodesKnown DEF Init, KnownFrames, NoWrite, Writes
<1> QED
  BY <1>1, <1>2, <1>3, NextKnownFrames, Inductive, PTL DEF Spec, Promise!Spec, ImplementsExecutor

===============================================================================
