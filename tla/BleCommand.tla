------------------------------ MODULE BleCommand ------------------------------
(***************************************************************************)
(* The BLE command path of app_ble.cpp.  A write to the characteristic runs *)
(* onWrite in the task of the BLE stack: it stores the frame in the global  *)
(* rxValue and creates a task task_cmd.  A task_cmd that gets xSema_BLE     *)
(* without waiting copies rxValue, executes the command and gives the       *)
(* semaphore back; one that does not get it ends at once.  Command 0x09     *)
(* creates one more task, empty_all_dec, and returns.  Replies go out by    *)
(* storing them as the value of the characteristic and notifying it: the    *)
(* same characteristic, hence the same value, that the client writes.       *)
(*                                                                         *)
(* One core, priorities: BLE stack above task_cmd (10) above empty_all_dec  *)
(* (5).  A task of lower priority runs only while the others are blocked.   *)
(* Tasks are named by the number of the write that created them; what a     *)
(* command does to the stores is left to FingerStore.                       *)
(***************************************************************************)
EXTENDS Integers, FiniteSets

CONSTANTS
  Codes,      \* command codes the client sends
  MaxPages,   \* bound: notifications of one listing
  MaxWrites   \* bound: number of writes

AnsweredOnce == {"0x84", "0x02", "0x81", "0x54", "0x01", "0x64"}
Listings     == {"0x51", "0x60", "0x61"}
KnownCodes   == AnsweredOnce \cup Listings
                \cup {"0x53", "0x55", "0x63", "0x65", "0x08", "0x09", "unknown"}

ASSUME CodesAssumption == Codes \subseteq KnownCodes /\ Codes # {}
ASSUME BoundAssumption == MaxPages \in Nat /\ MaxWrites \in Nat \ {0}

VARIABLES
  written,   \* number of writes so far (bound)
  code,      \* the command code of each write
  rxValue,   \* number of the write whose frame rxValue holds, 0 if none
  sema,      \* xSema_BLE: the task that holds it, 0 when free
  pc,        \* where each task_cmd is
  seen,      \* rxValue when the task began to read it
  src,       \* the write whose frame it executes
  cmd,       \* the command code it executes
  left,      \* notifications it has still to send
  eraser,    \* where each empty_all_dec is
  value,     \* value of the characteristic: whose it is
  note,      \* the last notification: who sent it, what it carried
  heard      \* the client has been notified since its last write

vars == <<written, code, rxValue, sema, pc, seen, src, cmd, left, eraser, value, note, heard>>
taskVars == <<pc, seen, src, cmd, left>>

Writes   == 1 .. MaxWrites
NoWrite  == 0
Torn     == MaxWrites + 1   \* a frame copied while onWrite replaced it
Frame(n)    == <<"frame", n>>
Reply(n)    == <<"reply", n>>
ErasedBy(n) == <<"erased", n>>
Nothing     == <<"none", 0>>

\* In its body a command may wait for the RTC or for the flash.
Runnable == {"ready", "copy", "set", "notify", "give"}
Blocked  == {"body", "wait", "delay"}
Holding  == {"copy", "set", "notify", "give"} \cup Blocked
PCs      == {"none", "ready", "done"} \cup Holding

Init ==
  /\ written = 0 /\ code = [n \in Writes |-> "unknown"]
  /\ rxValue = NoWrite /\ sema = 0
  /\ pc = [n \in Writes |-> "none"]
  /\ seen = [n \in Writes |-> NoWrite] /\ src = [n \in Writes |-> NoWrite]
  /\ cmd = [n \in Writes |-> "unknown"] /\ left = [n \in Writes |-> 0]
  /\ eraser = [n \in Writes |-> "none"]
  /\ value = Nothing /\ note = [by |-> Nothing, carried |-> Nothing]
  /\ heard = TRUE

\* Variant: a frame that arrives while the parser is busy is not stored.
onWriteUnlessBusy(c) ==
  /\ written < MaxWrites
  /\ written' = written + 1
  /\ code' = [code EXCEPT ![written + 1] = c]
  /\ value' = Frame(written + 1)
  /\ rxValue' = IF sema = 0 THEN written + 1 ELSE rxValue
  /\ pc' = [pc EXCEPT ![written + 1] = "ready"]
  /\ heard' = FALSE
  /\ UNCHANGED <<sema, seen, src, cmd, left, eraser, note>>

(***************************************************************************)
(* The BLE stack stores the written bytes as the value of the               *)
(* characteristic and calls onWrite, which overwrites rxValue whether or    *)
(* not an earlier frame was picked up.                                      *)
(***************************************************************************)
onWrite(c) ==
  /\ written < MaxWrites
  /\ written' = written + 1
  /\ code' = [code EXCEPT ![written + 1] = c]
  /\ value' = Frame(written + 1)
  /\ rxValue' = written + 1
  /\ pc' = [pc EXCEPT ![written + 1] = "ready"]
  /\ heard' = FALSE
  /\ UNCHANGED <<sema, seen, src, cmd, left, eraser, note>>

-------------------------------------------------------------------------------
\* Variant: the command is acknowledged before it is copied.
TakeSemaAcking(n) ==
  /\ pc[n] = "ready" /\ sema = 0
  /\ sema' = n
  /\ pc' = [pc EXCEPT ![n] = "copy"]
  /\ seen' = [seen EXCEPT ![n] = rxValue]
  /\ heard' = TRUE
  /\ UNCHANGED <<written, code, rxValue, src, cmd, left, eraser, value, note>>

\* task_cmd tries xSema_BLE without waiting ...
TakeSema(n) ==
  /\ pc[n] = "ready" /\ sema = 0
  /\ sema' = n
  /\ pc' = [pc EXCEPT ![n] = "copy"]
  /\ seen' = [seen EXCEPT ![n] = rxValue]
  /\ UNCHANGED <<written, code, rxValue, src, cmd, left, eraser, value, note, heard>>

\* ... and drops the command when it is taken: a warning in the log is all.
Busy(n) ==
  /\ pc[n] = "ready" /\ sema # 0
  /\ pc' = [pc EXCEPT ![n] = "done"]
  /\ UNCHANGED <<written, code, rxValue, sema, seen, src, cmd, left, eraser, value, note, heard>>

\* parseDataCmd(rxValue) copies the String.  When the stack replaces it before
\* the copy, the later frame is executed; during the copy, it can be any command.
CopyFrame(n) ==
  /\ pc[n] = "copy"
  /\ pc' = [pc EXCEPT ![n] = "body"]
  /\ \/ src' = [src EXCEPT ![n] = rxValue] /\ cmd' = [cmd EXCEPT ![n] = code[rxValue]]
     \/ /\ rxValue # seen[n]
        /\ src' = [src EXCEPT ![n] = Torn]
        /\ \E c \in Codes : cmd' = [cmd EXCEPT ![n] = c]
  /\ UNCHANGED <<written, code, rxValue, sema, seen, left, eraser, value, note, heard>>

-------------------------------------------------------------------------------
(***************************************************************************)
(* parseDataCmd, by command code.                                          *)
(***************************************************************************)
Goto(n, p, replies) ==
  /\ pc' = [pc EXCEPT ![n] = p]
  /\ left' = [left EXCEPT ![n] = replies]

\* RTC, parameters, binding of a finger or a face, RFID switch: one reply.
DoAnswered(n) == cmd[n] \in AnsweredOnce /\ Goto(n, "set", 1) /\ UNCHANGED eraser

\* Work records (0x51, 0x61) and faces (0x60): one notification each.
DoList(n) ==
  /\ cmd[n] \in Listings
  /\ \E k \in 0 .. MaxPages : Goto(n, IF k = 0 THEN "give" ELSE "set", k)
  /\ UNCHANGED eraser

\* 0x53 and 0x55 wait for the fingerprint sensor, 0x65 for a face module on its UART.
DoSensor(n) == cmd[n] \in {"0x53", "0x55", "0x65"} /\ Goto(n, "wait", 0) /\ UNCHANGED eraser

\* 0x09 leaves the work, and the reply, to a task of its own.
DoErase(n) ==
  /\ cmd[n] = "0x09"
  /\ eraser' = [eraser EXCEPT ![n] = "ready"]
  /\ Goto(n, "give", 0)

\* Variant: an empty name ends the task instead of the parser.
DoRenameReturning(n) ==
  /\ cmd[n] = "0x08"
  /\ \/ Goto(n, "done", 0)
     \/ Goto(n, "set", 1)
  /\ UNCHANGED eraser

\* 0x08 ignores an empty name; otherwise it replies and restarts the device.
DoRename(n) ==
  /\ cmd[n] = "0x08"
  /\ \/ Goto(n, "give", 0)
     \/ Goto(n, "set", 1)
  /\ UNCHANGED eraser

DoUnknown(n) == cmd[n] = "unknown" /\ Goto(n, "give", 0) /\ UNCHANGED eraser

Execute(n) ==
  /\ pc[n] = "body"
  /\ \/ DoAnswered(n) \/ DoList(n) \/ DoSensor(n) \/ DoErase(n) \/ DoRename(n) \/ DoUnknown(n)
  /\ UNCHANGED <<written, code, rxValue, sema, seen, src, cmd, value, note, heard>>

\* The sensor is done.  A delete that failed (0x55, 0x65) sends no reply.
SensorDone(n) ==
  /\ pc[n] = "wait"
  /\ \/ Goto(n, "set", 1)
     \/ cmd[n] \in {"0x55", "0x65"} /\ Goto(n, "give", 0)
  /\ UNCHANGED <<written, code, rxValue, sema, seen, src, cmd, eraser, value, note, heard>>

\* cmd_reply: setValue(), then notify().
SetValue(n) ==
  /\ pc[n] = "set"
  /\ value' = Reply(n)
  /\ pc' = [pc EXCEPT ![n] = "notify"]
  /\ UNCHANGED <<written, code, rxValue, sema, seen, src, cmd, left, eraser, note, heard>>

AfterReplies(n) == IF cmd[n] = "0x08" THEN "delay" ELSE "give"

\* Variant: the semaphore is given back before the reply is sent.
NotifyAfterGive(n) ==
  /\ pc[n] = "notify"
  /\ note' = [by |-> Reply(n), carried |-> value]
  /\ heard' = TRUE
  /\ sema' = 0
  /\ Goto(n, IF left[n] > 1 THEN "set" ELSE AfterReplies(n), left[n] - 1)
  /\ UNCHANGED <<written, code, rxValue, seen, src, cmd, eraser, value>>

\* Variant: one notification too many.
NotifyPastEnd(n) ==
  /\ pc[n] = "notify"
  /\ note' = [by |-> Reply(n), carried |-> value]
  /\ heard' = TRUE
  /\ Goto(n, IF left[n] > 0 THEN "set" ELSE AfterReplies(n), left[n] - 1)
  /\ UNCHANGED <<written, code, rxValue, sema, seen, src, cmd, eraser, value>>

Notify(n) ==
  /\ pc[n] = "notify"
  /\ note' = [by |-> Reply(n), carried |-> value]
  /\ heard' = TRUE
  /\ Goto(n, IF left[n] > 1 THEN "set" ELSE AfterReplies(n), left[n] - 1)
  /\ UNCHANGED <<written, code, rxValue, sema, seen, src, cmd, eraser, value>>

GiveSema(n) ==
  /\ pc[n] = "give"
  /\ sema' = 0
  /\ pc' = [pc EXCEPT ![n] = "done"]
  /\ UNCHANGED <<written, code, rxValue, seen, src, cmd, left, eraser, value, note, heard>>

\* ESP.restart() three seconds after the reply to 0x08, or the assertion that 0x63
\* meets: it takes xSema_FACE, which no task of this build creates.  Every task is
\* gone and ble_task_setup creates xSema_BLE anew.
Restart(n) ==
  /\ pc[n] = "delay" \/ (pc[n] = "body" /\ cmd[n] = "0x63")
  /\ pc' = [m \in Writes |-> IF pc[m] = "none" THEN "none" ELSE "done"]
  /\ eraser' = [m \in Writes |-> IF eraser[m] = "none" THEN "none" ELSE "done"]
  /\ sema' = 0 /\ rxValue' = NoWrite /\ value' = Nothing /\ heard' = TRUE
  /\ UNCHANGED <<written, code, seen, src, cmd, left, note>>

-------------------------------------------------------------------------------
(***************************************************************************)
(* empty_all_dec: erases sensor and bindings, then replies.  It has the     *)
(* processor only while every task_cmd is blocked or gone.                  *)
(***************************************************************************)
\* Variant: empty_all_dec is created with the priority of task_cmd.
EqualPriority == TRUE

LowPriority == \A n \in Writes : pc[n] \notin Runnable

EraserMove(n, from, to) == eraser[n] = from /\ eraser' = [eraser EXCEPT ![n] = to]

EraseStores(n) ==
  /\ LowPriority
  /\ EraserMove(n, "ready", "set")
  /\ UNCHANGED <<written, code, rxValue, sema, taskVars, value, note, heard>>

EraserSetValue(n) ==
  /\ LowPriority
  /\ EraserMove(n, "set", "notify")
  /\ value' = ErasedBy(n)
  /\ UNCHANGED <<written, code, rxValue, sema, taskVars, note, heard>>

EraserNotify(n) ==
  /\ LowPriority
  /\ EraserMove(n, "notify", "done")
  /\ note' = [by |-> ErasedBy(n), carried |-> value]
  /\ heard' = TRUE
  /\ UNCHANGED <<written, code, rxValue, sema, taskVars, value>>

task_cmd(n) ==
  \/ TakeSema(n) \/ Busy(n) \/ CopyFrame(n) \/ Execute(n) \/ SensorDone(n)
  \/ SetValue(n) \/ Notify(n) \/ GiveSema(n) \/ Restart(n)

empty_all_dec(n) == EraseStores(n) \/ EraserSetValue(n) \/ EraserNotify(n)

Next ==
  \/ \E c \in Codes : onWrite(c)
  \/ \E n \in Writes : task_cmd(n) \/ empty_all_dec(n)

Spec == Init /\ [][Next]_vars

\* Tasks that can run do run, and the sensor answers a delete or the command
\* times out; but enrolment (0x53) waits for a finger without a limit.
Enrolling(n) == pc[n] = "wait" /\ cmd[n] = "0x53"

Fairness == \A n \in Writes : /\ WF_vars(~Enrolling(n) /\ task_cmd(n))
                              /\ WF_vars(empty_all_dec(n))

FairSpec == Spec /\ Fairness

-------------------------------------------------------------------------------
(***************************************************************************)
(* Properties.                                                             *)
(***************************************************************************)
Values == {Nothing} \cup {Frame(n) : n \in Writes} \cup {Reply(n) : n \in Writes}
          \cup {ErasedBy(n) : n \in Writes}

\* Type invariant.
TypeOK ==
  /\ written \in 0 .. MaxWrites /\ code \in [Writes -> KnownCodes]
  /\ rxValue \in 0 .. MaxWrites /\ sema \in 0 .. MaxWrites
  /\ pc \in [Writes -> PCs] /\ seen \in [Writes -> 0 .. MaxWrites]
  /\ src \in [Writes -> 0 .. Torn] /\ cmd \in [Writes -> KnownCodes]
  /\ left \in [Writes -> 0 .. (MaxPages + 1)]
  /\ eraser \in [Writes -> {"none", "ready", "set", "notify", "done"}]
  /\ value \in Values /\ note \in [by : Values, carried : Values]
  /\ heard \in BOOLEAN

(***************************************************************************)
(* xSema_BLE keeps command execution serial, through drops, listings and    *)
(* restarts: at most one task_cmd is between take and give, and the         *)
(* semaphore is free exactly when none is (it is neither lost nor given     *)
(* back twice).                                                             *)
(***************************************************************************)
SerialExecution ==
  /\ \A m, n \in Writes : pc[m] \in Holding /\ pc[n] \in Holding => m = n
  /\ \A n \in Writes : pc[n] \in Holding <=> sema = n

(***************************************************************************)
(* A command is never executed on account of a later write: what task n     *)
(* executes is the frame of write n or of a write after it (or a mixture    *)
(* that contains such a frame), never an older frame left in rxValue.       *)
(***************************************************************************)
NoStaleFrame ==
  \A n \in Writes : pc[n] \in Holding \ {"copy"} => src[n] >= n

(***************************************************************************)
(* The value a task_cmd notifies is its own reply or a frame the client     *)
(* wrote in between (an echo): never the reply of another task.  The        *)
(* priorities see to that: empty_all_dec cannot run between setValue and    *)
(* notify of a task_cmd.                                                    *)
(***************************************************************************)
CommandReplyUnmixed ==
  \A n \in Writes :
    note.by = Reply(n) => \/ note.carried = Reply(n)
                          \/ \E m \in Writes : m > n /\ note.carried = Frame(m)

(***************************************************************************)
(* The parser always becomes free again, unless an enrolment waits for a    *)
(* finger for ever.                                                         *)
(***************************************************************************)
ParserComesBack == []<>(sema = 0 \/ \E n \in Writes : Enrolling(n))

(***************************************************************************)
(* A write whose task finds the parser free is not lost: its frame is       *)
(* executed, by its own task or by another that was ready too, unless the   *)
(* client writes again.  (A write that finds the parser busy is lost.)      *)
(***************************************************************************)
Executed(n) == \E m \in Writes : src[m] = n

WriteTaken ==
  \A n \in Writes :
    (written = n /\ pc[n] = "ready" /\ sema = 0) ~> written > n \/ Executed(n)

(***************************************************************************)
(* The command path keeps the promise of Executor to the client, whatever   *)
(* xSema_BLE does for it: a write is open while its task is ready and runs  *)
(* while its task is between take and give, with the frame the task copied. *)
(***************************************************************************)
Open    == {n \in Writes : pc[n] = "ready"}
Running == {n \in Writes : pc[n] \in Holding}
Copied  == {src[n] : n \in {m \in Running : pc[m] # "copy"}}

Promise == INSTANCE Executor
           WITH open <- Open, running <- Running, frame <- Copied, Mixture <- Torn

ImplementsExecutor == Promise!Spec

===============================================================================
