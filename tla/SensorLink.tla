------------------------------ MODULE SensorLink ------------------------------
(***************************************************************************)
(* One exchange after another with the fingerprint sensor, byte by byte:   *)
(* GET_CMD_PACKET writes a command and getStructuredPacket looks for the   *)
(* acknowledgement in what the UART receives.  Nothing in an               *)
(* acknowledgement names its command, the checksum is not looked at, and   *)
(* what an exchange leaves in the UART is read by the next.                *)
(*                                                                         *)
(* The sensor answers the commands in their order.  A fault is an answer   *)
(* that comes after the time limit, or one that loses a byte or gets one   *)
(* too many.                                                               *)
(***************************************************************************)
EXTENDS Integers, Sequences, SequencesExt

CONSTANTS
  Faults,       \* the kinds of faults: a subset of {"late", "lost", "noise"}
  MaxFaults,
  MaxAdded,     \* of these, answers with a byte added
  MaxCommands,
  Length,       \* bytes of data in an answer
  Data          \* sizeof(packet->data), 130

ASSUME LinkAssumption ==
  /\ Faults \subseteq {"late", "lost", "noise"} /\ MaxFaults \in Nat /\ MaxAdded \in Nat
  /\ MaxCommands \in 1..100 /\ Length \in Nat \ {0} /\ Data \in (Length + 20)..130

StartHigh == 239   \* FINGERPRINT_STARTCODE, 0xEF01
StartLow == 1
Address == 255
Ack == 7

Byte == 0..255
UINT16_MAX == 65535

\* The first byte of data answers the command: one code for each.
Code(n) == 100 + n

Answer(n) ==
  <<StartHigh, StartLow, Address, Address, Address, Address, Ack, 0, Length + 2, Code(n)>>
    \o [i \in 1..(Length - 1) |-> 0] \o <<0, Code(n)>>

NoiseBytes == {StartHigh, StartLow, 0}

\* What arrives of an answer: all of it, or with one fault.
Received(a) ==
  [lost |-> IF "lost" \in Faults THEN {RemoveAt(a, i) : i \in DOMAIN a} ELSE {},
   noise |-> IF "noise" \in Faults
             THEN {InsertAt(a, i, b) : i \in 1..(Len(a) + 1), b \in NoiseBytes} ELSE {}]

VARIABLES
  pc,          \* "idle", or "parse": in getStructuredPacket
  sent,        \* commands so far
  requests,    \* those the sensor has yet to answer
  uart,        \* bytes received and not read
  idx, type, length, code,   \* code: packet->data[0]
  last,        \* how the last exchange ended: "none", "ok", "receive error", "timeout"
  late, broken, added,   \* late answers, damaged answers, those with a byte added
  failed                 \* exchanges that went wrong

vars == <<pc, sent, requests, uart, idx, type, length, code, last, late, broken, added,
          failed>>

Outcomes == [kind : {"none", "ok", "receive error", "timeout"}, code : Byte]

\* In particular idx - 9 stays within packet->data, and length in 16 bits.
TypeOK ==
  /\ pc \in {"idle", "parse"}
  /\ sent \in Nat /\ sent <= MaxCommands
  /\ requests \in Seq(Nat) /\ \A i \in 1..Len(requests) : requests[i] \in 1..sent
  /\ uart \in Seq(Byte)
  /\ idx \in Nat /\ idx <= Data - 10
  /\ type \in Byte /\ code \in Byte
  /\ length \in Nat /\ length <= UINT16_MAX
  /\ last \in Outcomes
  /\ late \in Nat /\ broken \in Nat /\ late + broken <= MaxFaults
  /\ added \in Nat /\ added <= MaxAdded
  /\ failed \in Nat /\ failed <= sent

Init ==
  /\ pc = "idle" /\ sent = 0 /\ requests = <<>> /\ uart = <<>>
  /\ idx = 0 /\ type = 0 /\ length = 0 /\ code = 0
  /\ last = [kind |-> "none", code |-> 0]
  /\ late = 0 /\ broken = 0 /\ added = 0 /\ failed = 0

-----------------------------------------------------------------------------

Request ==
  /\ pc = "idle" /\ sent < MaxCommands
  /\ sent' = sent + 1
  /\ requests' = Append(requests, sent + 1)
  /\ pc' = "parse" /\ idx' = 0 /\ type' = 1 /\ length' = 1 /\ code' = 0
  /\ UNCHANGED <<uart, last, late, broken, added, failed>>

Arrive(bytes) ==
  /\ uart' = uart \o bytes
  /\ requests' = Tail(requests)
  /\ UNCHANGED <<pc, sent, idx, type, length, code, last, late, failed>>

Respond ==
  /\ requests # <<>>
  /\ Arrive(Answer(Head(requests)))
  /\ UNCHANGED <<broken, added>>

RespondBroken ==
  /\ requests # <<>> /\ late + broken < MaxFaults
  /\ LET received == Received(Answer(Head(requests)))
     IN  \/ (\E bytes \in received.lost : Arrive(bytes)) /\ UNCHANGED added
         \/ /\ added < MaxAdded /\ added' = added + 1
            /\ \E bytes \in received.noise : Arrive(bytes)
  /\ broken' = broken + 1

\* The caller learns of an error, or takes the code for the answer to its command.
Return(kind, c) ==
  /\ pc' = "idle"
  /\ last' = [kind |-> kind, code |-> c]
  /\ failed' = IF kind = "ok" /\ c = Code(sent) THEN failed ELSE failed + 1

\* The next byte is looked for, unless there were too many.
Step(i) ==
  IF i + 9 >= Data THEN Return("receive error", code) /\ idx' = idx
                   ELSE idx' = i /\ UNCHANGED <<pc, last, failed>>

\* Variant: a byte that does not start a packet is an error.
StartStrict(b) ==
  /\ idx = 0
  /\ IF b = StartHigh THEN Step(1) ELSE Return("receive error", code) /\ UNCHANGED idx
  /\ UNCHANGED <<type, length, code>>

\* The cases of the switch.
Start(b) ==
  /\ idx = 0
  /\ IF b = StartHigh THEN Step(1) ELSE UNCHANGED <<pc, idx, last, failed>>
  /\ UNCHANGED <<type, length, code>>

StartSecond(b) ==
  /\ idx = 1
  /\ IF b = StartLow THEN Step(2) ELSE Return("receive error", code) /\ UNCHANGED idx
  /\ UNCHANGED <<type, length, code>>

Fields(b) ==
  /\ idx \in 2..8
  /\ type' = IF idx = 6 THEN b ELSE type
  /\ length' = CASE idx = 7 -> b * 256 [] idx = 8 -> length + b [] OTHER -> length
  /\ Step(idx + 1)
  /\ UNCHANGED code

\* The last byte counted is the last of the checksum.
Body(b) ==
  /\ idx >= 9
  /\ code' = IF idx = 9 THEN b ELSE code
  /\ IF idx - 8 # length THEN Step(idx + 1)
     ELSE Return(IF type = Ack THEN "ok" ELSE "receive error", code') /\ UNCHANGED idx
  /\ UNCHANGED <<type, length>>

getStructuredPacket ==
  /\ pc = "parse" /\ uart # <<>>
  /\ uart' = Tail(uart)
  /\ LET b == Head(uart) IN Start(b) \/ StartSecond(b) \/ Fields(b) \/ Body(b)
  /\ UNCHANGED <<sent, requests, late, broken, added>>

\* Variant: the limit is shorter than the sensor may take.
TimeOutShort ==
  /\ pc = "parse" /\ uart = <<>>
  /\ Return("timeout", code)
  /\ UNCHANGED <<sent, requests, uart, idx, type, length, code, late, broken, added>>

\* Variant: only the first byte is waited for with a limit.
TimeOutFirst ==
  /\ pc = "parse" /\ uart = <<>> /\ idx = 0
  /\ IF requests = <<>> THEN UNCHANGED late
     ELSE "late" \in Faults /\ late + broken < MaxFaults /\ late' = late + 1
  /\ Return("timeout", code)
  /\ UNCHANGED <<sent, requests, uart, idx, type, length, code, broken, added>>

\* The limit passes: nothing is coming any more, or it comes too late.
TimeOut ==
  /\ pc = "parse" /\ uart = <<>>
  /\ IF requests = <<>> THEN UNCHANGED late
     ELSE "late" \in Faults /\ late + broken < MaxFaults /\ late' = late + 1
  /\ Return("timeout", code)
  /\ UNCHANGED <<sent, requests, uart, idx, type, length, code, broken, added>>

Next == Request \/ Respond \/ RespondBroken \/ getStructuredPacket \/ TimeOut

Spec == Init /\ [][Next]_vars

\* The sensor answers and the parser runs.
FairSpec == Spec /\ WF_vars(Respond) /\ WF_vars(getStructuredPacket) /\ WF_vars(TimeOut)

-----------------------------------------------------------------------------
(* Properties. *)

Answered == pc = "idle" /\ last.kind = "ok"

\* As long as every answer comes in time, a damaged one costs one command: what is
\* left over of it is skipped by the next exchange, because it holds no start byte
\* (those of the answers this models hold none; Adafruit_Fingerprint.cpp 704-767).
\* With two bytes too many it is not so: 0xEF behind an answer and any byte before the
\* next make that answer wait for the command after.
FaultCostsOne == late = 0 => failed <= broken

\* An answer taken for the answer to a later command is not older than by as many
\* commands as answers were late, although lost bytes let exchanges end early; when
\* none was late, every code is the command's own.
LagBounded ==
  Answered => \A m \in 1..sent : last.code = Code(m) => sent - m <= late

\* The command whose answer the caller has got.
answered ==
  IF Answered /\ \E m \in 1..sent : last.code = Code(m) THEN last.code - Code(0) ELSE 0

\* The exchanges keep the promise of Exchange, which is what FingerStore takes for
\* granted of a link in step: after a damaged answer has spoiled one exchange, the
\* next ends with its own answer again.
Promise == INSTANCE Exchange WITH busy <- pc = "parse", answer <- answered

ImplementsExchange == Promise!Spec

\* Every exchange comes to an end.
ExchangeEnds == pc = "parse" ~> pc = "idle"
=============================================================================
