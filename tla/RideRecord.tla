------------------------------ MODULE RideRecord ------------------------------
(***************************************************************************)
(* The ride journal.  While a ride lasts, task_8563 (app_time.cpp) rewrites *)
(* one ten-byte image of it, (start, now, finger slot), at address 0 of an  *)
(* FRAM every five seconds; nothing tells it that the ride is over, the     *)
(* power is simply cut.  At the next power-on setup() trims the list of     *)
(* work records in flash, then task_8563 reads the image back, looks the    *)
(* slot up in finger_cfg and files a work record under the start time.      *)
(*                                                                         *)
(* The power may be cut between any two bytes that go to the FRAM, so the   *)
(* image read back may mix two consecutive images.  The bindings of         *)
(* finger_cfg change under the journal (BLE commands), and the RTC can be   *)
(* set while esp32Time keeps the value it was given at power-on.            *)
(* task_8563 has a low priority on the one core: a task above it, such as   *)
(* the download of a template (app_finger.cpp 405-413, up to 20 s without a *)
(* pause), keeps it waiting between two passes and in the middle of a write. *)
(*                                                                         *)
(* Abstractions: a byte takes Base values; driver information is a model    *)
(* value; the calendar fields of a record are the epoch seconds they encode.*)
(***************************************************************************)
EXTENDS Integers, Sequences, SequencesExt

CONSTANTS
  Base,         \* values of one byte (256 in the code)
  Slots,        \* finger slots a template can be stored in
  Drivers,      \* driver information the app binds to a slot
  LongInfo,     \* those of Drivers that do not fit the 34 bytes read back
  None,         \* no binding
  RecCap,       \* work records kept by print_all at power-on (256)
  Period,       \* seconds between two journal writes (5)
  BootDelay,    \* seconds setup() waits before it starts the finger tasks (2)
  BuildTime,    \* what the RTC is set to after it lost power
  AdjustTimes,  \* times the app may set the RTC to (BLE command 0x02)
  RtcFaults,    \* TRUE: the RTC may not answer, or may have lost power
  FramFaults,   \* TRUE: the FRAM may not answer the probe at power-on
  MaxLate,      \* bound: seconds of one ride for which task_8563 is kept waiting
  MaxTime,      \* bound: last second of the model
  MaxBoots      \* bound: number of power-ons

ASSUME ByteAssumption  == Base \in Nat /\ Base > 1
ASSUME SlotAssumption  == Slots \subseteq 1 .. (Base - 1)
ASSUME NoneAssumption  == None \notin Drivers /\ LongInfo \subseteq Drivers
ASSUME CountAssumption ==
  /\ RecCap \in Nat /\ Period \in Nat \ {0} /\ BootDelay \in Nat \ {0} /\ MaxBoots \in Nat
  /\ MaxLate \in Nat
ASSUME TimeAssumption  == /\ MaxTime \in Nat /\ MaxTime < Base * Base * Base * Base
                          /\ BuildTime \in Nat /\ BuildTime <= MaxTime
                          /\ AdjustTimes \subseteq 0 .. MaxTime
ASSUME FaultAssumption == RtcFaults \in BOOLEAN /\ FramFaults \in BOOLEAN

VARIABLES
  phase,     \* what task_8563 is doing; "off" when the power is cut
  clock,     \* esp32Time
  rtc,       \* the battery-backed clock
  timer,     \* seconds left of the delay at the end of the loop
  warmup,    \* seconds until setup() starts the finger tasks
  status,    \* blackboard.car_sta.deviceStatus
  authId,    \* blackboard.face_auth_id, 0 when nobody is authenticated
  onTime,    \* blackboard.car_sta.on_timestamp
  buf,       \* bytes[] of the write in progress
  pos,       \* how many of them have reached the FRAM
  fram,      \* the ten bytes at FRAM address 0
  cfg,       \* namespace finger_cfg: driver information by slot
  workRec,   \* namespace work_rec, in the order NVS iterates it
  boots,     \* power-ons so far (bound)
  \* History: what happened, for the properties only.
  rides,     \* one entry per authentication
  inFram,    \* index of the ride whose complete image is in the FRAM, or 0
  trimmed    \* keys of the records print_all has removed

volatile == <<phase, clock, timer, warmup, status, authId, onTime, buf, pos>>
flash    == <<cfg, workRec>>
history  == <<rides, inFram, trimmed>>
vars     == <<volatile, rtc, fram, flash, boots, history>>

Times  == 0 .. MaxTime
Bytes  == 0 .. (Base - 1)
Phases == {"off", "boot", "halt", "recover", "idle", "store"}

(***************************************************************************)
(* The image: store_data_to_bytes and extract_data_from_bytes.             *)
(***************************************************************************)
BytesOf(n) == LET n8 == n \div Base  n16 == n8 \div Base  n24 == n16 \div Base
              IN  <<n24 % Base, n16 % Base, n8 % Base, n % Base>>

\* Variant: the end is stored low byte first.
StoreEndSwapped(start, end, id) ==
  BytesOf(start) \o Reverse(BytesOf(end)) \o <<(id \div Base) % Base, id % Base>>

store_data_to_bytes(start, end, id) ==
  BytesOf(start) \o BytesOf(end) \o <<(id \div Base) % Base, id % Base>>

NoImage == store_data_to_bytes(0, 0, 0)

Word(b, i)   == ((b[i] * Base + b[i + 1]) * Base + b[i + 2]) * Base + b[i + 3]
StartOf(b)   == Word(b, 1)
EndOf(b)     == Word(b, 5)
SlotOf(b)    == b[9] * Base + b[10]
ImageLength  == 10

(***************************************************************************)
(* Flash.  Preferences::getBytes returns nothing for a missing key and for  *)
(* an entry longer than the buffer; putBytes of an equal value changes      *)
(* nothing, of a new value appends it and erases the old entry.             *)
(***************************************************************************)
DriverOf(slot) ==
  IF slot \in Slots /\ cfg[slot] \notin LongInfo THEN cfg[slot] ELSE None

KeyAt(recs, key) == {i \in 1 .. Len(recs) : recs[i].key = key}

\* Variant: an entry is stored without erasing the one it replaces.
PutDuplicate(recs, rec) == Append(recs, rec)

\* Variant: storing a record erases the rest of the namespace.
PutErasingOthers(recs, rec) == <<rec>>

putBytes(recs, rec) ==
  IF \E i \in KeyAt(recs, rec.key) : recs[i] = rec THEN recs
  ELSE IF KeyAt(recs, rec.key) = {} THEN Append(recs, rec)
  ELSE Append(RemoveAt(recs, CHOOSE i \in KeyAt(recs, rec.key) : TRUE), rec)

-------------------------------------------------------------------------------

Init ==
  /\ phase = "off" /\ clock = 0 /\ timer = 0 /\ warmup = 0
  /\ status = "DEV_ON" /\ authId = 0 /\ onTime = 0
  /\ buf = NoImage /\ pos = 0
  /\ fram = NoImage
  /\ rtc = BuildTime
  /\ cfg = [s \in Slots |-> None]
  /\ workRec = <<>>
  /\ boots = 0
  /\ rides = <<>> /\ inFram = 0 /\ trimmed = {}

(***************************************************************************)
(* Power-on: sys_deafuat() lists work_rec with print_all, which removes     *)
(* every entry after the first RecCap, before setup() starts any task.      *)
(***************************************************************************)
Trim(recs) == IF Len(recs) > RecCap THEN SubSeq(recs, 1, RecCap) ELSE recs

PowerOn ==
  /\ phase = "off"
  /\ boots < MaxBoots
  /\ boots' = boots + 1
  /\ phase' = "boot"
  /\ warmup' = BootDelay
  /\ workRec' = Trim(workRec)
  /\ trimmed' = trimmed \cup {workRec[i].key : i \in (RecCap + 1) .. Len(workRec)}
  /\ UNCHANGED <<clock, rtc, timer, status, authId, onTime, buf, pos, fram, cfg, rides, inFram>>

\* Variant: the loop is entered before the image of the last ride is read.
RtcStartNoRecovery ==
  /\ phase = "boot"
  /\ phase' = "idle"
  /\ rtc' = rtc
  /\ clock' = rtc'
  /\ UNCHANGED <<timer, warmup, status, authId, onTime, buf, pos, fram, flash, boots, history>>

\* task_8563 finds the RTC and copies it into esp32Time; an RTC that lost
\* power is first set to the time of the build.
RtcStart ==
  /\ phase = "boot"
  /\ phase' = "recover"
  /\ \/ rtc' = rtc
     \/ RtcFaults /\ rtc' = BuildTime
  /\ clock' = rtc'
  /\ UNCHANGED <<timer, warmup, status, authId, onTime, buf, pos, fram, flash, boots, history>>

\* rtc.begin() fails: the task never leaves its first loop.
RtcAbsent ==
  /\ phase = "boot" /\ RtcFaults
  /\ phase' = "halt"
  /\ clock' = 0
  /\ UNCHANGED <<rtc, timer, warmup, status, authId, onTime, buf, pos, fram, flash, boots, history>>

-------------------------------------------------------------------------------
\* What became of the ride whose image is being recovered (history).
Settle(outcome) ==
  rides' = IF inFram # 0 /\ rides[inFram].settled = "open"
           THEN [rides EXCEPT ![inFram].settled = outcome] ELSE rides

\* Variant: the result of getBytes is not tested.
RecoverUnbound ==
  /\ phase = "recover"
  /\ phase' = "idle"
  /\ timer' = 0
  /\ workRec' = putBytes(workRec, [key |-> StartOf(fram), driver |-> DriverOf(SlotOf(fram)),
                                   end |-> EndOf(fram)])
  /\ Settle("recorded")
  /\ UNCHANGED <<clock, rtc, warmup, status, authId, onTime, buf, pos, fram, cfg, boots,
                 inFram, trimmed>>

(***************************************************************************)
(* The FRAM answers the probe: read the image; when the slot it names is    *)
(* bound, file a record of that driver under the start time.  The image is  *)
(* not erased: the next power-on files it again.                            *)
(***************************************************************************)
Recover ==
  LET driver == DriverOf(SlotOf(fram))
      rec    == [key |-> StartOf(fram), driver |-> driver, end |-> EndOf(fram)]
  IN  /\ phase = "recover"
      /\ phase' = "idle"
      /\ timer' = 0
      /\ IF driver = None
         THEN workRec' = workRec /\ Settle("unbound")
         ELSE workRec' = putBytes(workRec, rec) /\ Settle("recorded")
      /\ UNCHANGED <<clock, rtc, warmup, status, authId, onTime, buf, pos, fram, cfg, boots,
                     inFram, trimmed>>

\* memory.begin() fails: the loop is entered without looking at the image.
RecoverSkipped ==
  /\ phase = "recover" /\ FramFaults
  /\ phase' = "idle"
  /\ timer' = 0
  /\ Settle("skipped")
  /\ UNCHANGED <<clock, rtc, warmup, status, authId, onTime, buf, pos, fram, flash, boots,
                 inFram, trimmed>>

-------------------------------------------------------------------------------
(***************************************************************************)
(* The loop of task_8563.  A loop pass without an authenticated rider only  *)
(* sleeps; otherwise the bytes are formed and sent in one I2C write, whose  *)
(* bytes the FRAM stores one by one.                                        *)
(***************************************************************************)

\* Variant: the loop may sleep although a rider is authenticated.
LoopIdleAlways ==
  /\ phase = "idle" /\ timer = 0
  /\ timer' = Period
  /\ UNCHANGED <<phase, clock, rtc, warmup, status, authId, onTime, buf, pos, fram, flash, boots,
                 history>>

LoopIdle ==
  /\ phase = "idle" /\ timer = 0 /\ authId = 0
  /\ timer' = Period
  /\ UNCHANGED <<phase, clock, rtc, warmup, status, authId, onTime, buf, pos, fram, flash, boots,
                 history>>

\* Variant: the loop waits for a status that only the journal pass sets.
LoopJournalWaiting ==
  /\ phase = "idle" /\ timer = 0 /\ authId # 0 /\ status = "DEV_AUTH"
  /\ buf' = store_data_to_bytes(onTime, clock, authId)
  /\ pos' = 0
  /\ phase' = "store"
  /\ UNCHANGED <<clock, rtc, timer, warmup, status, authId, onTime, fram, flash, boots, history>>

LoopJournal ==
  /\ phase = "idle" /\ timer = 0 /\ authId # 0
  /\ status' = "DEV_AUTH"
  /\ buf' = store_data_to_bytes(onTime, clock, authId)
  /\ pos' = 0
  /\ phase' = "store"
  /\ UNCHANGED <<clock, rtc, timer, warmup, authId, onTime, fram, flash, boots, history>>

WriteByte ==
  /\ phase = "store"
  /\ fram' = [fram EXCEPT ![pos + 1] = buf[pos + 1]]
  /\ IF pos + 1 = ImageLength
     THEN /\ phase' = "idle" /\ timer' = Period
          /\ buf' = NoImage /\ pos' = 0
          /\ inFram' = Len(rides)
          /\ rides' = [rides EXCEPT ![Len(rides)].durable = TRUE,
                                    ![Len(rides)].last = EndOf(buf)]
     ELSE /\ pos' = pos + 1
          /\ UNCHANGED <<phase, timer, buf, rides>>
          /\ inFram' = IF inFram = Len(rides) THEN inFram ELSE 0
  /\ UNCHANGED <<clock, rtc, warmup, status, authId, onTime, flash, boots, trimmed>>

-------------------------------------------------------------------------------
(***************************************************************************)
(* finger_auth recognises a finger: the slot goes to the blackboard, then   *)
(* the time; the task outranks task_8563 and does not block in between, so  *)
(* task_8563 sees both or neither.  The task then deletes itself: one ride  *)
(* per power-on.                                                            *)
(***************************************************************************)
Authenticate(slot) ==
  /\ phase \in {"idle", "halt"} /\ warmup = 0
  /\ authId = 0
  /\ authId' = slot
  /\ onTime' = clock
  /\ rides' = Append(rides, [start |-> clock, slot |-> slot, last |-> clock, ended |-> clock,
                             late |-> 0, durable |-> FALSE, settled |-> "open"])
  /\ UNCHANGED <<phase, clock, rtc, timer, warmup, status, buf, pos, fram, flash, boots, inFram, trimmed>>

\* The delay at the end of the loop is over, and the loop has not come round.
Due == phase \in {"idle", "store"} /\ timer = 0

(***************************************************************************)
(* One second.  It may pass while task_8563 is due or writes, for tasks of  *)
(* higher priority run as long as they like; the start and the recovery,    *)
(* in the first moments after power-on, take no time.                       *)
(***************************************************************************)
Tick ==
  LET now  == IF phase = "off" THEN clock ELSE clock + 1
      ride == Len(rides)
  IN  /\ phase \in {"off", "halt", "idle", "store"}
      /\ Due /\ authId # 0 => rides[ride].late < MaxLate
      /\ rtc < MaxTime /\ clock < MaxTime
      /\ rtc' = rtc + 1
      /\ clock' = now
      /\ timer' = IF timer > 0 THEN timer - 1 ELSE 0
      /\ warmup' = IF warmup > 0 THEN warmup - 1 ELSE 0
      /\ rides' = IF authId = 0 THEN rides
                  ELSE [rides EXCEPT ![ride].ended = now,
                                     ![ride].late = IF Due THEN @ + 1 ELSE @]
      /\ UNCHANGED <<phase, status, authId, onTime, buf, pos, fram, flash, boots, inFram, trimmed>>

\* The power is cut at any point; the blackboard is gone.
PowerOff ==
  /\ phase # "off"
  /\ phase' = "off"
  /\ clock' = 0 /\ timer' = 0 /\ warmup' = 0
  /\ status' = "DEV_ON" /\ authId' = 0 /\ onTime' = 0
  /\ buf' = NoImage /\ pos' = 0
  /\ UNCHANGED <<rtc, fram, flash, boots, history>>

-------------------------------------------------------------------------------
\* BLE command 0x54, and the removals of 0x55 and 0x09 (see FingerStore).
Bind(slot, driver) ==
  /\ phase \in {"halt", "idle", "store"}
  /\ cfg' = [cfg EXCEPT ![slot] = driver]
  /\ UNCHANGED <<volatile, rtc, fram, workRec, boots, history>>

Unbind(S) ==
  /\ phase \in {"halt", "idle", "store"}
  /\ cfg' = [s \in Slots |-> IF s \in S THEN None ELSE cfg[s]]
  /\ UNCHANGED <<volatile, rtc, fram, workRec, boots, history>>

\* BLE command 0x02 sets the RTC; esp32Time follows at the next power-on.
SetRtc(t) ==
  /\ phase \in {"halt", "idle", "store"}
  /\ rtc' = t
  /\ UNCHANGED <<volatile, fram, flash, boots, history>>

Task8563 == RtcStart \/ RtcAbsent \/ Recover \/ RecoverSkipped \/ LoopIdle \/ LoopJournal
            \/ WriteByte

Next ==
  \/ PowerOn \/ PowerOff \/ Tick
  \/ Task8563
  \/ \E slot \in Slots : Authenticate(slot)
  \/ \E slot \in Slots, driver \in Drivers : Bind(slot, driver)
  \/ \E S \in {{s} : s \in Slots} \cup {Slots} : Unbind(S)
  \/ \E t \in AdjustTimes : SetRtc(t)

Spec == Init /\ [][Next]_vars

\* The scheduler runs task_8563 when it is ready, and time passes.
Fairness == WF_vars(Task8563) /\ WF_vars(Tick)

FairSpec == Spec /\ Fairness

-------------------------------------------------------------------------------
(***************************************************************************)
(* Properties.                                                             *)
(***************************************************************************)
Record == [key : Nat, driver : Drivers, end : Nat]
Ride   == [start : Times, slot : Slots, last : Nat, ended : Times, late : Nat,
           durable : BOOLEAN, settled : {"open", "recorded", "unbound", "skipped"}]

\* Type invariant.
TypeOK ==
  /\ phase \in Phases /\ clock \in Times /\ rtc \in Times /\ timer \in 0 .. Period
  /\ warmup \in 0 .. BootDelay
  /\ status \in {"DEV_ON", "DEV_AUTH"} /\ authId \in Slots \cup {0} /\ onTime \in Times
  /\ buf \in [1 .. ImageLength -> Bytes] /\ pos \in 0 .. ImageLength
  /\ fram \in [1 .. ImageLength -> Bytes]
  /\ cfg \in [Slots -> Drivers \cup {None}] /\ workRec \in Seq(Record)
  /\ boots \in 0 .. MaxBoots
  /\ rides \in Seq(Ride) /\ inFram \in 0 .. Len(rides) /\ trimmed \subseteq Nat

(***************************************************************************)
(* Rewriting the image of a ride in place never damages it: once a ride has *)
(* been written completely, the FRAM names its start and its slot whatever  *)
(* byte a later write was cut at, and an end no earlier than the last write *)
(* that completed (store_data_to_bytes puts the high byte first).           *)
(***************************************************************************)
JournalHoldsRide ==
  inFram # 0 => /\ StartOf(fram) = rides[inFram].start
                /\ SlotOf(fram) = rides[inFram].slot
                /\ EndOf(fram) >= rides[inFram].last

(***************************************************************************)
(* The single FRAM image is not reused before it was read back: a ride once *)
(* written completely is still in the FRAM, or a later power-on has filed   *)
(* it, or found no usable binding for it, or found the FRAM silent.         *)
(***************************************************************************)
NoRideLost ==
  \A i \in 1 .. Len(rides) : rides[i].durable /\ i # inFram => rides[i].settled # "open"

(***************************************************************************)
(* As long as nobody turns the clock back, a ride that was filed keeps a    *)
(* record under its start time, through replays of the image, torn images   *)
(* and later rides, until print_all trims it; and the end on it falls short *)
(* of the moment the power was cut by a journal period, and the seconds for *)
(* which tasks of higher priority kept task_8563 waiting, at most.          *)
(***************************************************************************)
FiledRideKept ==
  \A i \in 1 .. Len(rides) :
    rides[i].settled = "recorded" =>
      \/ rides[i].start \in trimmed
      \/ \E k \in 1 .. Len(workRec) : /\ workRec[k].key = rides[i].start
                                     /\ workRec[k].end >= rides[i].last
                                     /\ workRec[k].end + Period + rides[i].late >= rides[i].ended

(***************************************************************************)
(* Between trims the list of work records grows by one entry at most, and a *)
(* ride is listed once, however often its image is replayed.                *)
(***************************************************************************)
WorkRecBounded ==
  /\ Len(workRec) <= RecCap + 1
  /\ \A i, j \in 1 .. Len(workRec) : workRec[i].key = workRec[j].key => i = j

(***************************************************************************)
(* The record of a ride that is no longer in the FRAM is final: no step     *)
(* changes it (only a trim removes it), so that rebinding a slot rewrites   *)
(* the driver of the latest ride at most.                                   *)
(***************************************************************************)
OlderRecordsFinal ==
  [][\A i \in 1 .. Len(rides), k \in 1 .. Len(workRec) :
        /\ rides[i].settled = "recorded" /\ workRec[k].key = rides[i].start
        /\ \E j \in 1 .. Len(rides) : j > i /\ rides[j].durable
        => workRec[k] \in ToSet(workRec') \/ workRec[k].key \in trimmed']_vars

(***************************************************************************)
(* A ride under way reaches the FRAM, unless the power is cut first (or the *)
(* delay of the loop lasts beyond the time bound of the model).             *)
(***************************************************************************)
RideJournaled ==
  (phase = "idle" /\ authId # 0) ~>
    \/ Len(rides) > 0 /\ rides[Len(rides)].durable
    \/ phase = "off"
    \/ timer > 0 /\ (rtc = MaxTime \/ clock = MaxTime)

===============================================================================
