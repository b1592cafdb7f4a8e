# Verification of the fingerprint lock firmware

TLA+ models of the firmware under `src/main/`: a vehicle lock on an ESP32-C3 (one
core, FreeRTOS, priority-preemptive, 1 ms tick) with a fingerprint sensor on a
UART, a battery-backed RTC and an FRAM on I2C, flash key-value stores (NVS), a BLE
service for an app, CAN, RFID and audio. `blackboard.h` defines `DEV_FG`, so the
fingerprint build is the one modelled: `task_finger` and `task_rfid` run, `task_face`
does not. The parser of the BLE commands is the same in both builds. Code under `src/components/` is vendored, apart from additions to
`Adafruit_Fingerprint.cpp` (marked `cjc`), which are modelled.

Contents: [inventory](#inventory), [modules](#modules), [runs](#runs),
[proofs](#proofs), [what the code does that is worth knowing](#what-the-code-does-that-is-worth-knowing),
[what is left out](#what-is-left-out), [plan](#plan).

## Inventory

| Part | State | Operations | Talks to |
|---|---|---|---|
| Ride journal, `app_time.cpp`, `FM24CLXX.cpp` | FRAM image (10 bytes), RTC, `esp32Time`, NVS `work_rec` | `task_8563`: recover the last ride at power-on, journal the current one every 5 s | blackboard (`face_auth_id`, `on_timestamp`), NVS `finger_cfg`, I2C |
| Start-up, `main.cpp` | - | `print_all` trims `work_rec`, tasks are started in a fixed order | all |
| BLE command path, `app_ble.cpp` | `rxValue`, `xSema_BLE`, value of the characteristic | `onWrite`, `task_cmd`, `parseDataCmd`, `cmd_reply`, `empty_all_dec` | sensor, NVS, RTC |
| BLE session, `app_ble.cpp` | `deviceConnected`, `oldDeviceConnected`, advertising | `onConnect`, `onDisconnect`, `ble_task_loop` | `fingerId_control` |
| Fingerprint sensor, `app_finger.cpp`, `Adafruit_Fingerprint.cpp` | template store, UART, `xSemaFINGER`, `fingerId_control`, NVS `finger_cfg` | `finger_auth`, `finger_collect_dec`, `fg_delete_one`, `empty_all_dec` | blackboard, BLE |
| Audio, `app_audio.cpp`, `audio_task.c`, `audio_player.cpp` | player state, queue of four, open files, amplifier pin | `play_mp3`, player task, callback, `audio_player_*` | called by all |
| I2C bus, `Wire.cpp` and its callers | one buffer each way, a mutex, an unfinished transaction | `beginTransmission`, `write`, `endTransmission`, `requestFrom`, `read` | clock, FRAM, card reader |
| CAN, `app_can.cpp`, `esp32_can_builtin.cpp` | `ifsend`, the driver's queue and state | `send_userMsg` cuts the rider's record into frames; watchdog | blackboard, NVS |
| RFID, `app_rfid.cpp` | `xSemaRFID`, card | reader loop, card writer | I2C, blackboard |
| Broker, `PubSubBroker.cpp` | queue of ten | `publish`, `subscribe`, dispatch task | face build only |
| Face module, `app_face.cpp`, `zc_face.cpp` | face-module session, NVS `face_cfg` | enrol, identify, delete, list | its task is not started in this build; commands 0x60-0x65 reach parts of it |
| Update, `app_ota.cpp`, `t_otac.c` | flash partition | download at start-up when WiFi is there | - |

The hard behaviours, and what makes each part correct:

* **Ride journal.** The end of a ride is a power cut, which may fall between any two
  bytes of the image, or after the journal task was kept waiting for seconds; the image is
  replayed at every power-on under bindings that may have changed; the clock can be set back. Correct means: a ride that reached the FRAM
  gets one record, keeps it until the trim, and later events do not rewrite it.
* **Command path.** Each write creates a task; a second write may arrive at any point
  of the first. Replies share a buffer with the requests. Correct means: commands are
  executed one at a time, from the frame the client meant, and replies are not mixed.
* **Sensor.** Templates (sensor) and drivers (flash) are related by the slot number
  only, and there is no transaction; three kinds of task share a UART and only two take
  the semaphore; an answer may come late or damaged, and names no command. Correct means:
  scan and enrolment exclude each other, and an unlock is never put down to a former
  owner of the slot.
* **Session.** A flag raised and lowered by callbacks is polled by another task, which
  one of higher priority can keep from the core for seconds (`app_finger.cpp:405-413`).
  Correct means: unless that happens, no connection is so short that advertising is never
  restarted.
* **I2C.** The buffer is read after the mutex is given back, with three tasks of
  different priority. Correct means: each gets the bytes of his own device.
* **Audio.** The state is assigned before the callback that acts on it; requests are
  looked at in one place and received in another; `audio_player_delete` frees what the
  task may still use. Correct means: an open file has one owner, and the amplifier is on
  while a sound is played and off afterwards.
* **CAN.** Frames are dropped in silence. Correct means: what other nodes receive is one
  message or the beginning of it, never one with a gap.

`PROJECT.json` lists every part with its status, and every hazard with the line where
it bites and the properties about it.

## Modules

Each component is one module with its state, one action per step of the code that
another task, the power switch or the client can tell apart, and its properties; `MC*`
modules are what TLC runs (constants' values, symmetry sets, a history variable);
`*Proofs` modules hold the theorems. `AudioApp` extends `AudioPlayer` (the firmware
around the library). Three small modules say what a component promises its users, and
the detailed module is shown to implement them under a refinement mapping:

| Promise | Implemented by | Mapping |
|---|---|---|
| `Session`: advertising, connected, silent, advertising again or lost | `BleSession` | `linkPhase`, what the app sees of the controller |
| `Executor`: one command at a time, dropped and not queued while another runs, no frame older than its write | `BleCommand` | a write is open while its task is ready, runs while the task is between take and give, with the frame it copied |
| `Exchange`: one command and its own answer, with what damaged and late answers cost | `SensorLink` | busy while the parser runs; `answered`, the command whose code was returned |

`FingerStore` contains the commands of `BleCommand` that reach the sensor, one at a time
as `Executor` has it; what it takes for granted of the link is `Exchange`.

### RideRecord

| Model | Code |
|---|---|
| `PowerOn` | `sys_deafuat` (`print_all("work_rec")`), `setup` |
| `RtcStart`, `RtcAbsent` | start of `task_8563` |
| `Recover`, `RecoverSkipped` | `memory.begin`, `readData`, `finger_cfg.getBytes`, `work_rec.putBytes` |
| `LoopIdle`, `LoopJournal`, `WriteByte` | the loop; `FM24CLXX::writeData`, one byte per step |
| `Authenticate` | `finger_auth` after a match |
| `Bind`, `Unbind`, `SetRtc` | commands 0x54, 0x55/0x09, 0x02 |
| `Tick`, `Due`, `PowerOff` | a second, for which `task_8563` may be kept waiting; the power switch |

The image and its packing are modelled byte by byte, with `Base` values per byte; the
driver information and the calendar fields are not. `rides`, `inFram` and `trimmed`
record what happened and appear in no guard but the one that bounds the model's delays.

Time. The `delay(5000)` of the loop starts after the write, and `task_8563` (priority 5)
runs when no task above it does: the download of a template (`app_finger.cpp:405-413`, in
`task_cmd`, priority 10) spins for up to 20 s when a byte of it was lost. So seconds may
pass while the loop is due and between any two bytes of a write; the field `late` of a ride
counts them, and `MaxLate` bounds them for TLC. `FiledRideKept` is stated in terms of `late`:
the end on file falls short of the power cut by a period and that delay, no more.

`JournalHoldsRide` is about the torn image: high byte first, and a slot and start that
do not change during a ride, are what keep it readable. `FiledRideKept` holds while nobody
sets the clock back (command 0x02, or an RTC that lost power): with a clock that goes back,
a later ride can take the start second, and so the key, of an earlier one.

### BleCommand

| Model | Code |
|---|---|
| `onWrite` | BLE stack's write event: value of the characteristic, `MyCallbacks::onWrite` |
| `TakeSema`, `Busy`, `CopyFrame`, `GiveSema` | `task_cmd` |
| `Execute` (`DoAnswered` ... `DoUnknown`), `SensorDone` | `parseDataCmd` |
| `SetValue`, `Notify` | `cmd_reply` |
| `EraseStores`, `EraserSetValue`, `EraserNotify` | `empty_all_dec` |
| `Restart` | `ESP.restart` of 0x08; the assertion 0x63 meets |

`Executor` says nothing of the semaphore: that it is what keeps commands apart is for the
refinement to show. A promise it does not make is that each write is executed once: two
tasks that are ready together may both read the later frame.

Priorities matter: the BLE stack preempts `task_cmd` (10), which preempts
`empty_all_dec` (5); the latter runs while every `task_cmd` is blocked, which the body of
a command may be on the RTC, the flash or the sensor. A copy of `rxValue` that is
overtaken by a write is a mixture (`Torn`), and the command executed is then any.
The codes are all those of `parseDataCmd`, those of the face module included, which no
build switch leaves out: 0x60 and 0x61 list, like 0x51, with any number of notifications;
0x64 writes `face_cfg` and replies; 0x65 waits for an answer on the UART; 0x63 takes
`xSema_FACE`, which is NULL since no task creates it, and `configASSERT` restarts the device.

`MCBleCommand` adds the history variable `patient`: the client has waited for a
notification before each write, and wrote nothing after a listing, which notifies
several times before the parser is free. That is what `PatientExact` needs. It is about the
commands that get the parser: one that arrives between the notification and
`xSemaphoreGive` is dropped like any other (`Busy`), however patient the client.

### FingerStore

| Model | Code |
|---|---|
| `AuthCheck` ... `AuthGive` | `finger_auth`, `getFingerprintID` |
| `Enroll`, `EnrollTake` ... `EnrollReply` | 0x53, `finger_collect_dec`, `getFingerprintEnroll`, `downloadFingerprintTemplate` |
| `Delete`, `DeleteTemplate`, `DeleteCount`, `DeleteBinding` | 0x55 |
| `Bind` | 0x54 |
| `DeleteFace`, `face_delete_one` | 0x65, `Zc_Face::deleteone` |
| `EraseAll`, `EraserSend`, `EraserEmpty`, `EraserClear` | 0x09, `empty_all_dec` |
| `onConnect`, `onDisconnect` | the server callbacks (`fingerId_control`) |
| `Send`, `Receive`, `Outcomes` | `writeStructuredPacket`, `getStructuredPacket` |
| `FreeSlot` | `ReadIndexTable` |

A request and its acknowledgement are two steps. An acknowledgement names no request;
once two exchanges have overlapped or one was answered late, `synced` is false and every
later result is arbitrary until a restart: an enrolment may then be told any id, one past
the last slot included (`Beyond`), and `finger_cfg` may bind it. An exchange can be
carried out and yet not acknowledged. 0x65 sends a frame of the face module's protocol down
the sensor's UART and takes no semaphore; it changes neither store, but reads what comes, the
answer to a scan included. `doubtful` (history) collects the slots for which such an error makes any
promise void; the properties exempt those slots and no others. The one-second wait for
the semaphore may time out as soon as the semaphore is taken.

`Careful` describes the client. A careful one waits for the reply of an erase before the
next command, binds the slot it was just given, and deletes single slots; `StoresAgree`,
`EnrolmentKept` and `RightDriver` are promises to it. `FingerStoreFree` runs the other
kind.

### SensorLink

| Model | Code |
|---|---|
| `Request` | `GET_CMD_PACKET`: a command is written, `getStructuredPacket` is entered |
| `Respond`, `RespondBroken` | the sensor (external) answers; the answer loses or gains a byte |
| `getStructuredPacket`: `Start`, `StartSecond`, `Fields`, `Body` | its switch, one byte per step |
| `TimeOut` | its time limit; an answer under way is then late |

The UART is a sequence of bytes that outlives the exchange: what one leaves, the next
reads. `FaultCostsOne` and `LagBounded` say when `FingerStore` may take the link to be in
step: as long as every answer comes in time, whatever bytes are lost. `Exchange` puts the
two together: an exchange ends with its own answer, or goes wrong on account of a damaged
answer that has not been paid for, or of a late one.

### AudioPlayer and AudioApp

| Model | Code |
|---|---|
| `audio_player_new`, `..._callback_register`, `..._play`, `ControlRequest` | the calls of `audio_player.cpp` |
| `DeleteCall`, `DeleteStop`, `DeleteShutdown`, `DeleteDelay`, `DeleteCleanup` | `audio_player_delete`, `cleanup_memory` |
| `LoopIdle`, `LoopPlay`, `LoopShutdown`, `LoopIgnore`, `EndTask` | `audio_task` |
| `OpenFile`, `PlayPause`, `Leave`, `PlayDiscard`, `Decode`, `PausedDiscard`, `PausedResume`, `CloseFile` | `aplay_file` |
| `Callback`, `set_state` | `set_state`, `dispatch_callback` |
| `StartAmp`, `StartPlayer`, `StartCallback`, `StartCoin` | `task_audio` (`AudioApp`) |
| `AmpOn`, `CheckIdle`, `OpenAndPlay` | `play_mp3_dec` (`AudioApp`) |
| `audio_player_callback` | the same in `audio_task.c` (`AudioApp`) |

`file` says who owns each open file: the caller, the player, nobody (closed), or nobody
although it is open (`"lost"`). `overtaken` and `missing` in `AudioApp` are history: they
name the two situations in which the amplifier is not what the sound needs.
`meanwhile` is history, too: the requests that other tasks got into the queue since
`audio_player_delete` was called. A task that lost its queue that way (`Orphaned`) is
followed no further, and no new player is created beside it. `QueueOutlivesTask` says that the queue is freed under
a running task only if they are at least as many as the attempts but one: the first
attempt finds the queue as the clients left it and may fail without anybody's doing.

### Session and BleSession

`Session` is what the app sees: advertising, connected, silent, and advertising again, or
lost. `BleSession` is how the firmware does it, in ticks of 100 ms:

| Model | Code |
|---|---|
| `Connect`, `Disconnect` | the controller (external) |
| `onConnect`, `ConnectReturns`, `onDisconnect` | `MyServerCallbacks`, with the `delay(1000)` in `onConnect` |
| `LoopGone`, `LoopElse`, `startAdvertising`, `KeepFlag`, `LoopConnecting` | `ble_task_loop` |
| `WakeUp` | `delay(400)` in `task_ble` |
| `Tick` | time, for which `task_ble` may be kept waiting |

The stack's task outranks all others; `task_ble` has priority 5, and may be kept waiting at
every line by a `task_cmd` (`app_finger.cpp:405-413`, up to 20 s). `late` counts that for the
present pass of its loop, `worst` for the longest; `MaxLate` bounds it for TLC, and the
properties hold for any bound.

`Lost` is a state the code gets into and never leaves: nobody is connected, nothing is
advertised, and both flags are down, so that `task_ble` sees nothing to do. It happens when a
client connects and leaves while `task_ble` does not run: client A leaves during an enrolment,
B connects after advertising has resumed, the download of A's template begins to spin before
`task_ble` has polled, and B leaves meanwhile. `LostOnlyIfStarved` says how much it takes:
`task_ble` must have been kept waiting for the second of `onConnect` less its own sleep, so
0.6 s; TLC finds such a state at exactly that.

### TwoWire

| Model | Code |
|---|---|
| `beginTransmission`, `write`, `endTransmission`, `EndGive`, `requestFrom`, `RequestGive`, `RequestReturn`, `read` | the same of `TwoWire`, parted where the mutex is taken or given back and where the driver blocks |
| `i2cWrite`, `i2cRead` | the I2C driver (external) |
| `Startup`, `WakeJournal`, `SkipAdjust` | the accesses of `task_8563` |
| `WakeCmd`, `CmdNow` | commands that read or set the clock |
| `WakeRfid` | the accesses of `rc522_dec` (`MFRC522_I2C.cpp`) |
| `MayRun` | one core, priorities 5, 10 and 15, with the inheritance of a FreeRTOS mutex |

A byte is the name of the device it came from, which is all the properties compare.

### CanRider

| Model | Code |
|---|---|
| `Begin`, `sendFrame`, `Finish` | `send_userMsg`, with `countNonZeroElements`, and `sendFrame` of `esp32_can_builtin.cpp` |
| `Transmitted`, `BusOff`, `Recovered` | the TWAI driver (external) |
| `CAN_WatchDog_Builtin` | the same task |

Sizes are the real ones. The bytes of a record are all different, so that a byte in the
wrong place shows.

## Runs

| Run | Question | Bounds |
|---|---|---|
| `RideRecord` | journal, list and trim, no clock changes | 2 slots, 2 drivers, 4 power-ons, period 1 s, 1 s late, 4 s, `Base` 3, list of 1 |
| `RideRecordFaults` | RTC and FRAM faults, clock set back; a ride reaches the FRAM | 1 slot, 2 drivers (one whose information is too long), 3 power-ons, period 1 s, 1 s late, 2 s, `Base` 2, list of 1 |
| `BleCommand` | serial execution, stale frames, mixed replies, exact delivery to a patient client; parser and writes make progress; refinement of `Executor` | 2 writes, 10 codes (of those answered once, 0x54 stands for all), listings of up to 2 |
| `FingerStore` | careful client: sensor against flash, right driver | 2 slots, 2 fingers, 4 commands, 1 restart, faults |
| `FingerStoreFree` | any client: exclusion, replacement; the scanner comes back | 2 slots, 2 fingers, 1 eraser, 2 commands, 1 restart, faults |
| `SensorLink` | what late and damaged answers cost; exchanges end; refinement of `Exchange` | 4 commands, 3 faults (1 with a byte too many), answers of 3 bytes |
| `AudioPlayer` | files, queue and task under any client; accepted files are closed | 2 files, queue of 4, 3 attempts, 3 requests, 2 lives |
| `AudioApp` | amplifier | 4 files, 2 callers |
| `BleSession` | lost advertising, silence, refinement of `Session` | the real waits, `task_ble` starved for up to 800 ms in each pass |
| `TwoWire` | the bus under preemption and failing devices | transfers of 3, 2 and 2 bytes |
| `TwoWireNow` | what a command reads from the clock (expected to fail) | the same |
| `CanRider` | gaps, completeness | records of 0 to 36 bytes (34 fit) |

Why these bounds do.

* `RideRecord`: a list bounded at one record and four power-ons make the trim, a replay
  after a rebinding and a ride after a trimmed one happen; `Base` 3 with times up to four
  makes the low byte carry, which is when a torn image differs from both its parents. One
  second late and a period of one second suffice for a ride of two journal writes that is
  short of the cut by both.
* `BleCommand`: two writes are one executing and one overtaking it, or one executing and
  one waiting; the theorems carry the safety properties to any number.
* `FingerStore`: two slots, two fingers and four commands allow enrol, bind, delete and
  enrol another finger into the same slot, which is the way to a wrong driver.
* `SensorLink`: with four commands a damaged answer has two successors that could still be
  mixed up. Two bytes too many do put the link out of step for one command
  (`FaultCostsOne` says so), hence `MaxAdded = 1`.
* `AudioPlayer`: two requests are as many as the attempts of `audio_player_delete` but one,
  and a third fills the queue for the first attempt: with three of them TLC reaches the
  queue freed under the task, with two it does not.
* `BleSession`: 800 ms are more than the 600 ms that it takes to lose the device; the
  theorems carry the safety properties to any starvation.
* `AudioApp`: four sounds let a request be overtaken and another one follow.
* `TwoWire`: a transfer of two bytes can be preempted between its bytes, which is the only
  thing the length decides.

Deadlock is checked in `BleSession`, `TwoWire` and `TwoWireNow`, whose tasks never end.
The others say `CHECK_DEADLOCK FALSE`: the power may stay off, clients may stop calling,
`send_userMsg` works once, and bounded counters run out. Symmetry is used where drivers or
fingers are only compared and no liveness is checked (`RideRecord`, `FingerStore`); the runs
with liveness use none.

Every property of a run comes with a mutant: a variant of one definition, kept next to
it and marked `Variant`, that breaks the property.

Fairness. `RideRecord`: `task_8563` runs when it is ready and time passes. `BleCommand`:
every task that can run does, except that an enrolment waits for a finger without limit
(the second image loop has none), so `ParserComesBack` exempts it. `FingerStore`: the
scanner and the command task run (both block often enough for the others) and an
exchange ends, because `getStructuredPacket` has a time limit; nobody has to connect,
write or touch the sensor. `SensorLink`: the sensor answers, the parser reads, the limit
passes. `AudioPlayer` and `AudioApp`: the player's task runs and a file has an end;
`task_audio` and a caller that has begun go on; nobody has to call. `BleSession`: time
passes and the tasks run, `task_ble` in the end, since no command spins for ever. `TwoWire`: a task that may run does, and transfers end, with or
without an acknowledgement; the priorities are in the guards, so that starvation would
show. `CanRider`: the task runs and other nodes acknowledge frames.

## Proofs

Checked by TLAPS for every value of the constants that the named assumptions allow.
The type invariants are proved for every module and checked by a run in `RideRecord` only.

* `RideRecordProofs`: `TypeCorrect`, `RideNotLost` (`NoRideLost`), `RecordsBounded`
  (`WorkRecBounded`). The inductive invariant `IInv` adds to the types that a rider has a
  ride (`JournalState`), and that the image of an open ride is read before the loop that
  overwrites it is entered (`ImageRead`): recovery stands between power-on and the loop on
  every path, which is the whole argument. For the list: it is trimmed before recovery can
  add to it (`Trimmed`), and `putBytes` erases what it replaces (`PutDistinct`).
  About the image: `ImageHoldsRide` (`JournalHoldsRide`). `RideNow` relates blackboard and ride, `Writing` the buffer and the
  bytes already stored, `ImageNow` the image of the ride under way. The arithmetic is in
  `WordOfBytes` (four bytes are the number) and `MixedWord` (bytes of a later number
  followed by bytes of an earlier one are a number no smaller than the earlier one), by
  comparing quotients from the high byte on. For a clock that is not set back
  (`ForwardClock`: no RTC faults, no command 0x02) also `FiledKept` (`FiledRideKept`, with
  the delays of the journal, however long) and `OlderFinal` (`OlderRecordsFinal`), about
  what a torn image may mix. `From` names the time
  each byte of the FRAM was written from: within a word those times do not increase, since
  every write is of a later time and starts at the front. So a word is no smaller than the
  time of its last byte (`SourcesWord`), and the last byte has seen every complete write:
  what is filed ends no earlier than any ride written, and starts no earlier than any
  (`ReadNotEarlier`), hence replaces no older record. `StartsApart` needs `BootDelay`: two
  rides cannot start in one second.
* `BleCommandProofs`: `TypeCorrect`, `Serial`, `Fresh`, `Unmixed`, `PatientServed`
  (`PatientExact`). `IInv` adds that tasks exist only for writes that happened, that the
  semaphore names the one task between take and give, that `rxValue` is no older than any
  task that may still read it, that a task replies only while it has replies left, and that
  what a task is about to notify is its own reply or a later frame. The last part uses the
  priorities: `empty_all_dec` is not enabled while a `task_cmd` stands between `setValue`
  and `notify`. For the patient client `PInv` adds that an answered write is over: its task
  will not look at `rxValue` again and its eraser is gone, so that there is one
  notification to wait for. `PatientServed` says that what is executed is what was written,
  not that everything is executed. `ExecutorImplemented` is the refinement of `Executor`
  (`ImplementsExecutor`), one lemma per kind of step: `WriteOpens`, `ReadyDecides`,
  `CopyReads`, `WorkHidden`, `GiveEnds`, `RestartLoses`. Beyond `IInv` it needs that
  `rxValue`, and what a task has seen in it, are writes that happened (`KnownFrames`): a
  copy can be a mixture only if the two differ, and then a later write has come.
* `FingerStoreProofs`: `TypeCorrect`, `SemaphoreHeld`, `Exclusion` (`LinkExclusion`),
  `ScanOnce` (`SessionScanOnce`), `NoneReplaced` (`TemplatesNotReplaced`) for any client;
  `StoresCorrect`, `EnrolmentCorrect` and `OwnerUnlocks` (`StoresAgree`, `EnrolmentKept`,
  `RightDriver`) for a careful one. `Access` adds to `SemaHeld` where each task can have a
  request under way; `LateScan` that a scanner waiting for the semaphore while a client is
  connected has not scanned yet; `Chosen` that the slot an enrolment chose stays free until
  it stores, because only it stores. `Agreement` is the whole of what the careful client
  relies on: one command at a time, where an enrolment and a delete stand and what they
  have done to the slot, and what the client was told. Only the exempted slots can differ,
  and they are exempted by the step that makes them differ.
* `BleSessionProofs`: `TypeCorrect`, `LostOnlyIfStarvedHolds`, `SilenceBoundedHolds` and
  `SessionImplemented`, the refinement of the safety part of `Session`, for any starvation
  of `task_ble`. `Delivered`, `OnAir`, `Waits`, `Held`, `Gone`, `Known` and `Quiet` follow one
  connection through the event queue, the flag and the poll. `Held` is the argument: as long
  as `task_ble` has not seen a client, the part of the second that `onConnect` has held the
  stack's task is no longer than `task_ble` has slept and been kept waiting; so the flag goes
  down unseen only after a starvation of the difference (`Known`).
* `TwoWireProofs`: `TypeCorrect`, `SentIsOwn` (`TransmissionOwn`), `BytesAreOwn`
  (`NoForeignByte`). `Locking` says where the owner of the mutex can be, `Sending` that the
  send buffer is its work, `Taken` who takes bytes and that a transfer starts with an empty
  buffer. The receive buffer is read without the mutex: `LockOutranks` says that whoever
  takes the mutex outranks everybody still taking bytes, and `Unread` that bytes left in
  the buffer belong to the highest of these, who takes them before the others run again
  and leaves an exhausted buffer.
* `CanRiderProofs`: `TypeCorrect`, `MessageBegun` (`NoGap`), `MessageWhole` (`RiderWhole`).
  `InOrder` says that received and queued frames are a beginning of the message as long as
  the driver runs, which takes that the longest message fits the queue, so that no frame is
  refused before the bus goes off; `Within` that the length found covers the record.
  `Place` is the arithmetic of the pieces.
* `AudioPlayerProofs`: `TypeCorrect` (with `Attempts`: a delete that goes on has an attempt
  left), and `FilesKept` (`FilesOwned`) for a player that is created once, as the firmware
  does. `Owned` says where an accepted file is, `HasFile` when the task has one,
  `CreatedOnce` that nothing precedes the creation. `QueueKept` (`QueueOutlivesTask`) for a
  queue of two places or more, which the two requests of an attempt need. `Stopping` and
  `Ending` follow them: once both are in the queue with nothing in front that could hold
  the task up, it ends within the delay. `Charged` counts: every attempt but the
  first has failed for a request of its own, or is the present one, which began with an
  empty queue and has met nobody's request (`Undisturbed`); such an attempt succeeds.
  `AppImplementsPlayer` is that `AudioApp`, the firmware's start-up and its callers, does to
  the player only what `AudioPlayer` allows: each of its steps is a step of `AudioPlayer`,
  or leaves the player alone. So `AppFilesKept` (`FilesOwned`) needs no bound on the
  creations: the firmware creates one player (`StartedOnce`). `SoundsHeard`
  (`AmpOnWhilePlaying`): `AmpInv` adds that the player becomes idle in its loop only, and that
  the amplifier is on unless the sound's request was overtaken or nobody has asked for a
  sound (`Quiet`).
* `SensorLinkProofs`: `TypeCorrect`, which is that the parser stays inside
  `packet->data` and its 16-bit length whatever arrives; `DamageCostsOne` (`FaultCostsOne`),
  `LagKept` (`LagBounded`) and the refinement of `Exchange`, `ExchangeImplemented`
  (`ImplementsExchange`), for any number of commands, of faults, and any length of the
  answers. `MaxAdded <= 1` is a hypothesis of the last three: with two bytes too many they
  are false, as TLC shows. `Length < 99`, of the last two, only keeps the model's codes
  (`Code(n)` is 100 + n) apart from the length field.
  For the first, `InTime` says what the UART holds while no answer has been late: between
  exchanges no start byte but an added one at the very end (`Over`); during one, rubbish
  without a start byte and then the answer, intact up to an added byte (`Skipping`,
  `Tracking`), or a rest without a packet in it (`Spoiled`) or no answer yet (`Awaiting`),
  and in each case in which the exchange can go wrong there are more damaged answers than
  failed exchanges (`Credit`). For the second, the invariant holds for some assignment `of`
  of commands to the bytes in the UART (`Lags`): a start byte leads the parser into the
  answer it belongs to or, at the end of it, into the next (`Fresh`); a byte lost from a
  length or a code ends an exchange early and never late, since the parser then stops
  within the answer it is in, and of two start bytes in one answer one was added (`Pairs`,
  `Ends`).

Only model-checked: `FilesOwned` over several lives of the player, which the firmware does
not have; and all liveness, with the liveness part of the refinement of `Session`
(`Implements`): fairness and `ENABLED` are out of the prover's reach. `SessionImplemented`
proves the safety part of it, `ImplementsSafe`.

## What the code does that is worth knowing

`TwoWireNow` refutes what `RTC_PCF8563.cpp` says of `now()`: `requestFrom` gives the mutex
back before its caller has taken the bytes, and a command that reads the clock, preempted
there by the card reader, converts an exhausted buffer. The bytes it gets are never those
of another device (`NoForeignByte`): they are -1. Until the task of the card reader
exists, which is while `task_8563` reads clock and ride at start-up, nothing preempts.

Seen while modelling, and stated in the properties as conditions rather than as runs:

* A player that is told to stop while paused closes its file and stays in `PAUSE`
  (`AcceptedClosed` exempts that state); the firmware never pauses.
* A command answered late by the sensor leaves its answer for the next: an OK may belong
  to an older command by as many as were late (`LagBounded`).
* A torn image can give an end *later* than the last write, by what the lower bytes can
  express; `JournalHoldsRide` bounds it from below only.
* After a bus-off nobody starts the TWAI driver again, and `sendFrame` goes on returning
  true: `RiderTold` ends there.
* `send_userMsg` reads the namespace `face_cfg`, while fingers are bound in `finger_cfg`: unless
  the app has also sent 0x64 for the rider's number, the message announces one byte, which
  is 0 (`n = 0` in `Begin`), or 47 if the byte after the array is not 0.
* Command 0x63 restarts the device: `xSema_FACE` is NULL in this build. 0x65 speaks the face
  module's protocol on the fingerprint sensor's UART, without a semaphore (`LinkExclusion`
  excepts it).
* The download of a template spins for up to 20 s at priority 10 when a byte was lost. While
  it does, nothing is journaled, and a client that comes and goes is not noticed: the device
  then does not advertise again until it is switched off (`Lost`).
* A client that answers a notification at once may find the parser busy: `task_cmd` gives
  `xSema_BLE` back after it has notified, and the command is dropped.
* A sound requested in the moment between `IDLE` and its callback is played with the
  amplifier off (`overtaken`); one whose file is missing leaves it on (`missing`).

## What is left out

* Formats: command frames, the layout of a filed record, texts, logs, LED, and decoding.
* The face module's own task and the broker: the fingerprint build starts neither, and the
  face build does not compile as it stands (`blackboard.h:9` defines `DEV_FG`; without it
  `main.cpp:83` is an `#elif` without a condition). What the commands 0x60-0x65 do is
  modelled but for the contents of `face_cfg`, which nothing else is related to but the
  record that `send_userMsg` reads.
* `BleSession`: a restart, which raises advertising anew.
* The update over WiFi, which runs alone and is a sequence of library calls.
* A sensor that is not found at start-up (`xSemaFINGER` stays NULL), and an FRAM that
  answers the probe and then fails a read (uninitialised bytes are filed). Both are listed
  as hazards without a property.
* `TwoWire`: the initialisation of the reader, the STOP bit that `start()` may clear in
  the clock, slave mode, speed and time-outs.
* `CanRider`: reception, which the firmware does not use, and other nodes' identifiers.
* `AudioPlayer`: a new player beside a task that a delete left running, failing allocations, WAV files against MP3 files.
* The protocol with RFID cards; `TwoWire` has the reader's accesses to the bus.
* A link out of step is arbitrary in FingerStore rather than shifted by one answer;
  `SensorLink` has the details.

The repository carries the Arduino core, its examples and several libraries; the code
that is the firmware's own and runs in this build is what the modules cover, with the
library functions whose behaviour it depends on (`Wire`, the fingerprint library, the
audio player, the CAN library).

## Plan

Done, in this order: `RideRecord`, `BleCommand`, `FingerStore`; `AudioPlayer` and
`AudioApp`; `BleSession` with the abstract `Session` and the refinement; `TwoWire`;
`CanRider`; `SensorLink`; the proofs above; `Exchange` and `Executor` with their
refinements.

Worth adding next:

1. An abstract list of rides that `RideRecord` implements (a ride is recorded or lost
   atomically at the power cut).
2. A bus whose transfers are atomic, implemented by `TwoWire`, and a channel that delivers
   a beginning of each message, implemented by `CanRider`.
3. `FingerStore` on top of `Exchange` in place of its own, coarser link.
4. The two hazards without a property, and the face build once it compiles.
