----------------------------- MODULE BleSession -----------------------------
(***************************************************************************)
(* The BLE session of app_ble.cpp.  The controller stops advertising when  *)
(* a client connects.  Its events reach MyServerCallbacks in order, in the *)
(* one task of the BLE stack; onConnect raises deviceConnected and then    *)
(* holds that task for a second.  Advertising is restarted by another      *)
(* task: task_ble looks at the flag every 400 ms, and if it is down and    *)
(* was up the last time it looked, it waits 500 ms and restarts.           *)
(*                                                                         *)
(* Time is counted in ticks of 100 ms.  The stack's task has the highest   *)
(* priority, so Tick waits for what it has to do.  task_ble has a low one: *)
(* one command can keep it from the only core for seconds (app_finger.cpp  *)
(* 405-413), at any line, and the client may come and go meanwhile.        *)
(***************************************************************************)
EXTENDS Integers, Sequences

CONSTANTS
  ConnectDelay,  \* delay(1000) in onConnect
  Poll,          \* delay(400) in task_ble
  Pause,         \* delay(500) in ble_task_loop
  MaxLate        \* for how long a pass of task_ble may be kept from the core

ASSUME SessionAssumption ==
  /\ ConnectDelay \in Nat \ {0} /\ Poll \in Nat /\ Pause \in Nat /\ MaxLate \in Nat

VARIABLES
  link,                \* is a client connected, on the air?
  advertising,
  events,              \* events the stack's task has still to deliver
  hold,                \* ticks onConnect still holds the stack's task, or -1
  deviceConnected, oldDeviceConnected,
  poll,                \* where task_ble is
  timer,               \* ticks until it goes on
  late,                \* history: ticks for which this pass of it has been kept waiting
  worst,               \* history: and the most of any pass
  silence              \* history: ticks without a client and without advertising

vars == <<link, advertising, events, hold, deviceConnected, oldDeviceConnected,
          poll, timer, late, worst, silence>>

radio == <<link, advertising, worst, silence>>
loop == <<oldDeviceConnected, poll, timer, late>>

\* From the loss of a client to advertising: the rest of onConnect, a sleep of
\* task_ble and its pause, and what it is kept waiting on the way, over two passes.
MaxSilence == ConnectDelay + Poll + Pause + 2 * worst

TypeOK ==
  /\ link \in BOOLEAN /\ advertising \in BOOLEAN
  /\ events \in {<<>>, <<"connect">>, <<"disconnect">>, <<"connect", "disconnect">>}
  /\ hold \in -1..ConnectDelay
  /\ deviceConnected \in BOOLEAN /\ oldDeviceConnected \in BOOLEAN
  /\ poll \in {"check", "pause", "advertised", "connecting", "sleep"}
  /\ timer \in Nat /\ late \in Nat /\ worst \in Nat /\ silence \in Nat

\* ble_task_setup has started advertising.
Init ==
  /\ link = FALSE /\ advertising = TRUE
  /\ events = <<>> /\ hold = -1
  /\ deviceConnected = FALSE /\ oldDeviceConnected = FALSE
  /\ poll = "check" /\ timer = 0
  /\ late = 0 /\ worst = 0 /\ silence = 0

-----------------------------------------------------------------------------
(* The client and the stack. *)

Connect ==
  /\ advertising
  /\ link' = TRUE /\ advertising' = FALSE
  /\ events' = Append(events, "connect")
  /\ UNCHANGED <<hold, deviceConnected, loop, worst, silence>>

Disconnect ==
  /\ link
  /\ link' = FALSE
  /\ events' = Append(events, "disconnect")
  /\ UNCHANGED <<advertising, hold, deviceConnected, loop, worst, silence>>

StackFree == hold = -1

\* Variant: onConnect returns at once.
onConnectShort ==
  /\ StackFree /\ events # <<>> /\ Head(events) = "connect"
  /\ events' = Tail(events)
  /\ deviceConnected' = TRUE
  /\ UNCHANGED <<hold, radio, loop>>

onConnect ==
  /\ StackFree /\ events # <<>> /\ Head(events) = "connect"
  /\ events' = Tail(events)
  /\ deviceConnected' = TRUE
  /\ hold' = ConnectDelay
  /\ UNCHANGED <<radio, loop>>

ConnectReturns ==
  /\ hold = 0
  /\ hold' = -1
  /\ UNCHANGED <<events, deviceConnected, radio, loop>>

onDisconnect ==
  /\ StackFree /\ events # <<>> /\ Head(events) = "disconnect"
  /\ events' = Tail(events)
  /\ deviceConnected' = FALSE
  /\ UNCHANGED <<hold, radio, loop>>

-----------------------------------------------------------------------------
(* task_ble. *)

\* Variant: the connection of now is not looked at.
LoopGoneUnchecked ==
  /\ poll = "check" /\ oldDeviceConnected
  /\ poll' = "pause" /\ timer' = Pause
  /\ UNCHANGED <<events, hold, deviceConnected, radio, oldDeviceConnected, late>>

\* Variant: task_ble sleeps once more before it restarts.
LoopGoneLong ==
  /\ poll = "check" /\ ~deviceConnected /\ oldDeviceConnected
  /\ poll' = "pause" /\ timer' = Poll + Pause
  /\ UNCHANGED <<events, hold, deviceConnected, radio, oldDeviceConnected, late>>

\* ble_task_loop finds that the client has gone.
LoopGone ==
  /\ poll = "check" /\ ~deviceConnected /\ oldDeviceConnected
  /\ poll' = "pause" /\ timer' = Pause
  /\ UNCHANGED <<events, hold, deviceConnected, radio, oldDeviceConnected, late>>

\* It finds that nobody has gone.
LoopElse ==
  /\ poll = "check" /\ (deviceConnected \/ ~oldDeviceConnected)
  /\ poll' = "connecting"
  /\ UNCHANGED <<events, hold, deviceConnected, radio, oldDeviceConnected, timer, late>>

startAdvertising ==
  /\ poll = "pause" /\ timer = 0
  /\ advertising' = TRUE
  /\ silence' = 0
  /\ poll' = "advertised"
  /\ UNCHANGED <<link, events, hold, deviceConnected, oldDeviceConnected, timer, late, worst>>

\* deviceConnected is read again; a client may have connected by now.
KeepFlag ==
  /\ poll = "advertised"
  /\ oldDeviceConnected' = deviceConnected
  /\ poll' = "connecting"
  /\ UNCHANGED <<events, hold, deviceConnected, radio, timer, late>>

\* The second test of ble_task_loop, after which task_ble sleeps.
LoopConnecting ==
  /\ poll = "connecting"
  /\ oldDeviceConnected' = (oldDeviceConnected \/ deviceConnected)
  /\ poll' = "sleep" /\ timer' = Poll /\ late' = 0
  /\ UNCHANGED <<events, hold, deviceConnected, radio>>

WakeUp ==
  /\ poll = "sleep" /\ timer = 0
  /\ poll' = "check"
  /\ UNCHANGED <<events, hold, deviceConnected, radio, oldDeviceConnected, timer, late>>

-----------------------------------------------------------------------------

Aged(n) == IF n > 0 THEN n - 1 ELSE n

\* Nobody is there, and both flags are down: task_ble finds nothing to do, now and
\* for ever, and the device cannot be reached until it is switched off.
Lost ==
  /\ ~link /\ ~advertising /\ events = <<>>
  /\ ~deviceConnected /\ ~oldDeviceConnected

\* 100 ms pass.  The stack's task is never late; task_ble may be.
Tick ==
  /\ hold # 0 /\ (StackFree => events = <<>>)
  /\ \/ timer > 0 /\ UNCHANGED <<late, worst>>
     \/ /\ timer = 0 /\ late < MaxLate
        /\ late' = late + 1
        /\ worst' = IF worst > late THEN worst ELSE late + 1
  /\ hold' = Aged(hold)
  /\ timer' = Aged(timer)
  /\ silence' = IF link \/ advertising \/ Lost THEN 0 ELSE silence + 1
  /\ UNCHANGED <<link, advertising, events, deviceConnected, oldDeviceConnected, poll>>

Device ==
  \/ onConnect \/ ConnectReturns \/ onDisconnect
  \/ LoopGone \/ LoopElse \/ startAdvertising \/ KeepFlag \/ LoopConnecting \/ WakeUp
  \/ Tick

Next == Connect \/ Disconnect \/ Device

Spec == Init /\ [][Next]_vars

\* Time passes and the device's tasks run; nobody has to connect or to leave.
FairSpec == Spec /\ WF_vars(Device)

-----------------------------------------------------------------------------
(* Properties. *)

\* The device is lost to its clients only if a pass of task_ble has been kept
\* waiting for the second that onConnect takes, less its own sleep: with any
\* shorter delays it sees every connection, however short, before the flag goes
\* down again (app_ble.cpp 164 against 873, 846 and 854).
LostOnlyIfStarved == Lost => worst >= ConnectDelay - Poll

\* A device that is not lost is not silent for longer than the waits add up to,
\* and twice what task_ble has been kept waiting.
SilenceBounded == silence <= MaxSilence

\* The phase of the promise that the stack's flags stand for.
linkPhase ==
  IF link THEN "connected" ELSE IF advertising THEN "advertising"
  ELSE IF Lost THEN "lost" ELSE "silent"

\* The server implements the promise of Session.
Promise == INSTANCE Session WITH phase <- linkPhase

Implements == Promise!Spec
ImplementsSafe == Promise!Safe
=============================================================================
