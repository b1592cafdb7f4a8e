------------------------------ MODULE FingerStore ------------------------------
(***************************************************************************)
(* The fingerprint sensor and the tasks that use it (app_finger.cpp and the *)
(* fingerprint commands of app_ble.cpp).                                    *)
(*                                                                         *)
(* Templates live in the sensor, driver information in the NVS namespace    *)
(* finger_cfg; nothing but the slot number relates the two.  Three kinds of *)
(* task talk to the sensor over one UART:                                   *)
(*   - finger_auth scans for a finger and unlocks, unless a client is       *)
(*     connected (fingerId_control);                                        *)
(*   - the command parser enrols (0x53), binds (0x54) and deletes (0x55),   *)
(*     one command at a time (see BleCommand), and its 0x65 speaks the      *)
(*     protocol of the face module on the same UART;                        *)
(*   - empty_all_dec erases everything (0x09).                              *)
(* Scan and enrolment take xSemaFINGER; the deletes and the erase do not.   *)
(*                                                                         *)
(* An exchange (a request, then its acknowledgement) is two steps.  Nothing *)
(* in the protocol says which request an acknowledgement answers: when two  *)
(* exchanges overlap, or an acknowledgement comes after its time limit, the *)
(* link is out of step and every later result is arbitrary until a restart. *)
(***************************************************************************)
EXTENDS Integers, FiniteSets

CONSTANTS
  NSlots,      \* slots 1 .. NSlots of the sensor (slot 0 is never enrolled to)
  Fingers,     \* fingers; a finger also stands for its owner's driver information
  None,        \* no template, no binding
  Erasers,     \* the empty_all_dec tasks
  Careful,     \* TRUE: the client waits for replies, binds what it enrolled,
               \* and deletes single slots
  LinkFaults,  \* TRUE: exchanges may fail or be answered late
  MaxCommands, \* bound: commands of the client
  MaxRestarts  \* bound: restarts

ASSUME SlotAssumption   == NSlots \in 1 .. 254   \* ReadIndexTable counts in a byte
ASSUME FingerAssumption == None \notin Fingers
ASSUME TaskAssumption   == Erasers \cap {"auth", "cmd", "free"} = {}
ASSUME SwitchAssumption == Careful \in BOOLEAN /\ LinkFaults \in BOOLEAN
ASSUME BoundAssumption  == MaxCommands \in Nat /\ MaxRestarts \in Nat

Slots    == 1 .. NSlots
Tasks    == {"auth", "cmd"} \cup Erasers
Beyond   == NSlots + 1     \* stands for every id past the last slot
Ids      == 1 .. Beyond
AllSlots == NSlots + 2     \* id 0xffff of command 0x55
Failed   == 0              \* id 0: enrolment failed

VARIABLES
  connected,  \* a client is connected; fingerId_control is its negation
  sema,       \* xSemaFINGER: "free" or the task that holds it
  authPc,     \* where finger_auth is
  probe,      \* the finger in the sensor's image buffer
  authId,     \* blackboard.face_auth_id
  cmdPc,      \* where the command parser is
  cmdId,      \* the slot the command is about
  model,      \* the finger being enrolled
  eraser,     \* where each empty_all_dec is
  inFlight,   \* tasks between a request and its acknowledgement
  synced,     \* the link is in step
  templates,  \* in the sensor: whose template is in each slot
  cfg,        \* in flash: finger_cfg
  pending,    \* known to the client: slot and finger of the last enrolment
  commands, restarts,  \* bounds
  \* History, for the properties only.
  scans,      \* scans begun since the client connected
  doubtful    \* ids whose template or binding an error left uncertain

client  == <<pending, commands>>
cmdVars == <<cmdPc, cmdId, model>>
auth    == <<authPc, probe, authId, scans>>
link    == <<inFlight, synced>>
stores  == <<templates, cfg, doubtful>>
vars    == <<connected, sema, auth, cmdVars, eraser, link, stores, client, restarts>>

Init ==
  /\ connected = FALSE /\ sema = "free"
  /\ authPc = "check" /\ probe = None /\ authId = 0 /\ scans = 0
  /\ cmdPc = "idle" /\ cmdId = Failed /\ model = None
  /\ eraser = [e \in Erasers |-> "idle"]
  /\ inFlight = {} /\ synced = TRUE
  /\ templates = [s \in Slots |-> None] /\ cfg = [s \in Ids |-> None]
  /\ doubtful = {}
  /\ pending = <<Failed, None>> /\ commands = 0 /\ restarts = 0

-------------------------------------------------------------------------------
(***************************************************************************)
(* The link.  A request sent while another is unanswered puts the link out  *)
(* of step, and so does an acknowledgement that comes too late.             *)
(***************************************************************************)
Send(task) ==
  /\ task \notin inFlight
  /\ inFlight' = inFlight \cup {task}
  /\ synced' = (synced /\ inFlight = {})

\* applied: the sensor did it; ok: the task reads FINGERPRINT_OK.
Outcomes ==
  {o \in [applied : BOOLEAN, ok : BOOLEAN, sync : BOOLEAN] :
     IF synced THEN (o.ok => o.applied /\ o.sync) /\ (o.ok \/ LinkFaults)
     ELSE ~o.sync}

Receive(task, o) ==
  /\ task \in inFlight
  /\ o \in Outcomes
  /\ inFlight' = inFlight \ {task}
  /\ synced' = o.sync

\* The ids that an exchange about S leaves uncertain (history).
Doubts(o, S) == IF ~synced THEN Ids ELSE IF o.ok THEN {} ELSE S \cap Ids

\* Variant: the bits of the table are taken for free slots.
FreeSlotInverted ==
  IF \E s \in Slots : templates[s] # None
  THEN CHOOSE s \in Slots : templates[s] # None
  ELSE 1

\* ReadIndexTable: the lowest free slot from 1 on; one past the last when full.
FreeSlot ==
  CHOOSE s \in Ids :
    /\ s \in Slots => templates[s] = None
    /\ \A t \in 1 .. (s - 1) : templates[t] # None

-------------------------------------------------------------------------------
(***************************************************************************)
(* finger_auth.  It reads fingerId_control, then waits up to a second for   *)
(* xSemaFINGER: a client may connect in between.  It keeps the semaphore    *)
(* for 1.5 s after a scan without a match; after a match it publishes the   *)
(* slot, unlocks, and ends with the semaphore given back.                   *)
(***************************************************************************)
AuthGoto(p) == authPc' = p

\* Variant: fingerId_control is not looked at.
AuthCheckAlways ==
  /\ authPc = "check"
  /\ AuthGoto("take")
  /\ UNCHANGED <<connected, sema, probe, authId, scans, cmdVars, eraser, link, stores, client,
                 restarts>>

AuthCheck ==
  /\ authPc = "check" /\ ~connected
  /\ AuthGoto("take")
  /\ UNCHANGED <<connected, sema, probe, authId, scans, cmdVars, eraser, link, stores, client,
                 restarts>>

AuthTake ==
  /\ authPc = "take"
  /\ IF sema = "free"
     THEN /\ sema' = "auth" /\ AuthGoto("scan")
          /\ scans' = IF connected THEN scans + 1 ELSE scans
     ELSE sema' = sema /\ AuthGoto("check") /\ scans' = scans
  /\ UNCHANGED <<connected, probe, authId, cmdVars, eraser, link, stores, client, restarts>>

\* getFingerprintID: nobody touches the sensor, or getImage and image2Tz.
AuthUntouched ==
  /\ authPc = "scan" /\ "auth" \notin inFlight
  /\ AuthGoto("hold")
  /\ UNCHANGED <<connected, sema, probe, authId, scans, cmdVars, eraser, link, stores, client,
                 restarts>>

AuthSend ==
  /\ authPc \in {"scan", "search", "led"}
  /\ Send("auth")
  /\ UNCHANGED <<connected, sema, auth, cmdVars, eraser, stores, client, restarts>>

AuthImage ==
  /\ authPc = "scan"
  /\ \E o \in Outcomes, f \in Fingers :
       /\ Receive("auth", o)
       /\ IF o.ok THEN probe' = f /\ AuthGoto("search") ELSE probe' = probe /\ AuthGoto("hold")
  /\ UNCHANGED <<connected, sema, authId, scans, cmdVars, eraser, stores, client, restarts>>

\* What is read as an id when the link is out of step.
AnyId == Ids \cup {0}

Matches == IF synced THEN {s \in Slots : templates[s] = probe} ELSE AnyId

AuthSearch ==
  /\ authPc = "search"
  /\ \E o \in Outcomes :
       /\ Receive("auth", o)
       /\ \/ o.ok /\ \E s \in Matches : authId' = s /\ AuthGoto("led")
          \/ (~o.ok \/ Matches = {}) /\ authId' = authId /\ AuthGoto("hold")
  /\ UNCHANGED <<connected, sema, probe, scans, cmdVars, eraser, stores, client, restarts>>

AuthLed ==
  /\ authPc = "led"
  /\ \E o \in Outcomes : Receive("auth", o)
  /\ AuthGoto("open")
  /\ UNCHANGED <<connected, sema, probe, authId, scans, cmdVars, eraser, stores, client, restarts>>

\* The lines after the give (app_finger.cpp 627-633) are for an authorisation from
\* elsewhere; in this build nobody else sets face_auth_id.
AuthGive ==
  /\ authPc \in {"hold", "open"}
  /\ sema' = "free"
  /\ AuthGoto(IF authPc = "hold" THEN "check" ELSE "gone")
  /\ UNCHANGED <<connected, probe, authId, scans, cmdVars, eraser, link, stores, client, restarts>>

finger_auth ==
  \/ AuthCheck \/ AuthTake \/ AuthUntouched \/ AuthSend
  \/ AuthImage \/ AuthSearch \/ AuthLed \/ AuthGive

-------------------------------------------------------------------------------
(***************************************************************************)
(* BLE: onConnect and onDisconnect, and the start of a command.            *)
(***************************************************************************)
onConnect ==
  /\ ~connected
  /\ connected' = TRUE /\ scans' = 0
  /\ UNCHANGED <<sema, authPc, probe, authId, cmdVars, eraser, link, stores, client, restarts>>

onDisconnect ==
  /\ connected
  /\ connected' = FALSE
  /\ UNCHANGED <<sema, auth, cmdVars, eraser, link, stores, client, restarts>>

MayCommand ==
  /\ connected /\ cmdPc = "idle" /\ commands < MaxCommands
  /\ Careful => \A e \in Erasers : eraser[e] = "idle"

Start(p, id) ==
  /\ MayCommand
  /\ cmdPc' = p /\ cmdId' = id /\ model' = None
  /\ commands' = commands + 1
  /\ UNCHANGED <<connected, sema, auth, eraser, link, stores, restarts>>

Enroll == Start("take", Failed) /\ UNCHANGED pending

Delete(id) ==
  /\ Careful => id \in Ids
  /\ Start("del", id)
  /\ pending' = IF pending[1] = id THEN <<Failed, None>> ELSE pending

DeleteFace == Start("face", Failed) /\ UNCHANGED pending

\* 0x54 stores the information under the slot the client names.
Bind(s, f) ==
  /\ MayCommand
  /\ Careful => pending = <<s, f>>
  /\ cfg' = [cfg EXCEPT ![s] = f]
  /\ commands' = commands + 1
  /\ UNCHANGED <<connected, sema, auth, cmdVars, eraser, link, templates, doubtful, pending,
                 restarts>>

\* 0x09 creates empty_all_dec and leaves the parser at once.
EraseAll(e) ==
  /\ MayCommand /\ eraser[e] = "idle"
  /\ eraser' = [eraser EXCEPT ![e] = "empty"]
  /\ pending' = <<Failed, None>>
  /\ commands' = commands + 1
  /\ UNCHANGED <<connected, sema, auth, cmdVars, link, stores, restarts>>

-------------------------------------------------------------------------------
(***************************************************************************)
(* 0x53: finger_collect_dec and getFingerprintEnroll.                      *)
(***************************************************************************)
CmdGoto(p) == cmdPc' = p

\* Variant: the enrolment does not wait for the scan in progress.
EnrollTakeAlways ==
  /\ cmdPc = "take"
  /\ sema' = "cmd" /\ CmdGoto("index")
  /\ UNCHANGED <<connected, auth, cmdId, model, eraser, link, stores, client, restarts>>

\* The wait for xSemaFINGER times out after two seconds.
EnrollTake ==
  /\ cmdPc = "take"
  /\ IF sema = "free" THEN sema' = "cmd" /\ CmdGoto("index") ELSE sema' = sema /\ CmdGoto("reply")
  /\ UNCHANGED <<connected, auth, cmdId, model, eraser, link, stores, client, restarts>>

CmdSend ==
  /\ cmdPc \in {"index", "image", "store", "download", "del", "count", "face"}
  /\ Send("cmd")
  /\ UNCHANGED <<connected, sema, auth, cmdVars, eraser, stores, client, restarts>>

\* ReadIndexTable returns 1 when the exchange failed, as if slot 1 were free.
EnrollIndex ==
  /\ cmdPc = "index"
  /\ \E o \in Outcomes :
       /\ Receive("cmd", o)
       /\ IF synced THEN cmdId' = (IF o.ok THEN FreeSlot ELSE 1) ELSE cmdId' \in AnyId
       /\ doubtful' = doubtful \cup Doubts(o, {1})
  /\ CmdGoto("image")
  /\ UNCHANGED <<connected, sema, auth, model, eraser, templates, cfg, client, restarts>>

\* The image loops: try again, give up, or go on with a model of the finger.
EnrollImage ==
  /\ cmdPc = "image"
  /\ \E o \in Outcomes :
       /\ Receive("cmd", o)
       /\ \/ CmdGoto("image") /\ UNCHANGED <<cmdId, model>>
          \/ CmdGoto("give") /\ cmdId' = Failed /\ model' = model
          \/ o.ok /\ CmdGoto("store") /\ cmdId' = cmdId /\ model' \in Fingers
  /\ UNCHANGED <<connected, sema, auth, eraser, stores, client, restarts>>

\* Variant: the sensor takes any slot number.
StoreAnywhere(s, f) == [t \in Slots \cup {s} |-> IF t = s THEN f ELSE templates[t]]

Store(s, f) == IF s \in Slots THEN [templates EXCEPT ![s] = f] ELSE templates

\* In step, the sensor refuses an id it has no slot for; out of step, anything may
\* be read.  Id 0 is the answer of an enrolment that failed.
EnrollStore ==
  /\ cmdPc = "store"
  /\ \E o \in Outcomes :
       /\ Receive("cmd", o)
       /\ templates' = IF o.applied THEN Store(cmdId, model) ELSE templates
       /\ IF o.ok /\ (synced => cmdId \in Slots) /\ cmdId # Failed
          THEN CmdGoto("download") /\ cmdId' = cmdId
          ELSE CmdGoto("give") /\ cmdId' = Failed
       /\ doubtful' = doubtful \cup Doubts(o, {})
  /\ UNCHANGED <<connected, sema, auth, model, eraser, cfg, client, restarts>>

EnrollDownload ==
  /\ cmdPc = "download"
  /\ \E o \in Outcomes : Receive("cmd", o)
  /\ CmdGoto("give")
  /\ UNCHANGED <<connected, sema, auth, cmdId, model, eraser, stores, client, restarts>>

\* Variant: the semaphore is kept.
EnrollGiveForgotten ==
  /\ cmdPc = "give"
  /\ sema' = sema /\ CmdGoto("reply")
  /\ UNCHANGED <<connected, auth, cmdId, model, eraser, link, stores, client, restarts>>

EnrollGive ==
  /\ cmdPc = "give"
  /\ sema' = "free" /\ CmdGoto("reply")
  /\ UNCHANGED <<connected, auth, cmdId, model, eraser, link, stores, client, restarts>>

EnrollReply ==
  /\ cmdPc = "reply"
  /\ pending' = IF cmdId # Failed THEN <<cmdId, model>> ELSE pending
  /\ CmdGoto("idle")
  /\ UNCHANGED <<connected, sema, auth, cmdId, model, eraser, link, stores, commands, restarts>>

finger_collect_dec ==
  \/ EnrollTake \/ EnrollIndex \/ EnrollImage \/ EnrollStore \/ EnrollDownload \/ EnrollGive
  \/ EnrollReply

-------------------------------------------------------------------------------
(***************************************************************************)
(* 0x55: delete the template, count the rest, remove the binding.  When the *)
(* delete is not acknowledged the command ends without a reply.  Id 0xffff  *)
(* empties the sensor; the key removed from finger_cfg is "65535".          *)
(***************************************************************************)
Target(id) == IF id = AllSlots THEN Slots ELSE {id} \cap Slots

Wipe(S) == [s \in Slots |-> IF s \in S THEN None ELSE templates[s]]

DeleteTemplate ==
  /\ cmdPc = "del"
  /\ \E o \in Outcomes :
       /\ Receive("cmd", o)
       /\ templates' = IF o.applied THEN Wipe(Target(cmdId)) ELSE templates
       /\ doubtful' = doubtful \cup Doubts(o, Target(cmdId))
                               \cup (IF cmdId = AllSlots THEN Ids ELSE {})
       /\ CmdGoto(IF o.ok THEN "count" ELSE "idle")
  /\ UNCHANGED <<connected, sema, auth, cmdId, model, eraser, cfg, client, restarts>>

DeleteCount ==
  /\ cmdPc = "count"
  /\ \E o \in Outcomes : Receive("cmd", o)
  /\ CmdGoto("remove")
  /\ UNCHANGED <<connected, sema, auth, cmdId, model, eraser, stores, client, restarts>>

\* Variant: the binding is left in place.
DeleteKeepBinding ==
  /\ cmdPc = "remove"
  /\ CmdGoto("idle")
  /\ UNCHANGED <<connected, sema, auth, cmdId, model, eraser, link, stores, client, restarts>>

DeleteBinding ==
  /\ cmdPc = "remove"
  /\ cfg' = [s \in Ids |-> IF s = cmdId THEN None ELSE cfg[s]]
  /\ doubtful' = IF synced THEN doubtful \ {cmdId} ELSE doubtful
  /\ CmdGoto("idle")
  /\ UNCHANGED <<connected, sema, auth, cmdId, model, eraser, link, templates, client, restarts>>

delete_cmd == DeleteTemplate \/ DeleteCount \/ DeleteBinding

\* 0x65: Zc_Face::deleteone writes to the UART, reads until it is silent for two
\* seconds, and touches neither the templates nor finger_cfg.
face_delete_one ==
  /\ cmdPc = "face"
  /\ \E o \in Outcomes : Receive("cmd", o)
  /\ CmdGoto("idle")
  /\ UNCHANGED <<connected, sema, auth, cmdId, model, eraser, stores, client, restarts>>

-------------------------------------------------------------------------------
(***************************************************************************)
(* empty_all_dec: empty the sensor; when that is acknowledged, clear        *)
(* finger_cfg.                                                              *)
(***************************************************************************)
EraserGoto(e, p) == eraser' = [eraser EXCEPT ![e] = p]

EraserSend(e) ==
  /\ eraser[e] = "empty"
  /\ Send(e)
  /\ UNCHANGED <<connected, sema, auth, cmdVars, eraser, stores, client, restarts>>

EraserEmpty(e) ==
  /\ eraser[e] = "empty"
  /\ \E o \in Outcomes :
       /\ Receive(e, o)
       /\ templates' = IF o.applied THEN Wipe(Slots) ELSE templates
       /\ doubtful' = doubtful \cup Doubts(o, Ids)
       /\ EraserGoto(e, IF o.ok THEN "clear" ELSE "idle")
  /\ UNCHANGED <<connected, sema, auth, cmdVars, cfg, client, restarts>>

EraserClear(e) ==
  /\ eraser[e] = "clear"
  /\ cfg' = [s \in Ids |-> None]
  /\ doubtful' = IF synced /\ cmdPc = "idle" THEN {} ELSE doubtful
  /\ EraserGoto(e, "idle")
  /\ UNCHANGED <<connected, sema, auth, cmdVars, link, templates, client, restarts>>

empty_all_dec(e) == EraserSend(e) \/ EraserEmpty(e) \/ EraserClear(e)

-------------------------------------------------------------------------------
(***************************************************************************)
(* A restart, or a power cut: the tasks are gone, flash and sensor stay.    *)
(* The sensor may still have carried out a request that was under way.      *)
(***************************************************************************)
Requested ==
  {templates}
  \cup (IF "cmd" \in inFlight /\ cmdPc = "store" THEN {Store(cmdId, model)} ELSE {})
  \cup (IF "cmd" \in inFlight /\ cmdPc = "del" THEN {Wipe(Target(cmdId))} ELSE {})
  \cup (IF \E e \in Erasers : e \in inFlight THEN {Wipe(Slots)} ELSE {})

Interrupted ==
  (IF ~synced \/ \E e \in Erasers : eraser[e] # "idle" THEN Ids ELSE {})
  \cup (IF cmdPc \in {"del", "count", "remove"} THEN Target(cmdId) ELSE {})

Restart ==
  /\ restarts < MaxRestarts
  /\ restarts' = restarts + 1
  /\ templates' \in Requested
  /\ doubtful' = doubtful \cup Interrupted
  /\ connected' = FALSE /\ sema' = "free"
  /\ authPc' = "check" /\ probe' = None /\ authId' = 0 /\ scans' = 0
  /\ cmdPc' = "idle" /\ cmdId' = Failed /\ model' = None
  /\ eraser' = [e \in Erasers |-> "idle"]
  /\ inFlight' = {} /\ synced' = TRUE
  /\ UNCHANGED <<cfg, client>>

Next ==
  \/ finger_auth
  \/ onConnect \/ onDisconnect
  \/ Enroll \/ DeleteFace
  \/ \E id \in Ids \cup {AllSlots} : Delete(id)
  \/ \E s \in Ids, f \in Fingers : Bind(s, f)
  \/ \E e \in Erasers : EraseAll(e) \/ empty_all_dec(e)
  \/ CmdSend \/ finger_collect_dec \/ delete_cmd \/ face_delete_one
  \/ Restart

Spec == Init /\ [][Next]_vars

\* Every task blocks again and again, so those below it run too; a client need
\* do nothing, and nobody need put a finger on the sensor.
Fairness ==
  /\ WF_vars(finger_auth)
  /\ WF_vars(CmdSend \/ finger_collect_dec \/ delete_cmd \/ face_delete_one)

FairSpec == Spec /\ Fairness

-------------------------------------------------------------------------------
(***************************************************************************)
(* Properties.                                                             *)
(***************************************************************************)
Scanning  == {"scan", "search", "led", "open", "hold"}
Enrolling == {"index", "image", "store", "download", "give"}
Deleting  == {"del", "count", "remove"}

\* Type invariant.
TypeOK ==
  /\ connected \in BOOLEAN /\ sema \in {"free", "auth", "cmd"}
  /\ authPc \in Scanning \cup {"check", "take", "gone"}
  /\ probe \in Fingers \cup {None} /\ authId \in AnyId /\ scans \in Nat
  /\ cmdPc \in Enrolling \cup Deleting \cup {"idle", "take", "reply", "face"}
  /\ cmdId \in 0 .. AllSlots /\ model \in Fingers \cup {None}
  /\ eraser \in [Erasers -> {"idle", "empty", "clear"}]
  /\ inFlight \subseteq Tasks /\ synced \in BOOLEAN
  /\ templates \in [Slots -> Fingers \cup {None}] /\ cfg \in [Ids -> Fingers \cup {None}]
  /\ doubtful \subseteq Ids
  /\ pending \in (0 .. AllSlots) \X (Fingers \cup {None})
  /\ commands \in 0 .. MaxCommands /\ restarts \in 0 .. MaxRestarts

\* xSemaFINGER is neither lost nor given back twice: it names the task that is
\* scanning or enrolling, and is free exactly when none is.
SemaHeld == /\ sema = "auth" <=> authPc \in Scanning
            /\ sema = "cmd"  <=> cmdPc \in Enrolling

(***************************************************************************)
(* A scan and an enrolment never talk to the sensor at the same time: when  *)
(* two exchanges overlap, one of them belongs to a delete (0x55, 0x65) or an*)
(* erase, which take no semaphore.                                          *)
(***************************************************************************)
Unguarded(task) == task \in Erasers \/ (task = "cmd" /\ cmdPc \in Deleting \cup {"face"})

LinkExclusion ==
  \A a, b \in inFlight : a # b => Unguarded(a) \/ Unguarded(b)

(***************************************************************************)
(* A client that connects stops the scanner: fingerId_control is read       *)
(* before the wait for the semaphore, so one more scan may begin, not two.  *)
(***************************************************************************)
SessionScanOnce == connected => scans <= 1

(***************************************************************************)
(* Sensor and flash agree.  For a careful client, an id that is bound is a *)
(* slot that holds the template of the driver it is bound to, except while *)
(* it is being erased, and except the ids an error left doubtful: a delete *)
(* that was not acknowledged or was cut short, an index table that could   *)
(* not be read, a link out of step.                                        *)
(***************************************************************************)
BeingErased(s) == \/ cmdPc \in Deleting /\ s \in Target(cmdId)
                  \/ \E e \in Erasers : eraser[e] # "idle"

StoresAgree ==
  \A s \in Ids \ doubtful : cfg[s] # None =>
    /\ s \in Slots
    /\ templates[s] = cfg[s] \/ (templates[s] = None /\ BeingErased(s))

\* What a careful client was told about its last enrolment stays true until it
\* erases that slot: the later enrolments choose other slots.  The id names a slot
\* of the sensor, or the link was out of step.
EnrolmentKept ==
  pending[1] \notin doubtful \cup {Failed} =>
    pending[1] \in Slots /\ templates[pending[1]] = pending[2]

(***************************************************************************)
(* A finger that unlocks is put down to its owner, or to nobody while its   *)
(* slot is not bound yet: never to the former owner of the slot.            *)
(***************************************************************************)
RightDriver ==
  [][authId = 0 /\ authId' # 0 /\ synced /\ authId' \notin doubtful
       => cfg[authId'] \in {None, probe}]_vars

(***************************************************************************)
(* An enrolment never replaces a template, whatever the other tasks did     *)
(* between the reading of the index table and the storing of the template,  *)
(* except in a slot that an error left doubtful.                            *)
(***************************************************************************)
TemplatesNotReplaced ==
  [][\A s \in Slots \ doubtful' :
       templates[s] # None => templates'[s] \in {None, templates[s]}]_vars

(***************************************************************************)
(* After the client is gone, the scanner comes back: it scans again, unless *)
(* it has ended with an unlock, or an enrolment waits for a finger.         *)
(***************************************************************************)
ScansResume ==
  (~connected /\ authPc \in {"check", "take"}) ~>
    (connected \/ authPc \in Scanning \cup {"gone"} \/ cmdPc = "image")

===============================================================================
