---------------------------- MODULE FingerStoreProofs ----------------------------
(***************************************************************************)
(* Proofs about FingerStore, for any sensor size, any fingers, any number   *)
(* of erasing tasks and with faults.  For any client: who may talk to the   *)
(* sensor at the same time, how long a connected client shares it with the  *)
(* scanner, and that no template is replaced.  For a careful client: that   *)
(* sensor and flash agree and that an unlock is put down to its owner.      *)
(***************************************************************************)
EXTENDS FingerStore, WellFoundedInduction, TLAPS

(***************************************************************************)
(* The inductive invariants: the semaphore names its holder, a task has a   *)
(* request under way only where its program sends one, and the scanner that *)
(* waits for the semaphore while a client is connected has not scanned yet. *)
(***************************************************************************)
Senders == /\ "auth" \in inFlight => authPc \in {"scan", "search", "led"}
           /\ "cmd" \in inFlight =>
                cmdPc \in {"index", "image", "store", "download", "del", "count", "face"}
           /\ inFlight \subseteq Tasks

Access == SemaHeld /\ Senders

LateScan == connected => scans \in {0, 1} /\ (authPc = "take" => scans = 0)

\* Every step preserves Access: only take and give change the holder of the
\* semaphore, and a task waits for the answer to its request before it goes on.
LEMMA NextAccess == Access /\ [Next]_vars => Access'
<1> SUFFICES ASSUME Access, [Next]_vars PROVE Access'
  OBVIOUS
<1> USE TaskAssumption
    DEF Access, SemaHeld, Senders, Scanning, Enrolling, Deleting, Tasks, auth, cmdVars, link,
        Send, Receive, AuthGoto, CmdGoto
<1>1. CASE AuthCheck \/ AuthTake \/ AuthUntouched \/ AuthGive
  <2>1. CASE AuthCheck
    BY <2>1 DEF AuthCheck
  <2>2. CASE AuthTake
    <3>1. CASE sema = "free"
      BY <2>2, <3>1 DEF AuthTake
    <3>2. CASE sema # "free"
      BY <2>2, <3>2 DEF AuthTake
    <3> QED
      BY <3>1, <3>2
  <2>3. CASE AuthUntouched
    BY <2>3 DEF AuthUntouched
  <2>4. CASE AuthGive
    BY <2>4 DEF AuthGive
  <2> QED
    BY <1>1, <2>1, <2>2, <2>3, <2>4
<1>2. CASE AuthSend
  BY <1>2 DEF AuthSend
<1>3. CASE AuthImage
  BY <1>3 DEF AuthImage
<1>4. CASE AuthSearch
  BY <1>4 DEF AuthSearch
<1>5. CASE AuthLed
  BY <1>5 DEF AuthLed
<1>6. CASE onConnect \/ onDisconnect
  BY <1>6 DEF onConnect, onDisconnect
<1>7. CASE Enroll \/ DeleteFace \/ \E id \in Ids \cup {AllSlots} : Delete(id)
  BY <1>7 DEF Enroll, DeleteFace, Delete, Start, MayCommand
<1>8. CASE \/ \E s \in Ids, f \in Fingers : Bind(s, f)
           \/ \E e \in Erasers : EraseAll(e)
  BY <1>8 DEF Bind, EraseAll
<1>9. CASE \E e \in Erasers : empty_all_dec(e)
  BY <1>9 DEF empty_all_dec, EraserSend, EraserEmpty, EraserClear
<1>10. CASE CmdSend
  BY <1>10 DEF CmdSend
<1>11. CASE EnrollTake \/ EnrollGive \/ EnrollReply
  <2>1. CASE EnrollTake /\ sema = "free"
    BY <2>1 DEF EnrollTake
  <2>2. CASE EnrollTake /\ sema # "free"
    BY <2>2 DEF EnrollTake
  <2>3. CASE EnrollGive
    BY <2>3 DEF EnrollGive
  <2>4. CASE EnrollReply
    BY <2>4 DEF EnrollReply
  <2> QED
    BY <1>11, <2>1, <2>2, <2>3, <2>4
<1>12. CASE EnrollIndex
  BY <1>12 DEF EnrollIndex
<1>13. CASE EnrollImage
  BY <1>13 DEF EnrollImage
<1>14. CASE EnrollStore
  BY <1>14 DEF EnrollStore
<1>15. CASE EnrollDownload
  BY <1>15 DEF EnrollDownload
<1>16. CASE delete_cmd \/ face_delete_one
  <2>1. CASE DeleteTemplate
    BY <2>1 DEF DeleteTemplate
  <2>2. CASE DeleteCount
    BY <2>2 DEF DeleteCount
  <2>3. CASE DeleteBinding
    BY <2>3 DEF DeleteBinding
  <2>4. CASE face_delete_one
    BY <2>4 DEF face_delete_one
  <2> QED
    BY <1>16, <2>1, <2>2, <2>3, <2>4 DEF delete_cmd
<1>17. CASE Restart
  BY <1>17 DEF Restart
<1>18. CASE UNCHANGED vars
  BY <1>18 DEF vars
<1> QED
  BY <1>1, <1>2, <1>3, <1>4, <1>5, <1>6, <1>7, <1>8, <1>9, <1>10, <1>11, <1>12, <1>13, <1>14,
     <1>15, <1>16, <1>17, <1>18
     DEF Next, finger_auth, finger_collect_dec

\* A scanner that is past the check scans once; the next check finds the client.
LEMMA NextLateScan == LateScan /\ [Next]_vars => LateScan'
<1> SUFFICES ASSUME LateScan, [Next]_vars PROVE LateScan'
  OBVIOUS
<1> USE DEF LateScan, auth, AuthGoto
<1>1. CASE AuthCheck \/ AuthTake \/ AuthUntouched \/ AuthGive
  <2>1. CASE AuthCheck
    BY <2>1 DEF AuthCheck
  <2>2. CASE AuthTake /\ sema = "free"
    BY <2>2 DEF AuthTake
  <2>3. CASE AuthTake /\ sema # "free"
    BY <2>3 DEF AuthTake
  <2>4. CASE AuthUntouched
    BY <2>4 DEF AuthUntouched
  <2>5. CASE AuthGive
    BY <2>5 DEF AuthGive
  <2> QED
    BY <1>1, <2>1, <2>2, <2>3, <2>4, <2>5
<1>2. CASE AuthSend \/ AuthImage \/ AuthSearch \/ AuthLed
  BY <1>2 DEF AuthSend, AuthImage, AuthSearch, AuthLed
<1>3. CASE onConnect \/ onDisconnect \/ Restart
  BY <1>3 DEF onConnect, onDisconnect, Restart
<1>4. CASE Enroll \/ DeleteFace \/ \E id \in Ids \cup {AllSlots} : Delete(id)
  BY <1>4 DEF Enroll, DeleteFace, Delete, Start
<1>5. CASE \/ \E s \in Ids, f \in Fingers : Bind(s, f)
           \/ \E e \in Erasers : EraseAll(e)
  BY <1>5 DEF Bind, EraseAll
<1>6. CASE \E e \in Erasers : empty_all_dec(e)
  BY <1>6 DEF empty_all_dec, EraserSend, EraserEmpty, EraserClear
<1>7. CASE CmdSend \/ finger_collect_dec
  BY <1>7 DEF CmdSend, finger_collect_dec, EnrollTake, EnrollIndex, EnrollImage, EnrollStore,
              EnrollDownload, EnrollGive, EnrollReply
<1>8. CASE delete_cmd \/ face_delete_one
  BY <1>8 DEF delete_cmd, DeleteTemplate, DeleteCount, DeleteBinding, face_delete_one
<1>9. CASE UNCHANGED vars
  BY <1>9 DEF vars
<1> QED
  BY <1>1, <1>2, <1>3, <1>4, <1>5, <1>6, <1>7, <1>8, <1>9 DEF Next, finger_auth

-------------------------------------------------------------------------------
\* Access holds in every reachable state.
THEOREM AccessInductive == Spec => []Access
<1>1. Init => Access
  BY DEF Init, Access, SemaHeld, Senders, Scanning, Enrolling
<1> QED
  BY <1>1, NextAccess, PTL DEF Spec

\* So does LateScan.
THEOREM LateScanInductive == Spec => []LateScan
<1>1. Init => LateScan
  BY DEF Init, LateScan
<1> QED
  BY <1>1, NextLateScan, PTL DEF Spec

\* xSemaFINGER is neither lost nor given back twice.
THEOREM SemaphoreHeld == Spec => []SemaHeld
<1>1. Access => SemaHeld
  BY DEF Access
<1> QED
  BY <1>1, AccessInductive, PTL

(***************************************************************************)
(* Two exchanges with the sensor overlap only if one is part of a delete or *)
(* of an erase: scan and enrolment exclude each other.                      *)
(***************************************************************************)
THEOREM Exclusion == Spec => []LinkExclusion
<1>1. Access => LinkExclusion
  <2> SUFFICES ASSUME Access, NEW a \in inFlight, NEW b \in inFlight, a # b
               PROVE  Unguarded(a) \/ Unguarded(b)
    BY DEF LinkExclusion
  <2>1. a \in Tasks /\ b \in Tasks
    BY DEF Access, Senders
  <2>2. CASE a \in Erasers \/ b \in Erasers
    BY <2>2 DEF Unguarded
  <2>3. CASE "auth" \in inFlight /\ "cmd" \in inFlight
    <3>1. cmdPc \notin Enrolling
      BY <2>3 DEF Access, SemaHeld, Senders, Scanning
    <3>2. cmdPc \in Deleting \cup {"face"}
      BY <2>3, <3>1 DEF Access, Senders, Enrolling, Deleting
    <3> QED
      BY <2>1, <3>2 DEF Unguarded, Tasks
  <2> QED
    BY <2>1, <2>2, <2>3 DEF Tasks
<1> QED
  BY <1>1, AccessInductive, PTL

\* After a client connected, the scanner begins one more scan at most.
THEOREM ScanOnce == Spec => []SessionScanOnce
<1>1. LateScan => SessionScanOnce
  BY DEF LateScan, SessionScanOnce
<1> QED
  BY <1>1, LateScanInductive, PTL

-------------------------------------------------------------------------------
\* The index table always yields a slot: the lowest free one, or one past the last.
LEMMA FreeSlotType ==
  /\ FreeSlot \in Ids
  /\ FreeSlot \in Slots => templates[FreeSlot] = None
<1> DEFINE Free == {s \in Ids : s \in Slots => templates[s] = None}
           Less == {p \in Nat \X Nat : p[1] < p[2]}
<1>1. NSlots \in Nat
  BY SlotAssumption
<1>2. NSlots + 1 \in Free /\ Free \subseteq Nat
  BY <1>1 DEF Slots, Ids, Beyond
<1>3. IsWellFoundedOn(Less, Nat)
  BY NatLessThanWellFounded DEF OpToRel
<1>4. PICK s \in Free : \A t \in Free : <<t, s>> \notin Less
  <2> HIDE DEF Free, Less
  <2> QED
    BY <1>2, <1>3, WFMin
<1>5. \A t \in 1 .. (s - 1) : templates[t] # None
  <2> SUFFICES ASSUME NEW t \in 1 .. (s - 1), templates[t] = None PROVE FALSE
    OBVIOUS
  <2>1. t \in Free /\ t < s /\ t \in Nat /\ s \in Nat
    BY <1>1, <1>2 DEF Ids, Beyond
  <2>2. <<t, s>> \in Less
    BY <2>1
  <2> QED
    BY <1>4, <2>1, <2>2
<1> QED
  BY <1>4, <1>5 DEF FreeSlot

\* What the sensor holds after a store is again a table of slots.
LEMMA StoreType ==
  ASSUME NEW s, NEW f \in Fingers \cup {None}, templates \in [Slots -> Fingers \cup {None}]
  PROVE  Store(s, f) \in [Slots -> Fingers \cup {None}]
BY DEF Store

\* So is what it holds after an erase.
LEMMA WipeType ==
  ASSUME NEW S, templates \in [Slots -> Fingers \cup {None}]
  PROVE  Wipe(S) \in [Slots -> Fingers \cup {None}]
BY DEF Wipe

\* A result of an exchange is three truth values.
LEMMA OutcomeType ==
  \A o \in Outcomes : o.applied \in BOOLEAN /\ o.ok \in BOOLEAN /\ o.sync \in BOOLEAN
BY DEF Outcomes

\* An exchange makes ids doubtful and nothing else.
LEMMA DoubtsType == \A o \in Outcomes : \A S : Doubts(o, S) \subseteq Ids
BY DEF Doubts

\* Requests and answers keep the type of the link.
LEMMA LinkType ==
  ASSUME NEW task \in Tasks, inFlight \subseteq Tasks, synced \in BOOLEAN,
         Send(task) \/ \E o \in Outcomes : Receive(task, o)
  PROVE  inFlight' \subseteq Tasks /\ synced' \in BOOLEAN
BY OutcomeType DEF Send, Receive

\* Every step preserves the types.
LEMMA NextType == TypeOK /\ [Next]_vars => TypeOK'
<1> SUFFICES ASSUME TypeOK, [Next]_vars PROVE TypeOK'
  OBVIOUS
<1> USE SlotAssumption, BoundAssumption, OutcomeType
    DEF TypeOK, Tasks, Scanning, Enrolling, Deleting, Slots, Ids, Beyond, AnyId, AllSlots, Failed,
        auth, client, cmdVars, link, stores, AuthGoto, CmdGoto
<1>1. CASE AuthCheck \/ AuthTake \/ AuthUntouched \/ AuthGive
  <2>1. CASE AuthCheck
    BY <2>1 DEF AuthCheck
  <2>2. CASE AuthTake /\ sema = "free"
    BY <2>2 DEF AuthTake
  <2>3. CASE AuthTake /\ sema # "free"
    BY <2>3 DEF AuthTake
  <2>4. CASE AuthUntouched
    BY <2>4 DEF AuthUntouched
  <2>5. CASE AuthGive
    BY <2>5 DEF AuthGive
  <2> QED
    BY <1>1, <2>1, <2>2, <2>3, <2>4, <2>5
<1>2. CASE AuthSend
  BY <1>2, LinkType DEF AuthSend
<1>3. CASE AuthImage
  BY <1>3, LinkType DEF AuthImage
<1>4. CASE AuthSearch
  BY <1>4, LinkType DEF AuthSearch, Matches
<1>5. CASE AuthLed
  BY <1>5, LinkType DEF AuthLed
<1>6. CASE onConnect \/ onDisconnect
  <2>1. connected' \in BOOLEAN
    BY <1>6, Zenon DEF onConnect, onDisconnect
  <2>2. scans' \in Nat
    BY <1>6 DEF onConnect, onDisconnect
  <2>3. UNCHANGED <<sema, authPc, probe, authId, cmdVars, eraser, link, stores, client, restarts>>
    BY <1>6 DEF onConnect, onDisconnect
  <2> QED
    BY <2>1, <2>2, <2>3
<1>7. CASE Enroll \/ DeleteFace
  <2>1. CASE Enroll
    BY <2>1 DEF Enroll, Start, MayCommand
  <2>2. CASE DeleteFace
    BY <2>2 DEF DeleteFace, Start, MayCommand
  <2> QED
    BY <1>7, <2>1, <2>2
<1>8. CASE \E id \in Ids \cup {AllSlots} : Delete(id)
  BY <1>8 DEF Delete, Start, MayCommand
<1>9. CASE \E s \in Ids, f \in Fingers : Bind(s, f)
  BY <1>9 DEF Bind, MayCommand
<1>10. CASE \E e \in Erasers : EraseAll(e)
  BY <1>10 DEF EraseAll, MayCommand
<1>11. CASE \E e \in Erasers : EraserSend(e) \/ EraserClear(e)
  <2>1. CASE \E e \in Erasers : EraserSend(e)
    <3>1. inFlight' \subseteq Tasks /\ synced' \in BOOLEAN
      BY <2>1, LinkType DEF EraserSend
    <3> QED
      BY <2>1, <3>1 DEF EraserSend
  <2>2. CASE \E e \in Erasers : EraserClear(e)
    <3>1. cfg' \in [Ids -> Fingers \cup {None}] /\ doubtful' \subseteq Ids
      BY <2>2 DEF EraserClear
    <3>2. eraser' \in [Erasers -> {"idle", "empty", "clear"}]
      BY <2>2 DEF EraserClear, EraserGoto
    <3> QED
      BY <2>2, <3>1, <3>2 DEF EraserClear
  <2> QED
    BY <1>11, <2>1, <2>2
<1>12. CASE \E e \in Erasers : EraserEmpty(e)
  <2>1. PICK e \in Erasers, o \in Outcomes :
          /\ Receive(e, o)
          /\ templates' = IF o.applied THEN Wipe(Slots) ELSE templates
          /\ doubtful' = doubtful \cup Doubts(o, Ids)
          /\ EraserGoto(e, IF o.ok THEN "clear" ELSE "idle")
    BY <1>12 DEF EraserEmpty
  <2>2. inFlight' \subseteq Tasks /\ synced' \in BOOLEAN
    BY <2>1, LinkType
  <2>3. templates' \in [Slots -> Fingers \cup {None}]
    BY <2>1, WipeType
  <2>4. doubtful' \subseteq Ids
    BY <2>1, DoubtsType
  <2>5. eraser' \in [Erasers -> {"idle", "empty", "clear"}]
    BY <2>1 DEF EraserGoto
  <2> QED
    BY <1>12, <2>2, <2>3, <2>4, <2>5 DEF EraserEmpty
<1>13. CASE CmdSend
  BY <1>13, LinkType DEF CmdSend
<1>14. CASE EnrollTake \/ EnrollGive \/ EnrollReply
  <2>1. CASE EnrollTake /\ sema = "free"
    BY <2>1 DEF EnrollTake
  <2>2. CASE EnrollTake /\ sema # "free"
    BY <2>2 DEF EnrollTake
  <2>3. CASE EnrollGive
    BY <2>3 DEF EnrollGive
  <2>4. CASE EnrollReply
    <3>1. pending' \in (0 .. AllSlots) \X (Fingers \cup {None})
      BY <2>4 DEF EnrollReply
    <3> QED
      BY <2>4, <3>1 DEF EnrollReply
  <2> QED
    BY <1>14, <2>1, <2>2, <2>3, <2>4
<1>15. CASE EnrollIndex
  <2>1. PICK o \in Outcomes :
          /\ Receive("cmd", o)
          /\ IF synced THEN cmdId' = (IF o.ok THEN FreeSlot ELSE 1) ELSE cmdId' \in AnyId
          /\ doubtful' = doubtful \cup Doubts(o, {1})
    BY <1>15 DEF EnrollIndex
  <2>2. inFlight' \subseteq Tasks /\ synced' \in BOOLEAN
    BY <2>1, LinkType
  <2>3. cmdId' \in 0 .. AllSlots
    BY <2>1, FreeSlotType
  <2>4. doubtful' \subseteq Ids
    BY <2>1, DoubtsType
  <2> QED
    BY <1>15, <2>2, <2>3, <2>4 DEF EnrollIndex
<1>16. CASE EnrollImage
  BY <1>16, LinkType DEF EnrollImage
<1>17. CASE EnrollStore
  <2>1. PICK o \in Outcomes :
          /\ Receive("cmd", o)
          /\ templates' = IF o.applied THEN Store(cmdId, model) ELSE templates
          /\ IF o.ok /\ (synced => cmdId \in Slots) /\ cmdId # Failed
             THEN CmdGoto("download") /\ cmdId' = cmdId
             ELSE CmdGoto("give") /\ cmdId' = Failed
          /\ doubtful' = doubtful \cup Doubts(o, {})
    BY <1>17 DEF EnrollStore
  <2>2. inFlight' \subseteq Tasks /\ synced' \in BOOLEAN
    BY <2>1, LinkType
  <2>3. templates' \in [Slots -> Fingers \cup {None}]
    BY <2>1, StoreType
  <2>4. doubtful' \subseteq Ids
    BY <2>1, DoubtsType
  <2>5. cmdId' \in 0 .. AllSlots /\ cmdPc' \in {"download", "give"}
    BY <2>1
  <2> QED
    BY <1>17, <2>2, <2>3, <2>4, <2>5 DEF EnrollStore
<1>18. CASE EnrollDownload
  BY <1>18, LinkType DEF EnrollDownload
<1>19. CASE DeleteTemplate
  <2>1. PICK o \in Outcomes :
          /\ Receive("cmd", o)
          /\ templates' = IF o.applied THEN Wipe(Target(cmdId)) ELSE templates
          /\ doubtful' = doubtful \cup Doubts(o, Target(cmdId))
                                  \cup (IF cmdId = AllSlots THEN Ids ELSE {})
          /\ CmdGoto(IF o.ok THEN "count" ELSE "idle")
    BY <1>19 DEF DeleteTemplate
  <2>2. inFlight' \subseteq Tasks /\ synced' \in BOOLEAN
    BY <2>1, LinkType
  <2>3. templates' \in [Slots -> Fingers \cup {None}]
    BY <2>1, WipeType
  <2>4. doubtful' \subseteq Ids
    BY <2>1, DoubtsType
  <2>5. cmdPc' \in {"count", "idle"}
    BY <2>1
  <2> QED
    BY <1>19, <2>2, <2>3, <2>4, <2>5 DEF DeleteTemplate
<1>20. CASE DeleteCount
  BY <1>20, LinkType DEF DeleteCount
<1>21. CASE DeleteBinding
  BY <1>21 DEF DeleteBinding
<1>22. CASE Restart
  <2>1. templates' \in [Slots -> Fingers \cup {None}]
    BY <1>22, StoreType, WipeType DEF Restart, Requested
  <2>2. doubtful' \subseteq Ids
    BY <1>22 DEF Restart, Interrupted, Target
  <2>3. connected' \in BOOLEAN /\ synced' \in BOOLEAN
    BY <1>22 DEF Restart
  <2>4. eraser' \in [Erasers -> {"idle", "empty", "clear"}]
    BY <1>22 DEF Restart
  <2>5. restarts' \in 0 .. MaxRestarts
    BY <1>22 DEF Restart
  <2> QED
    BY <1>22, <2>1, <2>2, <2>3, <2>4, <2>5 DEF Restart
<1>23. CASE face_delete_one
  BY <1>23, LinkType DEF face_delete_one
<1>24. CASE UNCHANGED vars
  BY <1>24 DEF vars
<1> QED
  BY <1>1, <1>2, <1>3, <1>4, <1>5, <1>6, <1>7, <1>8, <1>9, <1>10, <1>11, <1>12, <1>13, <1>14,
     <1>15, <1>16, <1>17, <1>18, <1>19, <1>20, <1>21, <1>22, <1>23, <1>24
     DEF Next, finger_auth, finger_collect_dec, delete_cmd, empty_all_dec

\* The variables keep their types, whatever the client and the link do.
THEOREM TypeCorrect == Spec => []TypeOK
<1>1. Init => TypeOK
  <2> SUFFICES ASSUME Init PROVE TypeOK
    OBVIOUS
  <2>1. connected \in BOOLEAN /\ synced \in BOOLEAN
    BY DEF Init
  <2>2. /\ templates \in [Slots -> Fingers \cup {None}]
        /\ cfg \in [Ids -> Fingers \cup {None}]
        /\ eraser \in [Erasers -> {"idle", "empty", "clear"}]
    BY DEF Init
  <2>3. /\ cmdId \in 0 .. AllSlots /\ pending \in (0 .. AllSlots) \X (Fingers \cup {None})
        /\ authId \in AnyId
    BY SlotAssumption DEF Init, AllSlots, Failed, AnyId
  <2>4. commands \in 0 .. MaxCommands /\ restarts \in 0 .. MaxRestarts
    BY BoundAssumption DEF Init
  <2> QED
    BY <2>1, <2>2, <2>3, <2>4 DEF Init, TypeOK, Scanning, Enrolling, Deleting, Tasks
<1> QED
  BY <1>1, NextType, PTL DEF Spec

-------------------------------------------------------------------------------
(***************************************************************************)
(* The templates.  From the reading of the index table to the storing of    *)
(* the template, the slot chosen stays free, unless an error left it        *)
(* doubtful: other tasks only empty slots, and a slot ceases to be doubtful *)
(* only when no enrolment is under way.                                     *)
(***************************************************************************)
Chosen == cmdPc \in {"image", "store"} /\ cmdId \in Slots \ doubtful => templates[cmdId] = None

\* What a store leaves in a slot.
LEMMA StoreAt ==
  ASSUME NEW s \in Slots, NEW t, NEW f, templates \in [Slots -> Fingers \cup {None}]
  PROVE  Store(t, f)[s] = IF s = t THEN f ELSE templates[s]
BY DEF Store

\* What an erase leaves in a slot.
LEMMA WipeAt ==
  ASSUME NEW s \in Slots, NEW S
  PROVE  Wipe(S)[s] = IF s \in S THEN None ELSE templates[s]
BY DEF Wipe

\* An answer that is believed is an answer to the request.
LEMMA Believed == \A o \in Outcomes : synced /\ o.ok => o.applied
BY DEF Outcomes

\* Out of step, an exchange leaves every id doubtful.
LEMMA DoubtsAll == \A o \in Outcomes : \A S : ~synced => Doubts(o, S) = Ids
BY DEF Doubts

\* An exchange that is not acknowledged leaves the ids it is about doubtful.
LEMMA DoubtsSome == \A o \in Outcomes : \A S : ~o.ok => S \cap Ids \subseteq Doubts(o, S)
BY DEF Doubts

\* Only the end of a delete or of an erase makes a slot certain again.
LEMMA DoubtsStay ==
  TypeOK /\ [Next]_vars => doubtful \subseteq doubtful' \/ cmdPc \in {"idle", "remove"}
<1> SUFFICES ASSUME TypeOK, [Next]_vars, cmdPc \notin {"idle", "remove"}
             PROVE  doubtful \subseteq doubtful'
  OBVIOUS
<1> USE DEF stores, auth, cmdVars, link, client
<1>1. CASE UNCHANGED stores
  BY <1>1
<1>2. CASE \/ EnrollIndex \/ EnrollStore \/ DeleteTemplate \/ Restart
           \/ \E e \in Erasers : EraserEmpty(e)
  BY <1>2 DEF EnrollIndex, EnrollStore, DeleteTemplate, Restart, EraserEmpty
<1>3. CASE \E e \in Erasers : EraserClear(e)
  BY <1>3 DEF EraserClear
<1> QED
  BY <1>1, <1>2, <1>3
     DEF Next, finger_auth, AuthCheck, AuthTake, AuthUntouched, AuthSend, AuthImage, AuthSearch,
         AuthLed, AuthGive, onConnect, onDisconnect, Enroll, DeleteFace, Delete, Start,
         MayCommand, Bind, EraseAll, empty_all_dec, EraserSend, CmdSend, finger_collect_dec,
         EnrollTake, EnrollImage, EnrollDownload, EnrollGive, EnrollReply, delete_cmd,
         DeleteCount, DeleteBinding, face_delete_one, vars

Storing == cmdPc = "store" /\ cmdPc' \notin {"image", "store"}

\* The slots are numbers between the two that stand for none and for all, and so are
\* the ids.
LEMMA SlotNumbers ==
  /\ Slots \subseteq Ids /\ Ids \subseteq Nat /\ AnyId = Ids \cup {Failed}
  /\ Failed \notin Ids /\ AllSlots \notin Ids
BY SlotAssumption DEF Slots, Ids, Beyond, AnyId, Failed, AllSlots

\* None of these sets changes.
LEMMA Rigid == /\ Slots' = Slots /\ Ids' = Ids /\ AnyId' = AnyId /\ Failed' = Failed
               /\ Deleting' = Deleting
BY DEF Slots, Ids, Beyond, AnyId, Failed, Deleting

\* A slot gets a template only when an enrolment stores it.
LEMMA OnlyStores ==
  TypeOK /\ [Next]_vars =>
    \A s \in Slots : templates'[s] \in {templates[s], None} \/ (s = cmdId /\ Storing)
<1> SUFFICES ASSUME TypeOK, [Next]_vars, NEW s \in Slots
             PROVE  templates'[s] \in {templates[s], None} \/ (s = cmdId /\ Storing)
  OBVIOUS
<1> USE DEF Storing, stores, auth, cmdVars, link, client, CmdGoto
<1>1. CASE UNCHANGED templates
  BY <1>1
<1>2. CASE EnrollStore
  BY <1>2, StoreAt DEF EnrollStore, TypeOK
<1>3. CASE DeleteTemplate
  BY <1>3, WipeAt DEF DeleteTemplate
<1>4. CASE \E e \in Erasers : EraserEmpty(e)
  BY <1>4, WipeAt DEF EraserEmpty
<1>5. CASE Restart
  <2>1. cmdPc' = "idle" /\ templates' \in Requested
    BY <1>5 DEF Restart
  <2>2. CASE templates' = Store(cmdId, model) /\ cmdPc = "store"
    BY <2>1, <2>2, StoreAt DEF TypeOK
  <2>3. CASE templates' = templates \/ \E S : templates' = Wipe(S)
    BY <2>3, WipeAt
  <2> QED
    BY <2>1, <2>2, <2>3 DEF Requested
<1> QED
  BY <1>1, <1>2, <1>3, <1>4, <1>5
     DEF Next, finger_auth, AuthCheck, AuthTake, AuthUntouched, AuthSend, AuthImage, AuthSearch,
         AuthLed, AuthGive, onConnect, onDisconnect, Enroll, DeleteFace, Delete, Start,
         MayCommand, Bind, EraseAll, empty_all_dec, EraserSend, EraserClear, CmdSend,
         finger_collect_dec, EnrollTake, EnrollIndex, EnrollImage, EnrollDownload, EnrollGive,
         EnrollReply, delete_cmd, DeleteCount, DeleteBinding, face_delete_one, vars

\* An enrolment comes to the images from the index table and keeps its slot from then on.
LEMMA SlotKept ==
  [Next]_vars /\ cmdPc' \in {"image", "store"} =>
    EnrollIndex \/ (cmdPc \in {"image", "store"} /\ cmdId' = cmdId)
<1> SUFFICES ASSUME [Next]_vars, cmdPc' \in {"image", "store"}
             PROVE  EnrollIndex \/ (cmdPc \in {"image", "store"} /\ cmdId' = cmdId)
  OBVIOUS
<1> USE DEF stores, auth, cmdVars, link, client, CmdGoto
<1>1. CASE UNCHANGED cmdVars
  BY <1>1
<1>2. CASE EnrollImage
  BY <1>2 DEF EnrollImage
<1> QED
  BY <1>1, <1>2
     DEF Next, finger_auth, AuthCheck, AuthTake, AuthUntouched, AuthSend, AuthImage, AuthSearch,
         AuthLed, AuthGive, onConnect, onDisconnect, Enroll, DeleteFace, Delete, Start,
         MayCommand, Bind, EraseAll, empty_all_dec, EraserSend, EraserEmpty, EraserClear, CmdSend,
         finger_collect_dec, EnrollTake, EnrollStore, EnrollDownload, EnrollGive, EnrollReply,
         delete_cmd, DeleteTemplate, DeleteCount, DeleteBinding, face_delete_one, Restart, vars

\* The slot chosen stays free.
LEMMA NextChosen == TypeOK /\ Chosen /\ [Next]_vars => Chosen'
<1> SUFFICES ASSUME TypeOK, Chosen, [Next]_vars,
                    cmdPc' \in {"image", "store"}, cmdId' \in Slots \ doubtful'
             PROVE  templates'[cmdId'] = None
  BY Rigid DEF Chosen
<1>1. CASE EnrollIndex
  <2>1. PICK o \in Outcomes :
          /\ IF synced THEN cmdId' = (IF o.ok THEN FreeSlot ELSE 1) ELSE cmdId' \in AnyId
          /\ doubtful' = doubtful \cup Doubts(o, {1})
          /\ templates' = templates
    BY <1>1 DEF EnrollIndex
  <2>2. synced /\ o.ok
    BY <2>1, SlotNumbers, DoubtsAll, DoubtsSome
  <2> QED
    BY <2>1, <2>2, FreeSlotType
<1>2. CASE cmdPc \in {"image", "store"} /\ cmdId' = cmdId
  <2>1. templates[cmdId] = None
    BY <1>2, DoubtsStay DEF Chosen
  <2> QED
    BY <1>2, <2>1, OnlyStores DEF Storing
<1> QED
  BY <1>1, <1>2, SlotKept

\* The slot an enrolment stores to was free, whoever else was at work.
THEOREM ChosenFree == Spec => []Chosen
<1>1. Init => Chosen
  BY DEF Init, Chosen
<1> QED
  BY <1>1, NextChosen, TypeCorrect, PTL DEF Spec

(***************************************************************************)
(* With any client, any number of erasers and a link with faults: a         *)
(* template is erased or stays, it is not replaced, except in a slot that   *)
(* an error left doubtful.                                                  *)
(***************************************************************************)
THEOREM NoneReplaced == Spec => TemplatesNotReplaced
<1>1. TypeOK /\ Chosen /\ [Next]_vars
        => [\A s \in Slots \ doubtful' :
              templates[s] # None => templates'[s] \in {None, templates[s]}]_vars
  <2> SUFFICES ASSUME TypeOK, Chosen, [Next]_vars, NEW s \in Slots \ doubtful',
                      templates[s] # None
               PROVE  templates'[s] \in {None, templates[s]}
    OBVIOUS
  <2>1. CASE s = cmdId /\ cmdPc = "store"
    BY <2>1, DoubtsStay DEF Chosen
  <2> QED
    BY <2>1, OnlyStores DEF Storing
<1> QED
  BY <1>1, TypeCorrect, ChosenFree, PTL DEF Spec, TemplatesNotReplaced

-------------------------------------------------------------------------------
(***************************************************************************)
(* Sensor and flash, for a careful client.  Its commands and its erasures   *)
(* come one at a time; the slot of an enrolment is neither taken nor bound  *)
(* until its template is stored; the slot of a delete is not the one the    *)
(* client was told last.                                                    *)
(***************************************************************************)
OneAtATime ==
  /\ cmdPc # "idle" => \A e \in Erasers : eraser[e] = "idle"
  /\ \A e \in Erasers : eraser[e] # "idle" => pending[1] = Failed
  /\ \A e \in Erasers : e \in inFlight => eraser[e] = "empty"

Enrolment ==
  /\ cmdPc = "take" => cmdId = Failed
  /\ cmdPc = "store" => model \in Fingers
  /\ cmdPc \in {"image", "store"} /\ cmdId \in Slots \ doubtful => cfg[cmdId] = None
  /\ cmdPc \in {"image", "store"} => cmdId \in AnyId
  /\ cmdPc \in {"download", "give", "reply"} /\ cmdId # Failed =>
       /\ model \in Fingers /\ cmdId \in Ids
       /\ cmdId \notin doubtful => cmdId \in Slots /\ templates[cmdId] = model

Deletion == cmdPc \in Deleting => cmdId \in Ids /\ pending[1] # cmdId

Told == pending[1] # Failed => pending[1] \in Ids /\ pending[2] \in Fingers

Agreement == OneAtATime /\ Enrolment /\ Deletion /\ Told /\ StoresAgree /\ EnrolmentKept

\* The state a step leaves when it is no business of the client's.
Elsewhere ==
  /\ UNCHANGED <<cmdPc, cmdId, model, eraser, templates, cfg, doubtful, pending>>
  /\ inFlight' \cap Erasers \subseteq inFlight

\* The steps of the scanner, the connection and the requests of the parser.
LEMMA StepsElsewhere ==
  \/ finger_auth \/ onConnect \/ onDisconnect \/ CmdSend \/ UNCHANGED vars => Elsewhere
<1> SUFFICES ASSUME finger_auth \/ onConnect \/ onDisconnect \/ CmdSend \/ UNCHANGED vars
             PROVE  Elsewhere
  OBVIOUS
<1> USE DEF Elsewhere, stores, auth, cmdVars, link, client
<1>1. CASE UNCHANGED vars \/ onConnect \/ onDisconnect
  BY <1>1 DEF onConnect, onDisconnect, vars
<1>2. CASE CmdSend \/ AuthSend
  BY <1>2, TaskAssumption DEF CmdSend, AuthSend, Send
<1>3. CASE AuthImage \/ AuthSearch \/ AuthLed
  BY <1>3 DEF AuthImage, AuthSearch, AuthLed, Receive
<1>4. CASE AuthCheck \/ AuthTake \/ AuthUntouched \/ AuthGive
  BY <1>4 DEF AuthCheck, AuthTake, AuthUntouched, AuthGive
<1> QED
  BY <1>1, <1>2, <1>3, <1>4 DEF finger_auth

\* Such steps keep the agreement.
LEMMA ElsewhereAgrees == Agreement /\ Elsewhere => Agreement'
<1> SUFFICES ASSUME Agreement, Elsewhere PROVE Agreement'
  OBVIOUS
<1> USE DEF Agreement, Elsewhere
<1>1. OneAtATime'
  BY DEF OneAtATime
<1>2. Enrolment' /\ Deletion' /\ Told'
  BY Rigid DEF Enrolment, Deletion, Told
<1>3. StoresAgree'
  BY Rigid DEF StoresAgree, BeingErased, Target
<1>4. EnrolmentKept'
  BY Rigid DEF EnrolmentKept
<1> QED
  BY <1>1, <1>2, <1>3, <1>4

\* A careful client's next command keeps the agreement.
LEMMA ClientAgrees ==
  /\ Careful /\ TypeOK /\ Agreement
  /\ \/ Enroll \/ DeleteFace \/ \E id \in Ids \cup {AllSlots} : Delete(id)
     \/ \E s \in Ids, f \in Fingers : Bind(s, f)
     \/ \E e \in Erasers : EraseAll(e)
  => Agreement'
<1> SUFFICES ASSUME Careful, TypeOK, Agreement,
                    \/ Enroll \/ DeleteFace \/ \E id \in Ids \cup {AllSlots} : Delete(id)
                    \/ \E s \in Ids, f \in Fingers : Bind(s, f)
                    \/ \E e \in Erasers : EraseAll(e)
             PROVE  Agreement'
  OBVIOUS
<1>1. cmdPc = "idle" /\ \A e \in Erasers : eraser[e] = "idle"
  BY DEF Enroll, DeleteFace, Delete, Start, Bind, EraseAll, MayCommand
<1>2. UNCHANGED <<inFlight, templates, doubtful>>
  BY DEF Enroll, DeleteFace, Delete, Start, Bind, EraseAll, link, stores
<1>3. CASE Enroll \/ DeleteFace
  <2>1. cmdPc' \in {"take", "face"} /\ cmdId' = Failed /\ UNCHANGED <<eraser, cfg, pending>>
    BY <1>3 DEF Enroll, DeleteFace, Start, stores
  <2>2. OneAtATime'
    BY <1>1, <1>2, <2>1 DEF Agreement, OneAtATime
  <2>3. Enrolment' /\ Deletion' /\ Told'
    BY <2>1, Rigid DEF Agreement, Enrolment, Deletion, Deleting, Told
  <2>4. StoresAgree'
    BY <1>1, <1>2, <2>1, Rigid DEF Agreement, StoresAgree, BeingErased, Deleting
  <2>5. EnrolmentKept'
    BY <1>2, <2>1, Rigid DEF Agreement, EnrolmentKept
  <2> QED
    BY <2>2, <2>3, <2>4, <2>5 DEF Agreement
<1>4. CASE \E id \in Ids \cup {AllSlots} : Delete(id)
  <2>1. PICK id \in Ids : Delete(id)
    BY <1>4, SlotNumbers DEF Delete
  <2>2. /\ cmdPc' = "del" /\ cmdId' = id /\ UNCHANGED <<eraser, cfg>>
        /\ pending' = IF pending[1] = id THEN <<Failed, None>> ELSE pending
    BY <2>1 DEF Delete, Start, stores
  <2>3. pending'[1] # id /\ (pending'[1] # Failed => pending' = pending)
    BY <2>1, <2>2, SlotNumbers
  <2>4. OneAtATime'
    BY <1>1, <1>2, <2>2 DEF Agreement, OneAtATime
  <2>5. Enrolment' /\ Deletion' /\ Told'
    BY <2>1, <2>2, <2>3, Rigid DEF Agreement, Enrolment, Deletion, Told
  <2>6. StoresAgree'
    BY <1>1, <1>2, <2>2, Rigid DEF Agreement, StoresAgree, BeingErased, Deleting
  <2>7. EnrolmentKept'
    BY <1>2, <2>2, <2>3, Rigid DEF Agreement, EnrolmentKept
  <2> QED
    BY <2>4, <2>5, <2>6, <2>7 DEF Agreement
<1>5. CASE \E s \in Ids, f \in Fingers : Bind(s, f)
  <2>1. PICK s \in Ids, f \in Fingers : Bind(s, f)
    BY <1>5
  <2>2. /\ pending = <<s, f>> /\ cfg' = [cfg EXCEPT ![s] = f]
        /\ UNCHANGED <<cmdPc, cmdId, model, eraser, pending>>
    BY <2>1 DEF Bind, MayCommand, cmdVars
  <2>3. OneAtATime'
    BY <1>1, <1>2, <2>2 DEF Agreement, OneAtATime
  <2>4. Enrolment' /\ Deletion' /\ Told'
    BY <1>1, <2>2, Rigid DEF Agreement, Enrolment, Deletion, Told
  <2>5. StoresAgree'
    <3> SUFFICES ASSUME NEW t \in Ids \ doubtful', cfg'[t] # None
                 PROVE  t \in Slots /\ templates'[t] = cfg'[t]
      BY Rigid DEF StoresAgree
    <3>1. CASE t = s
      BY <1>2, <2>1, <2>2, <3>1, SlotNumbers DEF TypeOK, Agreement, EnrolmentKept
    <3>2. CASE t # s
      BY <1>1, <1>2, <2>2, <3>2 DEF TypeOK, Agreement, StoresAgree, BeingErased, Deleting
    <3> QED
      BY <3>1, <3>2
  <2>6. EnrolmentKept'
    BY <1>2, <2>2, Rigid DEF Agreement, EnrolmentKept
  <2> QED
    BY <2>3, <2>4, <2>5, <2>6 DEF Agreement
<1>6. CASE \E e \in Erasers : EraseAll(e)
  <2>1. PICK e \in Erasers : EraseAll(e)
    BY <1>6
  <2>2. /\ eraser' = [eraser EXCEPT ![e] = "empty"] /\ pending' = <<Failed, None>>
        /\ UNCHANGED <<cmdPc, cmdId, model, cfg>>
    BY <2>1 DEF EraseAll, cmdVars, stores
  <2>3. OneAtATime'
    BY <1>1, <1>2, <2>2 DEF TypeOK, Agreement, OneAtATime
  <2>4. Enrolment' /\ Deletion' /\ Told'
    BY <1>1, <2>2, SlotNumbers, Rigid DEF Agreement, Enrolment, Deletion, Told
  <2>5. StoresAgree'
    BY <1>1, <1>2, <2>2, Rigid DEF Agreement, StoresAgree, BeingErased
  <2>6. EnrolmentKept'
    BY <2>2, SlotNumbers, Rigid DEF EnrolmentKept
  <2> QED
    BY <2>3, <2>4, <2>5, <2>6 DEF Agreement
<1> QED
  BY <1>3, <1>4, <1>5, <1>6

\* An erase keeps the agreement: an answer that did not come leaves every slot doubtful.
LEMMA EraserAgrees ==
  TypeOK /\ Agreement /\ (\E e \in Erasers : empty_all_dec(e)) => Agreement'
<1> SUFFICES ASSUME TypeOK, Agreement, NEW e \in Erasers, empty_all_dec(e) PROVE Agreement'
  OBVIOUS
<1>1. UNCHANGED <<cmdPc, cmdId, model, pending>>
  BY DEF empty_all_dec, EraserSend, EraserEmpty, EraserClear, cmdVars, client
<1>2. eraser[e] # "idle" /\ cmdPc = "idle" /\ pending[1] = Failed
  BY DEF empty_all_dec, EraserSend, EraserEmpty, EraserClear, Agreement, OneAtATime
<1>3. Enrolment' /\ Deletion' /\ Told' /\ EnrolmentKept'
  BY <1>1, <1>2, SlotNumbers, Rigid DEF Enrolment, Deletion, Deleting, Told, EnrolmentKept
<1>4. CASE EraserSend(e)
  <2>1. /\ eraser[e] = "empty" /\ inFlight' = inFlight \cup {e}
        /\ UNCHANGED <<eraser, templates, cfg, doubtful>>
    BY <1>4 DEF EraserSend, Send, stores
  <2>2. OneAtATime'
    BY <1>1, <2>1 DEF Agreement, OneAtATime
  <2>3. StoresAgree'
    BY <1>1, <2>1, Rigid DEF Agreement, StoresAgree, BeingErased, Target
  <2> QED
    BY <1>3, <2>2, <2>3 DEF Agreement
<1>5. CASE EraserEmpty(e)
  <2>1. PICK o \in Outcomes :
          /\ Receive(e, o)
          /\ templates' = IF o.applied THEN Wipe(Slots) ELSE templates
          /\ doubtful' = doubtful \cup Doubts(o, Ids)
          /\ EraserGoto(e, IF o.ok THEN "clear" ELSE "idle")
          /\ cfg' = cfg
    BY <1>5 DEF EraserEmpty
  <2>2. inFlight' = inFlight \ {e}
    BY <2>1 DEF Receive
  <2>3. eraser' = [eraser EXCEPT ![e] = IF o.ok THEN "clear" ELSE "idle"]
    BY <2>1 DEF EraserGoto
  <2>4. OneAtATime'
    BY <1>1, <1>2, <2>2, <2>3 DEF TypeOK, Agreement, OneAtATime
  <2>5. CASE o.ok
    <3> SUFFICES ASSUME NEW s \in Ids \ doubtful', cfg'[s] # None
                 PROVE  /\ s \in Slots
                        /\ templates'[s] = cfg'[s] \/ (templates'[s] = None /\ eraser'[e] # "idle")
      BY <1>3, <2>4, Rigid DEF StoresAgree, BeingErased, Agreement
    <3>1. s \in Slots /\ (templates[s] = cfg[s] \/ templates[s] = None)
      <4>1. s \notin doubtful /\ cfg[s] # None
        BY <2>1
      <4> QED
        BY <4>1 DEF Agreement, StoresAgree
    <3>2. templates'[s] = templates[s] \/ templates'[s] = None
      BY <2>1, <3>1, WipeAt
    <3>3. eraser'[e] # "idle"
      BY <2>3, <2>5 DEF TypeOK
    <3> QED
      BY <2>1, <3>1, <3>2, <3>3
  <2>6. CASE ~o.ok
    <3>1. doubtful' = Ids
      BY <2>1, <2>6, DoubtsSome, DoubtsType DEF TypeOK
    <3>2. StoresAgree'
      BY <3>1, Rigid DEF StoresAgree
    <3> QED
      BY <1>3, <2>4, <3>2 DEF Agreement
  <2> QED
    BY <2>5, <2>6
<1>6. CASE EraserClear(e)
  <2>1. /\ eraser' = [eraser EXCEPT ![e] = "idle"] /\ eraser[e] = "clear"
        /\ cfg' = [s \in Ids |-> None] /\ inFlight' = inFlight
    BY <1>6 DEF EraserClear, EraserGoto, link
  <2>2. OneAtATime'
    BY <1>1, <1>2, <2>1 DEF TypeOK, Agreement, OneAtATime
  <2>3. StoresAgree'
    BY <2>1, Rigid DEF StoresAgree
  <2> QED
    BY <1>3, <2>2, <2>3 DEF Agreement
<1> QED
  BY <1>4, <1>5, <1>6 DEF empty_all_dec

\* An enrolment keeps the agreement: the slot it stores to is free and not bound.
LEMMA EnrolmentAgrees ==
  TypeOK /\ Chosen /\ Agreement /\ finger_collect_dec => Agreement'
<1> SUFFICES ASSUME TypeOK, Chosen, Agreement, finger_collect_dec PROVE Agreement'
  OBVIOUS
<1>1. UNCHANGED <<eraser, cfg>>
  BY DEF finger_collect_dec, EnrollTake, EnrollIndex, EnrollImage, EnrollStore, EnrollDownload,
         EnrollGive, EnrollReply, stores
<1>2. inFlight' \subseteq inFlight
  BY DEF finger_collect_dec, EnrollTake, EnrollIndex, EnrollImage, EnrollStore, EnrollDownload,
         EnrollGive, EnrollReply, Receive, link
<1>3. cmdPc \notin Deleting \cup {"idle"} /\ cmdPc' \notin Deleting
  BY DEF finger_collect_dec, EnrollTake, EnrollIndex, EnrollImage, EnrollStore, EnrollDownload,
         EnrollGive, EnrollReply, CmdGoto, Deleting
<1>4. \A e \in Erasers : eraser[e] = "idle"
  BY <1>3 DEF Agreement, OneAtATime
<1>5. OneAtATime' /\ Deletion'
  BY <1>1, <1>2, <1>3, <1>4 DEF Agreement, OneAtATime, Deletion
<1>6. /\ doubtful \subseteq doubtful'
      /\ templates' = templates => StoresAgree'
  <2>1. doubtful \subseteq doubtful'
    BY DEF finger_collect_dec, EnrollTake, EnrollIndex, EnrollImage, EnrollStore, EnrollDownload,
           EnrollGive, EnrollReply, stores
  <2>2. \A s \in Ids \ doubtful : cfg[s] # None => s \in Slots /\ templates[s] = cfg[s]
    BY <1>3, <1>4 DEF Agreement, StoresAgree, BeingErased
  <2> QED
    BY <1>1, <2>1, <2>2, Rigid DEF StoresAgree
<1>7. /\ pending' = pending => Told'
      /\ pending' = pending /\ templates' = templates => EnrolmentKept'
  BY <1>6, Rigid DEF Agreement, Told, EnrolmentKept
<1>8. CASE EnrollTake \/ EnrollGive \/ EnrollDownload
  <2>1. /\ UNCHANGED <<cmdId, model, templates, doubtful, pending>>
        /\ cmdPc' \in {"index", "reply", "give"}
        /\ cmdPc \in {"take", "give", "download"}
        /\ cmdPc' \in {"reply", "give"} => cmdPc \in {"give", "download"} \/ cmdId = Failed
    BY <1>8 DEF EnrollTake, EnrollGive, EnrollDownload, CmdGoto, cmdVars, stores, client,
                Agreement, Enrolment
  <2>2. Enrolment'
    BY <1>1, <2>1, SlotNumbers, Rigid DEF Agreement, Enrolment
  <2> QED
    BY <1>5, <1>6, <1>7, <2>1, <2>2 DEF Agreement
<1>9. CASE EnrollIndex
  <2>1. PICK o \in Outcomes :
          /\ IF synced THEN cmdId' = (IF o.ok THEN FreeSlot ELSE 1) ELSE cmdId' \in AnyId
          /\ doubtful' = doubtful \cup Doubts(o, {1})
    BY <1>9 DEF EnrollIndex
  <2>2. cmdPc' = "image" /\ UNCHANGED <<model, templates, pending>>
    BY <1>9 DEF EnrollIndex, CmdGoto, client
  <2>3. ASSUME cmdId' \in Slots \ doubtful' PROVE cfg'[cmdId'] = None
    <3>1. synced /\ o.ok
      BY <2>1, <2>3, SlotNumbers, DoubtsAll, DoubtsSome
    <3>2. templates[cmdId'] = None
      BY <2>1, <2>3, <3>1, FreeSlotType
    <3> QED
      BY <1>1, <1>3, <1>4, <1>6, <2>3, <3>2, SlotNumbers DEF Agreement, StoresAgree, BeingErased
  <2>4. cmdId' \in AnyId
    BY <2>1, FreeSlotType, SlotNumbers, SlotAssumption DEF Ids, Beyond
  <2>5. Enrolment'
    BY <2>2, <2>3, <2>4, Rigid DEF Enrolment
  <2> QED
    BY <1>5, <1>6, <1>7, <2>2, <2>5 DEF Agreement
<1>10. CASE EnrollImage
  <2>1. /\ UNCHANGED <<templates, doubtful, pending>> /\ cmdPc = "image"
        /\ \/ cmdPc' = "image" /\ cmdId' = cmdId
           \/ cmdPc' = "give" /\ cmdId' = Failed
           \/ cmdPc' = "store" /\ cmdId' = cmdId /\ model' \in Fingers
    BY <1>10 DEF EnrollImage, CmdGoto, stores, client
  <2>2. Enrolment'
    BY <1>1, <2>1, SlotNumbers, Rigid DEF Agreement, Enrolment
  <2> QED
    BY <1>5, <1>6, <1>7, <2>1, <2>2 DEF Agreement
<1>11. CASE EnrollStore
  <2>1. PICK o \in Outcomes :
          /\ templates' = IF o.applied THEN Store(cmdId, model) ELSE templates
          /\ IF o.ok /\ (synced => cmdId \in Slots) /\ cmdId # Failed
             THEN CmdGoto("download") /\ cmdId' = cmdId
             ELSE CmdGoto("give") /\ cmdId' = Failed
          /\ doubtful' = doubtful \cup Doubts(o, {})
    BY <1>11 DEF EnrollStore
  <2>2. cmdPc = "store" /\ model \in Fingers /\ UNCHANGED <<model, pending>>
    BY <1>11 DEF EnrollStore, client, Agreement, Enrolment
  <2>3. \A s \in Slots : s # cmdId => templates'[s] = templates[s]
    BY <2>1, StoreAt DEF TypeOK
  <2>4. cmdId \in Slots \ doubtful => cfg[cmdId] = None /\ templates[cmdId] = None
    BY <2>2 DEF Agreement, Enrolment, Chosen
  <2>5. Enrolment'
    <3>1. CASE o.ok /\ (synced => cmdId \in Slots) /\ cmdId # Failed
      <4>1. cmdPc' = "download" /\ cmdId' = cmdId
        BY <2>1, <3>1 DEF CmdGoto
      <4>2. cmdId \in Ids
        BY <2>2, <3>1, SlotNumbers DEF Agreement, Enrolment
      <4>3. ASSUME cmdId \notin doubtful' PROVE cmdId \in Slots /\ templates'[cmdId] = model
        <5>1. synced
          BY <2>1, <4>2, <4>3, DoubtsAll
        <5> QED
          BY <2>1, <3>1, <5>1, Believed, StoreAt DEF TypeOK
      <4> QED
        BY <2>2, <4>1, <4>2, <4>3, Rigid DEF Enrolment
    <3>2. CASE ~(o.ok /\ (synced => cmdId \in Slots) /\ cmdId # Failed)
      BY <2>1, <3>2, SlotNumbers, Rigid DEF CmdGoto, Enrolment
    <3> QED
      BY <3>1, <3>2
  <2>6. StoresAgree'
    <3> SUFFICES ASSUME NEW s \in Ids \ doubtful', cfg'[s] # None
                 PROVE  s \in Slots /\ templates'[s] = cfg'[s]
      BY Rigid DEF StoresAgree
    <3>1. s \in Slots \ doubtful /\ templates[s] = cfg[s]
      BY <1>1, <1>3, <1>4, <1>6 DEF Agreement, StoresAgree, BeingErased
    <3>2. s # cmdId
      BY <1>1, <2>4, <3>1
    <3> QED
      BY <1>1, <2>3, <3>1, <3>2
  <2>7. EnrolmentKept'
    <3> SUFFICES ASSUME pending[1] \notin doubtful', pending[1] # Failed
                 PROVE  pending[1] \in Slots /\ templates'[pending[1]] = pending[2]
      BY <2>2, Rigid DEF EnrolmentKept
    <3>1. /\ pending[2] \in Fingers /\ pending[1] \in Slots \ doubtful
          /\ templates[pending[1]] = pending[2]
      BY <1>6 DEF Agreement, Told, EnrolmentKept
    <3>2. pending[1] # cmdId
      BY <1>6, <2>4, <3>1, FingerAssumption
    <3> QED
      BY <2>3, <3>1, <3>2
  <2> QED
    BY <1>5, <1>7, <2>2, <2>5, <2>6, <2>7 DEF Agreement
<1>12. CASE EnrollReply
  <2>1. /\ cmdPc = "reply" /\ cmdPc' = "idle" /\ UNCHANGED <<cmdId, model, templates, doubtful>>
        /\ pending' = IF cmdId # Failed THEN <<cmdId, model>> ELSE pending
    BY <1>12 DEF EnrollReply, CmdGoto, stores
  <2>2. Enrolment'
    BY <2>1 DEF Enrolment
  <2>3. Told' /\ EnrolmentKept'
    BY <1>7, <2>1, Rigid DEF Agreement, Enrolment, Told, EnrolmentKept
  <2> QED
    BY <1>5, <1>6, <2>1, <2>2, <2>3 DEF Agreement
<1> QED
  BY <1>8, <1>9, <1>10, <1>11, <1>12 DEF finger_collect_dec

\* A delete keeps the agreement: the template goes before the binding, and a delete
\* that is not acknowledged leaves the slot doubtful.
LEMMA DeletionAgrees == TypeOK /\ Agreement /\ delete_cmd => Agreement'
<1> SUFFICES ASSUME TypeOK, Agreement, delete_cmd PROVE Agreement'
  OBVIOUS
<1>1. UNCHANGED <<cmdId, model, eraser, pending>> /\ inFlight' \subseteq inFlight
  BY DEF delete_cmd, DeleteTemplate, DeleteCount, DeleteBinding, Receive, link, client
<1>2. cmdPc \in Deleting /\ cmdPc' \in Deleting \cup {"idle"}
  BY DEF delete_cmd, DeleteTemplate, DeleteCount, DeleteBinding, CmdGoto, Deleting
<1>3. \A e \in Erasers : eraser[e] = "idle"
  BY <1>2 DEF Agreement, OneAtATime, Deleting
<1>4. cmdId \in Ids /\ pending[1] # cmdId /\ Target(cmdId) = {cmdId} \cap Slots
  BY <1>2, SlotNumbers DEF Agreement, Deletion, Target
<1>5. OneAtATime' /\ Enrolment' /\ Deletion' /\ Told'
  BY <1>1, <1>2, <1>3, <1>4, Rigid
     DEF Agreement, OneAtATime, Enrolment, Deletion, Deleting, Told
<1>6. \A s \in Ids \ doubtful : cfg[s] # None =>
        s \in Slots /\ (templates[s] = cfg[s] \/ (templates[s] = None /\ s = cmdId))
  BY <1>3, <1>4 DEF Agreement, StoresAgree, BeingErased
<1>7. CASE DeleteTemplate
  <2>1. PICK o \in Outcomes :
          /\ templates' = IF o.applied THEN Wipe(Target(cmdId)) ELSE templates
          /\ doubtful' = doubtful \cup Doubts(o, Target(cmdId))
                                  \cup (IF cmdId = AllSlots THEN Ids ELSE {})
          /\ CmdGoto(IF o.ok THEN "count" ELSE "idle")
          /\ cfg' = cfg
    BY <1>7 DEF DeleteTemplate
  <2>2. \A s \in Slots : \/ templates'[s] = templates[s]
                         \/ templates'[s] = None /\ s = cmdId
    BY <1>4, <2>1, WipeAt
  <2>3. EnrolmentKept'
    BY <1>1, <1>4, <2>1, <2>2, Rigid DEF Agreement, EnrolmentKept
  <2>4. StoresAgree'
    <3> SUFFICES ASSUME NEW s \in Ids \ doubtful', cfg'[s] # None
                 PROVE  /\ s \in Slots
                        /\ \/ templates'[s] = cfg'[s]
                           \/ templates'[s] = None /\ cmdPc' \in Deleting /\ s = cmdId
      BY <1>1, <1>4, Rigid DEF StoresAgree, BeingErased, Target
    <3>1. s \in Slots /\ (templates'[s] = cfg'[s] \/ (templates'[s] = None /\ s = cmdId))
      BY <1>6, <2>1, <2>2
    <3>2. s = cmdId => o.ok
      BY <1>4, <2>1, <3>1, SlotNumbers, DoubtsSome
    <3> QED
      BY <2>1, <3>1, <3>2 DEF CmdGoto, Deleting
  <2> QED
    BY <1>5, <2>3, <2>4 DEF Agreement
<1>8. CASE DeleteCount
  <2>1. cmdPc' = "remove" /\ UNCHANGED <<templates, cfg, doubtful>>
    BY <1>8 DEF DeleteCount, CmdGoto, stores
  <2>2. EnrolmentKept'
    BY <1>1, <2>1, Rigid DEF Agreement, EnrolmentKept
  <2>3. StoresAgree'
    BY <1>1, <1>4, <1>6, <2>1, Rigid DEF StoresAgree, BeingErased, Deleting, Target
  <2> QED
    BY <1>5, <2>2, <2>3 DEF Agreement
<1>9. CASE DeleteBinding
  <2>1. /\ cfg' = [s \in Ids |-> IF s = cmdId THEN None ELSE cfg[s]] /\ templates' = templates
        /\ doubtful \ {cmdId} \subseteq doubtful'
    BY <1>9 DEF DeleteBinding
  <2>2. EnrolmentKept'
    BY <1>1, <1>4, <2>1, Rigid DEF Agreement, EnrolmentKept
  <2>3. StoresAgree'
    <3> SUFFICES ASSUME NEW s \in Ids \ doubtful', cfg'[s] # None
                 PROVE  s \in Slots /\ templates'[s] = cfg'[s]
      BY Rigid DEF StoresAgree
    <3>1. s # cmdId /\ cfg'[s] = cfg[s] /\ s \notin doubtful
      BY <2>1
    <3> QED
      BY <1>6, <2>1, <3>1
  <2> QED
    BY <1>5, <2>2, <2>3 DEF Agreement
<1> QED
  BY <1>7, <1>8, <1>9 DEF delete_cmd

\* 0x65 has no business with the stores.
LEMMA FaceAgrees == Agreement /\ face_delete_one => Agreement'
<1> SUFFICES ASSUME Agreement, face_delete_one PROVE Agreement'
  OBVIOUS
<1>1. /\ cmdPc = "face" /\ cmdPc' = "idle" /\ inFlight' \subseteq inFlight
      /\ UNCHANGED <<cmdId, model, eraser, templates, cfg, doubtful, pending>>
  BY DEF face_delete_one, CmdGoto, Receive, stores, client
<1>2. OneAtATime' /\ Enrolment' /\ Deletion' /\ Told'
  BY <1>1, Rigid DEF Agreement, OneAtATime, Enrolment, Deletion, Deleting, Told
<1>3. StoresAgree'
  BY <1>1, Rigid DEF Agreement, StoresAgree, BeingErased, Deleting
<1>4. EnrolmentKept'
  BY <1>1, Rigid DEF Agreement, EnrolmentKept
<1> QED
  BY <1>2, <1>3, <1>4 DEF Agreement

\* A restart keeps the agreement: what the sensor may still have done is at slots that
\* were free and not bound, or that are doubtful now.
LEMMA RestartAgrees == TypeOK /\ Chosen /\ Agreement /\ Restart => Agreement'
<1> SUFFICES ASSUME TypeOK, Chosen, Agreement, Restart PROVE Agreement'
  OBVIOUS
<1>1. /\ templates' \in Requested /\ doubtful' = doubtful \cup Interrupted
      /\ cmdPc' = "idle" /\ eraser' = [e \in Erasers |-> "idle"] /\ inFlight' = {}
      /\ UNCHANGED <<cfg, pending>>
  BY DEF Restart, client
<1>2. OneAtATime' /\ Enrolment' /\ Deletion' /\ Told'
  BY <1>1, Rigid DEF Agreement, OneAtATime, Enrolment, Deletion, Deleting, Told
<1>3. ASSUME NEW s \in Ids \ doubtful'
      PROVE  /\ s \notin doubtful
             /\ \A e \in Erasers : eraser[e] = "idle"
             /\ ~BeingErased(s)
  BY <1>1 DEF Interrupted, BeingErased, Deleting
<1>4. ASSUME NEW s \in Slots \ doubtful'
      PROVE  \/ templates'[s] = templates[s]
             \/ s = cmdId /\ cmdPc = "store"
  <2>1. CASE templates' = templates
    BY <2>1
  <2>2. CASE cmdPc = "store" /\ templates' = Store(cmdId, model)
    BY <2>2, StoreAt DEF TypeOK
  <2>3. CASE cmdPc = "del" /\ templates' = Wipe(Target(cmdId))
    <3>1. s \notin Target(cmdId)
      BY <1>1, <2>3 DEF Interrupted
    <3> QED
      BY <2>3, <3>1, WipeAt
  <2>4. CASE \E e \in Erasers : e \in inFlight
    BY <1>3, <2>4, SlotNumbers DEF Agreement, OneAtATime
  <2> QED
    BY <1>1, <2>1, <2>2, <2>3, <2>4 DEF Requested
<1>5. ASSUME NEW s \in Slots \ doubtful', s = cmdId, cmdPc = "store"
      PROVE  templates[s] = None /\ cfg[s] = None
  BY <1>3, <1>5, SlotNumbers DEF Chosen, Agreement, Enrolment
<1>6. StoresAgree'
  <2> SUFFICES ASSUME NEW s \in Ids \ doubtful', cfg'[s] # None
               PROVE  s \in Slots /\ templates'[s] = cfg'[s]
    BY Rigid DEF StoresAgree
  <2>1. s \in Slots /\ templates[s] = cfg[s]
    BY <1>1, <1>3 DEF Agreement, StoresAgree
  <2>2. templates'[s] = templates[s]
    BY <1>1, <1>4, <1>5, <2>1
  <2> QED
    BY <1>1, <2>1, <2>2
<1>7. EnrolmentKept'
  <2> SUFFICES ASSUME pending[1] \notin doubtful', pending[1] # Failed
               PROVE  pending[1] \in Slots /\ templates'[pending[1]] = pending[2]
    BY <1>1, Rigid DEF EnrolmentKept
  <2>1. /\ pending[2] \in Fingers /\ pending[1] \in Slots \ doubtful
        /\ templates[pending[1]] = pending[2]
    BY <1>1 DEF Agreement, Told, EnrolmentKept
  <2> QED
    BY <1>4, <1>5, <2>1, FingerAssumption
<1> QED
  BY <1>2, <1>6, <1>7 DEF Agreement

\* Every step of a system with a careful client keeps the agreement.
LEMMA NextAgrees == Careful /\ TypeOK /\ Chosen /\ Agreement /\ [Next]_vars => Agreement'
<1> SUFFICES ASSUME Careful, TypeOK, Chosen, Agreement, [Next]_vars PROVE Agreement'
  OBVIOUS
<1>1. CASE finger_auth \/ onConnect \/ onDisconnect \/ CmdSend \/ UNCHANGED vars
  BY <1>1, StepsElsewhere, ElsewhereAgrees
<1>2. CASE \/ Enroll \/ DeleteFace \/ \E id \in Ids \cup {AllSlots} : Delete(id)
           \/ \E s \in Ids, f \in Fingers : Bind(s, f)
           \/ \E e \in Erasers : EraseAll(e)
  BY <1>2, ClientAgrees
<1>3. CASE \E e \in Erasers : empty_all_dec(e)
  BY <1>3, EraserAgrees
<1>4. CASE finger_collect_dec
  BY <1>4, EnrolmentAgrees
<1>5. CASE delete_cmd \/ face_delete_one
  BY <1>5, DeletionAgrees, FaceAgrees
<1>6. CASE Restart
  BY <1>6, RestartAgrees
<1> QED
  BY <1>1, <1>2, <1>3, <1>4, <1>5, <1>6 DEF Next

\* The agreement holds in every reachable state of such a system.
THEOREM AgreementInductive == ASSUME Careful PROVE Spec => []Agreement
<1>1. Init => Agreement
  <2> SUFFICES ASSUME Init PROVE Agreement
    OBVIOUS
  <2>1. pending[1] \notin Slots /\ pending[1] = Failed
    BY SlotNumbers DEF Init
  <2>2. OneAtATime /\ Enrolment /\ Deletion /\ Told /\ EnrolmentKept
    BY <2>1 DEF Init, OneAtATime, Enrolment, Deletion, Deleting, Told, EnrolmentKept
  <2>3. StoresAgree
    BY DEF Init, StoresAgree
  <2> QED
    BY <2>2, <2>3 DEF Agreement
<1>2. TypeOK /\ Chosen /\ Agreement /\ [Next]_vars => Agreement'
  BY NextAgrees
<1> QED
  BY <1>1, <1>2, TypeCorrect, ChosenFree, PTL DEF Spec

(***************************************************************************)
(* For a careful client sensor and flash agree: a slot that is bound holds  *)
(* the template of the driver it is bound to, but for a slot being erased   *)
(* and the slots an error left doubtful, through any faults and restarts.   *)
(***************************************************************************)
THEOREM StoresCorrect == ASSUME Careful PROVE Spec => []StoresAgree
<1>1. Agreement => StoresAgree
  BY DEF Agreement
<1> QED
  BY <1>1, AgreementInductive, PTL

\* What a careful client was told of its last enrolment stays true.
THEOREM EnrolmentCorrect == ASSUME Careful PROVE Spec => []EnrolmentKept
<1>1. Agreement => EnrolmentKept
  BY DEF Agreement
<1> QED
  BY <1>1, AgreementInductive, PTL

-------------------------------------------------------------------------------
\* A scanner that searches has the image of a finger.
Probed == authPc = "search" => probe \in Fingers

LEMMA NextProbed == Probed /\ [Next]_vars => Probed'
<1> SUFFICES ASSUME Probed, [Next]_vars PROVE Probed'
  OBVIOUS
<1> USE DEF Probed, auth, AuthGoto
<1>1. CASE UNCHANGED auth
  BY <1>1
<1>2. CASE AuthCheck \/ AuthUntouched \/ AuthGive \/ Restart
  BY <1>2 DEF AuthCheck, AuthUntouched, AuthGive, Restart
<1>3. CASE AuthTake
  BY <1>3 DEF AuthTake
<1>4. CASE AuthImage \/ AuthSearch \/ AuthLed
  BY <1>4 DEF AuthImage, AuthSearch, AuthLed
<1>5. CASE onConnect
  BY <1>5 DEF onConnect
<1> QED
  BY <1>1, <1>2, <1>3, <1>4, <1>5
     DEF Next, finger_auth, AuthSend, onDisconnect, Enroll, DeleteFace, Delete, Start, MayCommand,
         Bind, EraseAll, empty_all_dec, EraserSend, EraserEmpty, EraserClear, CmdSend,
         finger_collect_dec, EnrollTake, EnrollIndex, EnrollImage, EnrollStore, EnrollDownload,
         EnrollGive, EnrollReply, delete_cmd, DeleteTemplate, DeleteCount, DeleteBinding,
         face_delete_one, vars

(***************************************************************************)
(* A finger that unlocks is put down to its owner or to nobody, never to    *)
(* the former owner of its slot, if the client is careful.                  *)
(***************************************************************************)
THEOREM OwnerUnlocks == ASSUME Careful PROVE Spec => RightDriver
<1>1. Init => Probed
  BY DEF Init, Probed
<1>2. TypeOK /\ Probed /\ Agreement /\ [Next]_vars
        => [authId = 0 /\ authId' # 0 /\ synced /\ authId' \notin doubtful
              => cfg[authId'] \in {None, probe}]_vars
  <2> SUFFICES ASSUME TypeOK, Probed, Agreement, [Next]_vars,
                      authId = 0, authId' # 0, synced, authId' \notin doubtful
               PROVE  cfg[authId'] \in {None, probe}
    OBVIOUS
  <2>1. AuthSearch
    BY DEF Next, finger_auth, AuthCheck, AuthTake, AuthUntouched, AuthSend, AuthImage, AuthLed,
           AuthGive, onConnect, onDisconnect, Enroll, DeleteFace, Delete, Start, MayCommand, Bind,
           EraseAll, empty_all_dec, EraserSend, EraserEmpty, EraserClear, CmdSend,
           finger_collect_dec, EnrollTake, EnrollIndex, EnrollImage, EnrollStore, EnrollDownload,
           EnrollGive, EnrollReply, delete_cmd, DeleteTemplate, DeleteCount, DeleteBinding,
           face_delete_one, Restart, vars, auth
  <2>2. authId' \in Slots /\ templates[authId'] = probe /\ probe \in Fingers
    BY <2>1 DEF AuthSearch, Matches, Probed
  <2> QED
    BY <2>2, SlotNumbers, FingerAssumption DEF Agreement, StoresAgree
<1> QED
  BY <1>1, <1>2, NextProbed, TypeCorrect, AgreementInductive, PTL DEF Spec, RightDriver

===============================================================================
