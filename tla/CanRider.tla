------------------------------- MODULE CanRider -------------------------------
(***************************************************************************)
(* The rider on the CAN bus: once the rider is known, task_twai_entry      *)
(* sends the record stored for him, in frames of eight bytes: the same     *)
(* header twice, then pieces of seven bytes with their number.  Nothing is *)
(* confirmed or repeated: send_userMsg does not look at what became of a   *)
(* frame, and does its work once.                                          *)
(*                                                                         *)
(* The TWAI driver of ESP-IDF keeps the frames in a queue and sends them   *)
(* when the bus is free; when too many transmissions fail it goes bus-off. *)
(* The watchdog then starts the recovery, which empties the queue and ends *)
(* with a stopped driver; nobody starts it again.                          *)
(***************************************************************************)
EXTENDS Integers, Sequences

CONSTANT
  MaxStored       \* longest record put under the rider's number (a byte counts it)

ASSUME CanAssumption == MaxStored \in Nat

Room == 34                \* bytes getBytes may fill
DataLength == 46
Junk == 200               \* what is on the stack after data, unless it is 0
Pad == 255

\* Variant: a queue for a few frames.
TxBufferSmall == 4

BI_TX_BUFFER_SIZE == 16

VARIABLES
  face_auth_id,   \* is the rider known?
  ifsend,
  data,           \* data of send_userMsg and the byte after it
  drivr_info_len,
  next,           \* the frame send_userMsg comes to; 0: it is not running
  driver,         \* state of the TWAI driver
  tx,             \* the frame being sent and tx_queue
  bus             \* what the other nodes have received

local == <<data, drivr_info_len>>
vars == <<face_auth_id, ifsend, local, next, driver, tx, bus>>

Bytes == 1..(DataLength + 1)

\* Byte i of a record is i: none is 0.  getBytes leaves data alone when the record
\* does not fit.
getBytes(n, junk) ==
  [i \in Bytes |-> CASE i <= n /\ n <= Room -> i
                     [] i = DataLength + 1 -> junk
                     [] OTHER -> 0]

\* countNonZeroElements(d, 46) looks at d[46] down to d[1].
countNonZeroElements(d) ==
  LET nonZero == {i \in Bytes \ {1} : d[i] # 0}
  IN  IF nonZero = {} THEN 1 ELSE CHOOSE i \in nonZero : \A j \in nonZero : j <= i

\* Variant: a last piece that is not full is not counted.
AnnouncedFloor == IF drivr_info_len < 7 THEN 1 ELSE drivr_info_len \div 7

Announced ==
  IF drivr_info_len % 7 = 0 THEN drivr_info_len \div 7 ELSE drivr_info_len \div 7 + 1

Header == [id |-> "0x257", length |-> drivr_info_len, count |-> Announced]

Piece(k) ==
  [id |-> "0x258", index |-> k,
   bytes |-> [j \in 1..7 |-> IF 7 * (k - 1) + j <= drivr_info_len
                             THEN data[7 * (k - 1) + j] ELSE Pad]]

\* The loop over data goes on while there are bytes.
Pieces == (drivr_info_len + 6) \div 7

FrameCount == Pieces + 2

Frame(k) == IF k <= 2 THEN Header ELSE Piece(k - 2)

DriverStates == {"running", "bus off", "recovering", "stopped"}

TypeOK ==
  /\ face_auth_id \in BOOLEAN /\ ifsend \in BOOLEAN
  /\ data \in [Bytes -> 0..Pad] /\ drivr_info_len \in Bytes
  /\ next \in 0..(FrameCount + 1)
  /\ driver \in DriverStates
  /\ Len(tx) <= BI_TX_BUFFER_SIZE + 1 /\ Len(bus) <= FrameCount

Init ==
  /\ face_auth_id = FALSE /\ ifsend = FALSE
  /\ data = getBytes(0, 0) /\ drivr_info_len = 1
  /\ next = 0
  /\ driver = "running" /\ tx = <<>> /\ bus = <<>>

-----------------------------------------------------------------------------
(* The rider is recognised. *)

Recognised ==
  /\ ~face_auth_id
  /\ face_auth_id' = TRUE
  /\ UNCHANGED <<ifsend, local, next, driver, tx, bus>>

-----------------------------------------------------------------------------
(* task_twai_entry. *)

\* n is the length of the record in face_cfg under the rider's number when the task
\* comes to it, 0 if there is none: in the fingerprint build there is one only if the
\* app has sent 0x64 for that number; fingers are bound in finger_cfg.
Begin ==
  /\ next = 0 /\ face_auth_id /\ ~ifsend
  /\ \E n \in 0..MaxStored, junk \in {0, Junk} : data' = getBytes(n, junk)
  /\ drivr_info_len' = countNonZeroElements(data')
  /\ next' = 1
  /\ UNCHANGED <<face_auth_id, ifsend, driver, tx, bus>>

\* twai_transmit refuses a frame unless the driver runs; it waits 4 ms for room.
sendFrame ==
  /\ next \in 1..FrameCount
  /\ tx' = IF driver = "running" /\ Len(tx) <= BI_TX_BUFFER_SIZE
           THEN Append(tx, Frame(next)) ELSE tx
  /\ next' = next + 1
  /\ UNCHANGED <<face_auth_id, ifsend, local, driver, bus>>

Finish ==
  /\ next = FrameCount + 1
  /\ ifsend' = TRUE /\ next' = 0
  /\ UNCHANGED <<face_auth_id, local, driver, tx, bus>>

send_userMsg == Begin \/ sendFrame \/ Finish

-----------------------------------------------------------------------------
(* Driver, bus and watchdog. *)

\* A frame is acknowledged.
Transmitted ==
  /\ driver = "running" /\ tx # <<>>
  /\ bus' = Append(bus, Head(tx)) /\ tx' = Tail(tx)
  /\ UNCHANGED <<face_auth_id, ifsend, local, next, driver>>

\* Errors are only counted while a frame is being sent.
BusOff ==
  /\ driver = "running" /\ tx # <<>>
  /\ driver' = "bus off"
  /\ UNCHANGED <<face_auth_id, ifsend, local, next, tx, bus>>

CAN_WatchDog_Builtin ==
  /\ driver = "bus off"
  /\ driver' = "recovering" /\ tx' = <<>>
  /\ UNCHANGED <<face_auth_id, ifsend, local, next, bus>>

\* Variant: the driver runs after the recovery.
RecoveredRunning ==
  /\ driver = "recovering"
  /\ driver' = "running"
  /\ UNCHANGED <<face_auth_id, ifsend, local, next, tx, bus>>

Recovered ==
  /\ driver = "recovering"
  /\ driver' = "stopped"
  /\ UNCHANGED <<face_auth_id, ifsend, local, next, tx, bus>>

Next ==
  \/ Recognised
  \/ send_userMsg
  \/ Transmitted \/ BusOff \/ CAN_WatchDog_Builtin \/ Recovered

Spec == Init /\ [][Next]_vars

\* The task runs, and the other nodes acknowledge what the driver sends.
FairSpec == Spec /\ WF_vars(send_userMsg) /\ WF_vars(Transmitted)

-----------------------------------------------------------------------------
(* Properties. *)

\* What the other nodes see is the beginning of one message: no piece comes
\* without those before it, although frames may be dropped in silence.  It takes
\* both a queue that holds the longest message (esp32_can_builtin.h 49) and a driver
\* that stays stopped after a recovery (esp32_can_builtin.cpp 96-103, 441-455).
NoGap == \A k \in 1..Len(bus) : k <= FrameCount /\ bus[k] = Frame(k)

\* The bytes a node puts together from a header and the pieces it announces.
IsHeader(f) == f.id = "0x257"
PieceOf(k) == CHOOSE i \in 1..Len(bus) : ~IsHeader(bus[i]) /\ bus[i].index = k
Complete(h) ==
  \A k \in 1..h.count : \E i \in 1..Len(bus) : ~IsHeader(bus[i]) /\ bus[i].index = k
Assembled(h) ==
  [i \in 1..h.length |-> bus[PieceOf(((i - 1) \div 7) + 1)].bytes[((i - 1) % 7) + 1]]

\* A node that got every piece announced has, in its place, every byte that was read
\* of the record; what follows is 0, but for the byte countNonZeroElements reads after
\* the array (app_can.cpp 57-110, myutil.cpp 22-34).
RiderWhole ==
  \A f \in 1..Len(bus) : IsHeader(bus[f]) /\ Complete(bus[f]) =>
    /\ bus[f].length <= 7 * bus[f].count
    /\ \A i \in 1..(DataLength + 1) :
         data[i] # 0 => i <= bus[f].length /\ Assembled(bus[f])[i] = data[i]
    /\ \A i \in 1..bus[f].length : Assembled(bus[f])[i] \in {0, i, Junk}

\* The rider is announced, and completely, unless the bus goes off: then the driver
\* never runs again.
RiderTold == face_auth_id ~> (bus # <<>> /\ Len(bus) = FrameCount) \/ driver # "running"
=============================================================================
