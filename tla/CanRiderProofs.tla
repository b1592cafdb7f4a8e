---------------------------- MODULE CanRiderProofs ----------------------------
(***************************************************************************)
(* Proofs about CanRider, for any longest record: the types, that what the  *)
(* other nodes see is the beginning of one message, and that a complete     *)
(* message holds the record.  The invariant is that as long as the driver   *)
(* runs, what was sent and what waits in the queue are all the frames up to *)
(* the next one, in order; the longest message has nine frames, so that the *)
(* queue of sixteen refuses none.                                           *)
(***************************************************************************)
EXTENDS CanRider, SequenceTheorems, TLAPS

\* The frames handed to the driver so far.
Handed == IF ifsend THEN FrameCount ELSE IF next = 0 THEN 0 ELSE next - 1

Frames == {Frame(k) : k \in 1 .. FrameCount}

Progress == /\ ifsend => next = 0
            /\ next = 0 /\ ~ifsend => bus = <<>> /\ tx = <<>> /\ driver = "running"

InOrder ==
  /\ tx \in Seq(Frames) /\ bus \in Seq(Frames)
  /\ \A k \in 1 .. Len(bus) : bus[k] = Frame(k)
  /\ driver = "running" => /\ Len(bus) + Len(tx) = Handed
                           /\ \A k \in 1 .. Len(tx) : tx[k] = Frame(Len(bus) + k)

IInv == TypeOK /\ Progress /\ InOrder

\* The length found in a record: that of the last byte that is not 0.
LEMMA CountBounds ==
  ASSUME NEW n \in 0 .. MaxStored, NEW junk \in {0, Junk}
  PROVE  /\ getBytes(n, junk) \in [Bytes -> 0 .. Pad]
         /\ countNonZeroElements(getBytes(n, junk)) \in Bytes
<1> DEFINE d == getBytes(n, junk)
           nonZero == {i \in Bytes \ {1} : d[i] # 0}
           last == IF junk # 0 THEN 47 ELSE n
<1>1. n \in Nat /\ Bytes = 1 .. 47
  BY CanAssumption DEF Bytes, DataLength
<1>2. d \in [Bytes -> 0 .. Pad]
  BY <1>1 DEF getBytes, Room, DataLength, Junk, Pad
<1>3. \A i \in Bytes : d[i] = IF i <= n /\ n <= 34 THEN i ELSE IF i = 47 THEN junk ELSE 0
  BY <1>1 DEF getBytes, Room, DataLength
<1>4. nonZero # {} => last \in nonZero /\ \A j \in nonZero : j <= last
  BY <1>1, <1>3 DEF Junk
<1>5. nonZero # {} => (CHOOSE i \in nonZero : \A j \in nonZero : j <= i) \in nonZero
  BY <1>4
<1>6. countNonZeroElements(d) =
        IF nonZero = {} THEN 1 ELSE CHOOSE i \in nonZero : \A j \in nonZero : j <= i
  BY DEF countNonZeroElements
<1>7. nonZero \subseteq Bytes /\ 1 \in Bytes
  BY <1>1
<1> HIDE DEF nonZero, d
<1> QED
  BY <1>2, <1>5, <1>6, <1>7 DEF d

\* A message has three to nine frames, and none is refused for want of room.
LEMMA FramesOf ==
  ASSUME NEW n \in Bytes PROVE (n + 6) \div 7 + 2 \in 3 .. 9
<1>1. n \in 1 .. 47
  BY DEF Bytes, DataLength
<1> QED
  BY <1>1

\* The same of the message in hand.
LEMMA MessageLength ==
  ASSUME drivr_info_len \in Bytes PROVE FrameCount \in 3 .. 9
BY FramesOf DEF FrameCount, Pieces

\* The first state.
LEMMA InitIInv == Init => IInv
<1> SUFFICES ASSUME Init PROVE IInv
  OBVIOUS
<1>1. data \in [Bytes -> 0 .. Pad] /\ drivr_info_len \in Bytes
  BY CountBounds, CanAssumption DEF Init, Bytes, DataLength
<1>2. FrameCount \in 3 .. 9
  BY <1>1, MessageLength
<1>3. TypeOK
  <2>1. face_auth_id \in BOOLEAN /\ ifsend \in BOOLEAN /\ driver \in DriverStates
    BY DEF Init, DriverStates
  <2>2. next \in 0 .. (FrameCount + 1)
    BY <1>2 DEF Init
  <2>3. Len(tx) = 0 /\ Len(bus) = 0
    BY EmptySeq DEF Init
  <2>4. Len(tx) <= BI_TX_BUFFER_SIZE + 1 /\ Len(bus) <= FrameCount
    BY <1>2, <2>3 DEF BI_TX_BUFFER_SIZE
  <2> QED
    BY <1>1, <2>1, <2>2, <2>4 DEF TypeOK
<1>4. Progress /\ InOrder
  BY <1>2 DEF Init, Progress, InOrder, Handed
<1> QED
  BY <1>3, <1>4 DEF IInv

\* A step that leaves the message alone leaves its frames alone.
LEMMA SameMessage ==
  ASSUME UNCHANGED local
  PROVE  /\ FrameCount' = FrameCount /\ Frames' = Frames
         /\ \A k : Frame(k)' = Frame(k)
BY DEF local, FrameCount, Pieces, Frames, Frame, Header, Piece, Announced

\* Every step preserves the invariant.
LEMMA NextIInv == IInv /\ [Next]_vars => IInv'
<1> SUFFICES ASSUME IInv, [Next]_vars PROVE IInv'
  OBVIOUS
<1> USE DEF IInv
<1>1. FrameCount \in 3 .. 9
  BY MessageLength DEF TypeOK
<1>2. Len(tx) \in Nat /\ Len(bus) \in Nat
  BY LenProperties DEF InOrder
<1>3. CASE Begin
  <2>1. next = 0 /\ ~ifsend /\ next' = 1 /\ UNCHANGED <<face_auth_id, ifsend, driver, tx, bus>>
    BY <1>3 DEF Begin
  <2>2. bus = <<>> /\ tx = <<>> /\ driver = "running"
    BY <2>1 DEF Progress
  <2>3. data' \in [Bytes -> 0 .. Pad] /\ drivr_info_len' \in Bytes
    BY <1>3, CountBounds DEF Begin
  <2>4. FrameCount' \in 3 .. 9
    BY <2>3, FramesOf DEF FrameCount, Pieces
  <2>5. TypeOK'
    <3>1. (face_auth_id \in BOOLEAN /\ ifsend \in BOOLEAN /\ driver \in DriverStates)'
      BY <2>1 DEF TypeOK
    <3>2. (data \in [Bytes -> 0 .. Pad] /\ drivr_info_len \in Bytes)'
      BY <2>3 DEF Bytes, Pad, DataLength
    <3>3. (next \in 0 .. (FrameCount + 1))'
      <4>1. \A f \in 3 .. 9 : 1 \in 0 .. (f + 1)
        OBVIOUS
      <4>2. 1 \in 0 .. (FrameCount' + 1)
        BY <2>4, <4>1, Zenon
      <4> QED
        BY <2>1, <4>2
    <3>4. Len(tx') = 0 /\ Len(bus') = 0
      BY <2>1, <2>2, EmptySeq
    <3>5. (Len(tx) <= BI_TX_BUFFER_SIZE + 1 /\ Len(bus) <= FrameCount)'
      BY <2>4, <3>4 DEF BI_TX_BUFFER_SIZE
    <3> QED
      BY <3>1, <3>2, <3>3, <3>5 DEF TypeOK
  <2>6. Progress'
    BY <2>1 DEF Progress
  <2>7. InOrder'
    BY <2>1, <2>2 DEF InOrder, Handed
  <2> QED
    BY <2>5, <2>6, <2>7
<1>4. ASSUME UNCHANGED local, ~Begin PROVE IInv'
  <2>1. /\ FrameCount' = FrameCount /\ Frames' = Frames
        /\ \A k : Frame(k)' = Frame(k)
    BY <1>4, SameMessage
  <2>2. CASE Recognised
    BY <2>1, <2>2 DEF Recognised, TypeOK, Progress, InOrder, Handed, local
  <2>3. CASE sendFrame
    <3>1. next \in 1 .. FrameCount /\ next' = next + 1 /\ ~ifsend
          /\ UNCHANGED <<face_auth_id, ifsend, local, driver, bus>>
      BY <2>3, <1>1 DEF sendFrame, Progress
    <3>2. Handed = next - 1 /\ Handed' = next
      BY <1>1, <3>1 DEF Handed
    <3>3. CASE driver = "running"
      <4>1. Len(bus) + Len(tx) = next - 1 /\ \A k \in 1 .. Len(tx) : tx[k] = Frame(Len(bus) + k)
        BY <3>2, <3>3 DEF InOrder
      <4>2. tx' = Append(tx, Frame(next))
        BY <1>1, <1>2, <2>3, <3>1, <3>3, <4>1 DEF sendFrame, BI_TX_BUFFER_SIZE
      <4>3. Frame(next) \in Frames
        BY <3>1 DEF Frames
      <4>4. /\ tx' \in Seq(Frames) /\ Len(tx') = Len(tx) + 1
            /\ \A k \in 1 .. Len(tx) : tx'[k] = tx[k]
            /\ tx'[Len(tx) + 1] = Frame(next)
        BY <4>2, <4>3, AppendProperties DEF InOrder
      <4>5. InOrder'
        <5>1. \A k \in 1 .. Len(tx') : tx'[k] = Frame(Len(bus) + k)
          <6> SUFFICES ASSUME NEW k \in 1 .. Len(tx') PROVE tx'[k] = Frame(Len(bus) + k)
            OBVIOUS
          <6>1. CASE k = Len(tx) + 1
            <7>1. Len(bus) + k = next
              BY <1>1, <1>2, <3>1, <4>1, <6>1
            <7> QED
              BY <4>4, <6>1, <7>1
          <6>2. CASE k # Len(tx) + 1
            <7>1. k \in 1 .. Len(tx)
              BY <1>2, <4>4, <6>2
            <7> QED
              BY <4>1, <4>4, <7>1
          <6> QED
            BY <6>1, <6>2
        <5>2. Len(bus') + Len(tx') = Handed'
          BY <1>1, <1>2, <3>1, <3>2, <4>1, <4>4, SMTT(20)
        <5> QED
          BY <2>1, <3>1, <3>3, <4>4, <5>1, <5>2 DEF InOrder
      <4>6. TypeOK'
        BY <1>1, <1>2, <2>1, <3>1, <4>1, <4>4 DEF TypeOK, BI_TX_BUFFER_SIZE, local
      <4>7. Progress'
        BY <1>1, <3>1 DEF Progress
      <4> QED
        BY <4>5, <4>6, <4>7
    <3>4. CASE driver # "running"
      <4>1. tx' = tx
        BY <2>3, <3>4 DEF sendFrame
      <4> QED
        BY <1>1, <2>1, <3>1, <3>4, <4>1 DEF TypeOK, Progress, InOrder, local
    <3> QED
      BY <3>3, <3>4
  <2>4. CASE Finish
    BY <1>1, <2>1, <2>4 DEF Finish, TypeOK, Progress, InOrder, Handed, local
  <2>5. CASE Transmitted
    <3>1. /\ driver = "running" /\ tx # <<>> /\ bus' = Append(bus, Head(tx)) /\ tx' = Tail(tx)
          /\ UNCHANGED <<face_auth_id, ifsend, local, next, driver>>
      BY <2>5 DEF Transmitted
    <3>2. /\ tx \in Seq(Frames) /\ bus \in Seq(Frames) /\ Len(bus) + Len(tx) = Handed
          /\ \A k \in 1 .. Len(tx) : tx[k] = Frame(Len(bus) + k)
          /\ \A k \in 1 .. Len(bus) : bus[k] = Frame(k)
      BY <3>1 DEF InOrder
    <3>3. Len(tx) >= 1 /\ Head(tx) = tx[1] /\ Head(tx) \in Frames
      BY <3>1, <3>2, EmptySeq, HeadTailProperties
    <3>4. /\ Tail(tx) \in Seq(Frames) /\ Len(Tail(tx)) = Len(tx) - 1
          /\ \A k \in 1 .. Len(Tail(tx)) : Tail(tx)[k] = tx[k + 1]
      BY <3>1, <3>2, HeadTailProperties
    <3>5. /\ bus' \in Seq(Frames) /\ Len(bus') = Len(bus) + 1
          /\ \A k \in 1 .. Len(bus) : bus'[k] = bus[k]
          /\ bus'[Len(bus) + 1] = tx[1]
      BY <3>1, <3>2, <3>3, AppendProperties
    <3>6. \A k \in 1 .. Len(bus') : bus'[k] = Frame(k)
      <4> SUFFICES ASSUME NEW k \in 1 .. Len(bus') PROVE bus'[k] = Frame(k)
        OBVIOUS
      <4>1. CASE k = Len(bus) + 1
        BY <1>2, <3>2, <3>3, <3>5, <4>1
      <4>2. CASE k # Len(bus) + 1
        <5>1. k \in 1 .. Len(bus)
          BY <1>2, <3>5, <4>2
        <5> QED
          BY <3>2, <3>5, <5>1
      <4> QED
        BY <4>1, <4>2
    <3>7. \A k \in 1 .. Len(tx') : tx'[k] = Frame(Len(bus') + k)
      <4> SUFFICES ASSUME NEW k \in 1 .. Len(tx') PROVE tx'[k] = Frame(Len(bus') + k)
        OBVIOUS
      <4>1. k + 1 \in 1 .. Len(tx) /\ tx'[k] = tx[k + 1]
        BY <1>2, <3>1, <3>4
      <4>2. Len(bus) + (k + 1) = Len(bus') + k
        BY <1>2, <3>5
      <4> QED
        BY <3>2, <4>1, <4>2
    <3>8. Len(bus') + Len(tx') = Handed' /\ Handed' = Handed
      BY <1>2, <2>1, <3>1, <3>2, <3>4, <3>5 DEF Handed
    <3>9. InOrder'
      BY <2>1, <3>1, <3>4, <3>5, <3>6, <3>7, <3>8 DEF InOrder
    <3>10. Handed <= FrameCount
      BY <1>1 DEF TypeOK, Handed
    <3>11. TypeOK'
      <4>1. Len(bus') <= FrameCount
        BY <1>1, <1>2, <3>2, <3>3, <3>5, <3>10 DEF TypeOK, Handed
      <4>2. Len(tx') <= BI_TX_BUFFER_SIZE + 1
        BY <1>2, <3>1, <3>4 DEF TypeOK, BI_TX_BUFFER_SIZE
      <4> QED
        BY <2>1, <3>1, <4>1, <4>2 DEF TypeOK, local
    <3>12. Progress'
      BY <1>1, <1>2, <3>1, <3>2, <3>3 DEF Progress, Handed
    <3> QED
      BY <3>9, <3>11, <3>12
  <2>6. CASE BusOff \/ CAN_WatchDog_Builtin \/ Recovered
    <3>1. /\ driver' # "running" /\ driver' \in DriverStates
          /\ tx' \in {tx, <<>>}
          /\ UNCHANGED <<face_auth_id, ifsend, local, next, bus>>
          /\ driver = "running" => tx # <<>>
      BY <2>6 DEF BusOff, CAN_WatchDog_Builtin, Recovered, DriverStates
    <3>2. ~(next = 0 /\ ~ifsend)
      BY <3>1, <2>6 DEF Progress, BusOff, CAN_WatchDog_Builtin, Recovered
    <3>3. tx' \in Seq(Frames) /\ Len(tx') <= BI_TX_BUFFER_SIZE + 1
      <4>1. Len(<<>>) = 0 /\ <<>> \in Seq(Frames)
        BY EmptySeq
      <4>2. CASE tx' = <<>>
        BY <4>1, <4>2 DEF BI_TX_BUFFER_SIZE
      <4>3. CASE tx' = tx
        BY <4>3 DEF InOrder, TypeOK, BI_TX_BUFFER_SIZE
      <4> QED
        BY <3>1, <4>2, <4>3
    <3> QED
      BY <2>1, <3>1, <3>2, <3>3 DEF TypeOK, Progress, InOrder, local
  <2>7. CASE UNCHANGED vars
    BY <2>1, <2>7 DEF vars, TypeOK, Progress, InOrder, Handed, local
  <2> QED
    BY <1>4, <2>2, <2>3, <2>4, <2>5, <2>6, <2>7 DEF Next, send_userMsg
<1>5. ~Begin => UNCHANGED local
  BY DEF Next, send_userMsg, Recognised, sendFrame, Finish, Transmitted, BusOff,
         CAN_WatchDog_Builtin, Recovered, vars
<1> QED
  BY <1>3, <1>4, <1>5

-------------------------------------------------------------------------------
\* The invariant is inductive.
THEOREM Inductive == Spec => []IInv
BY InitIInv, NextIInv, PTL DEF Spec

\* The variables keep their types; in particular no message is longer than nine frames.
THEOREM TypeCorrect == Spec => []TypeOK
<1>1. IInv => TypeOK
  BY DEF IInv
<1> QED
  BY <1>1, Inductive, PTL

(***************************************************************************)
(* Whatever length the record has and whenever the bus goes off: what the   *)
(* other nodes see is the beginning of one message, without gap or repeat.  *)
(***************************************************************************)
THEOREM MessageBegun == Spec => []NoGap
<1>1. IInv => NoGap
  <2> SUFFICES ASSUME IInv, NEW k \in 1 .. Len(bus) PROVE k <= FrameCount /\ bus[k] = Frame(k)
    BY DEF NoGap
  <2>1. Len(bus) \in Nat /\ Len(bus) <= FrameCount /\ FrameCount \in 3 .. 9
    BY LenProperties, MessageLength DEF IInv, TypeOK, InOrder
  <2> QED
    BY <2>1 DEF IInv, InOrder
<1> QED
  BY <1>1, Inductive, PTL

-------------------------------------------------------------------------------
(***************************************************************************)
(* The bytes.  Everything that was read of the record lies within the       *)
(* length that countNonZeroElements finds, whatever is on the stack.        *)
(***************************************************************************)
Within(d, n) == \A i \in Bytes : d[i] \in {0, i, Junk} /\ (d[i] # 0 => i <= n)

LEMMA LengthFound ==
  ASSUME NEW n \in 0 .. MaxStored, NEW junk \in {0, Junk}
  PROVE  Within(getBytes(n, junk), countNonZeroElements(getBytes(n, junk)))
<1> DEFINE d == getBytes(n, junk)
           nonZero == {i \in Bytes \ {1} : d[i] # 0}
           last == IF junk # 0 THEN 47 ELSE n
<1>1. n \in Nat /\ Bytes = 1 .. 47
  BY CanAssumption DEF Bytes, DataLength
<1>2. \A i \in Bytes : d[i] = IF i <= n /\ n <= 34 THEN i ELSE IF i = 47 THEN junk ELSE 0
  BY <1>1 DEF getBytes, Room, DataLength
<1>3. nonZero # {} => last \in nonZero /\ \A j \in nonZero : j <= last
  BY <1>1, <1>2 DEF Junk
<1>4. countNonZeroElements(d) =
        IF nonZero = {} THEN 1 ELSE CHOOSE i \in nonZero : \A j \in nonZero : j <= i
  BY DEF countNonZeroElements
<1>5. \A i \in Bytes : d[i] \in {0, i, Junk}
  BY <1>2
<1>6. ASSUME NEW i \in Bytes, d[i] # 0 PROVE i <= countNonZeroElements(d)
  <2>1. CASE i = 1
    <3>1. countNonZeroElements(d) \in Bytes
      BY CountBounds
    <3> QED
      BY <1>1, <2>1, <3>1
  <2>2. CASE i # 1
    <3>1. i \in nonZero
      BY <1>6, <2>2
    <3> HIDE DEF nonZero, d, last
    <3>2. \A j \in nonZero : j <= countNonZeroElements(d)
      BY <1>3, <1>4, <3>1
    <3> QED
      BY <3>1, <3>2
  <2> QED
    BY <2>1, <2>2
<1> HIDE DEF d
<1>7. Within(d, countNonZeroElements(d))
  BY <1>5, <1>6 DEF Within
<1> QED
  BY <1>7 DEF d

LEMMA NextWithin ==
  Within(data, drivr_info_len) /\ [Next]_vars => Within(data, drivr_info_len)'
<1> SUFFICES ASSUME Within(data, drivr_info_len), [Next]_vars
             PROVE  Within(data', drivr_info_len')
  BY DEF Within, Bytes, DataLength, Junk
<1>1. CASE Begin
  BY <1>1, LengthFound DEF Begin
<1>2. CASE UNCHANGED local
  BY <1>2 DEF local, Within
<1> QED
  BY <1>1, <1>2
     DEF Next, send_userMsg, Recognised, sendFrame, Finish, Transmitted, BusOff,
         CAN_WatchDog_Builtin, Recovered, vars

\* Byte i lies in the piece (i - 1) \div 7 + 1, at the place ((i - 1) % 7) + 1.
LEMMA Place ==
  ASSUME NEW n \in Bytes, NEW i \in 1 .. n
  PROVE  /\ (i - 1) \div 7 + 1 \in 1 .. (IF n % 7 = 0 THEN n \div 7 ELSE n \div 7 + 1)
         /\ ((i - 1) % 7) + 1 \in 1 .. 7
         /\ 7 * (((i - 1) \div 7 + 1) - 1) + (((i - 1) % 7) + 1) = i
<1>1. n \in 1 .. 47
  BY DEF Bytes, DataLength
<1> QED
  BY <1>1

\* The pieces announced hold all bytes.
LEMMA EnoughPieces ==
  ASSUME NEW n \in Bytes PROVE n <= 7 * (IF n % 7 = 0 THEN n \div 7 ELSE n \div 7 + 1)
<1>1. n \in 1 .. 47
  BY DEF Bytes, DataLength
<1> QED
  BY <1>1

(***************************************************************************)
(* Whatever length the record has and whatever is on the stack: a node that *)
(* got all the pieces announced has every byte that was read of the record  *)
(* in its place, and nothing but zeros and the byte after the array.        *)
(***************************************************************************)
THEOREM MessageWhole == Spec => []RiderWhole
<1>1. Init => Within(data, drivr_info_len)
  <2> SUFFICES ASSUME Init PROVE Within(data, drivr_info_len)
    OBVIOUS
  <2>1. Bytes = 1 .. 47 /\ data = [i \in Bytes |-> 0]
    BY DEF Init, getBytes, Bytes, DataLength, Room
  <2> QED
    BY <2>1 DEF Within
<1>2. IInv /\ NoGap /\ Within(data, drivr_info_len) => RiderWhole
  <2> SUFFICES ASSUME IInv, NoGap, Within(data, drivr_info_len),
                      NEW f \in 1 .. Len(bus), IsHeader(bus[f]), Complete(bus[f])
               PROVE  /\ bus[f].length <= 7 * bus[f].count
                      /\ \A i \in 1 .. (DataLength + 1) :
                           data[i] # 0 => i <= bus[f].length /\ Assembled(bus[f])[i] = data[i]
                      /\ \A i \in 1 .. bus[f].length : Assembled(bus[f])[i] \in {0, i, Junk}
    BY DEF RiderWhole
  <2>1. Len(bus) \in Nat /\ drivr_info_len \in Bytes /\ Bytes = 1 .. 47
    BY LenProperties DEF IInv, TypeOK, InOrder, Bytes, DataLength
  <2>2. \A k \in 1 .. Len(bus) : bus[k] = IF k <= 2 THEN Header ELSE Piece(k - 2)
    BY DEF NoGap, Frame
  <2>3. /\ IsHeader(Header)
        /\ \A k : ~IsHeader(Piece(k)) /\ Piece(k).index = k
    BY DEF IsHeader, Header, Piece
  <2>4. \A k \in 1 .. Len(bus) : ~IsHeader(bus[k]) => k > 2 /\ bus[k] = Piece(k - 2)
    BY <2>2, <2>3
  <2>5. bus[f] = Header
    BY <2>2, <2>3
  <2>6. bus[f].length = drivr_info_len /\ bus[f].count = Announced
    BY <2>5 DEF Header
  <2>7. ASSUME NEW k \in 1 .. Announced PROVE bus[PieceOf(k)] = Piece(k)
    <3>1. PICK i \in 1 .. Len(bus) : ~IsHeader(bus[i]) /\ bus[i].index = k
      BY <2>6, <2>7 DEF Complete
    <3>2. PieceOf(k) \in 1 .. Len(bus) /\ ~IsHeader(bus[PieceOf(k)]) /\ bus[PieceOf(k)].index = k
      BY <3>1 DEF PieceOf
    <3>3. bus[PieceOf(k)] = Piece(PieceOf(k) - 2)
      BY <2>4, <3>2
    <3>4. PieceOf(k) - 2 = k
      BY <2>3, <3>2, <3>3
    <3> QED
      BY <3>3, <3>4
  <2>8. ASSUME NEW i \in 1 .. drivr_info_len PROVE Assembled(bus[f])[i] = data[i]
    <3> DEFINE p == (i - 1) \div 7 + 1
               j == ((i - 1) % 7) + 1
    <3>1. p \in 1 .. Announced /\ j \in 1 .. 7 /\ 7 * (p - 1) + j = i
      BY <2>1, Place DEF Announced
    <3>2. Assembled(bus[f])[i] = bus[PieceOf(p)].bytes[j]
      BY <2>6 DEF Assembled
    <3> HIDE DEF p, j
    <3>3. bus[PieceOf(p)] = Piece(p)
      BY <2>7, <3>1
    <3>4. Piece(p).bytes[j] = IF 7 * (p - 1) + j <= drivr_info_len THEN data[7 * (p - 1) + j] ELSE Pad
      BY <3>1 DEF Piece
    <3> QED
      BY <2>1, <3>1, <3>2, <3>3, <3>4
  <2>9. bus[f].length <= 7 * bus[f].count
    BY <2>1, <2>6, EnoughPieces DEF Announced
  <2>10. drivr_info_len \in 1 .. 47
    BY <2>1
  <2>11. ASSUME NEW i \in Bytes, data[i] # 0 PROVE i \in 1 .. drivr_info_len
    <3>1. i <= drivr_info_len
      BY <2>11 DEF Within
    <3>2. i \in 1 .. 47
      BY <2>1
    <3> QED
      BY <2>10, <3>1, <3>2
  <2>12. ASSUME NEW i \in 1 .. drivr_info_len PROVE data[i] \in {0, i, Junk}
    <3>1. i \in 1 .. 47
      BY <2>10
    <3> QED
      BY <2>1, <3>1 DEF Within
  <2>13. ASSUME NEW i \in Bytes, data[i] # 0
         PROVE  i <= bus[f].length /\ Assembled(bus[f])[i] = data[i]
    BY <2>6, <2>8, <2>10, <2>11, <2>13
  <2>14. ASSUME NEW i \in 1 .. bus[f].length PROVE Assembled(bus[f])[i] \in {0, i, Junk}
    BY <2>6, <2>8, <2>12
  <2> QED
    BY <2>9, <2>13, <2>14 DEF Bytes
<1> QED
  BY <1>1, <1>2, NextWithin, Inductive, MessageBegun, PTL DEF Spec

===============================================================================
