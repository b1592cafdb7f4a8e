---------------------------- MODULE RideRecordProofs ----------------------------
(***************************************************************************)
(* Proofs about RideRecord, for any byte size, any set of slots and drivers, *)
(* any period and any bounds.                                              *)
(* First the types, and that the one FRAM image is never reused before it  *)
(* was read back (NoRideLost).  Then the image itself: whatever byte a write *)
(* is cut at, it names the ride and an end no earlier than the last complete *)
(* write; while a rider is authenticated it is never more than one period  *)
(* old; and, when the clock is not set back, what is filed from it, torn or *)
(* not, neither cuts short nor replaces the record of another ride.        *)
(***************************************************************************)
EXTENDS RideRecord, SequenceTheorems, TLAPS

-------------------------------------------------------------------------------
(***************************************************************************)
(* The operators.                                                          *)
(***************************************************************************)

\* What the assumptions say, in one place.
LEMMA Parameters ==
  /\ Base \in Nat /\ Base > 1 /\ Slots \subseteq 1 .. (Base - 1)
  /\ RecCap \in Nat /\ Period \in Nat \ {0} /\ BootDelay \in Nat \ {0} /\ MaxBoots \in Nat
  /\ MaxLate \in Nat
  /\ MaxTime \in Nat /\ BuildTime \in Times /\ AdjustTimes \subseteq Times
BY ByteAssumption, SlotAssumption, CountAssumption, TimeAssumption DEF Times

\* A byte is a remainder.
LEMMA Remainder ==
  ASSUME NEW n \in Nat PROVE n % Base \in Bytes /\ n \div Base \in Nat
BY Parameters DEF Bytes

\* A word has four bytes.
LEMMA WordBytes ==
  ASSUME NEW n \in Nat PROVE BytesOf(n) \in Seq(Bytes) /\ Len(BytesOf(n)) = 4
<1> DEFINE n8 == n \div Base
           n16 == n8 \div Base
           n24 == n16 \div Base
<1>1. n8 \in Nat /\ n % Base \in Bytes
  BY Remainder
<1>2. n16 \in Nat /\ n8 % Base \in Bytes
  BY <1>1, Remainder
<1>3. n24 \in Nat /\ n16 % Base \in Bytes
  BY <1>2, Remainder
<1>4. n24 % Base \in Bytes
  BY <1>3, Remainder
<1>5. BytesOf(n) = <<n24 % Base, n16 % Base, n8 % Base, n % Base>>
  BY DEF BytesOf
<1> HIDE DEF n8, n16, n24
<1> QED
  BY <1>1, <1>2, <1>3, <1>4, <1>5

\* Lengths add up.
LEMMA ConcatBytes ==
  ASSUME NEW s \in Seq(Bytes), NEW t \in Seq(Bytes)
  PROVE  s \o t \in Seq(Bytes) /\ Len(s \o t) = Len(s) + Len(t)
BY ConcatProperties

\* An image has ten bytes.
LEMMA ImageBytes ==
  ASSUME NEW start \in Nat, NEW end \in Nat, NEW id \in Nat
  PROVE  store_data_to_bytes(start, end, id) \in [1 .. ImageLength -> Bytes]
<1>1. ASSUME NEW x \in Bytes, NEW y \in Bytes PROVE <<x, y>> \in Seq(Bytes) /\ Len(<<x, y>>) = 2
  OBVIOUS
<1>2. \A s, t, u \in Seq(Bytes) :
        Len(s) = 4 /\ Len(t) = 4 /\ Len(u) = 2 => s \o t \o u \in [1 .. 10 -> Bytes]
  <2> SUFFICES ASSUME NEW s \in Seq(Bytes), NEW t \in Seq(Bytes), NEW u \in Seq(Bytes),
                      Len(s) = 4, Len(t) = 4, Len(u) = 2
               PROVE  s \o t \o u \in [1 .. 10 -> Bytes]
    OBVIOUS
  <2>1. s \o t \in Seq(Bytes) /\ Len(s \o t) = Len(s) + Len(t)
    BY ConcatBytes, Zenon
  <2>2. (s \o t) \o u \in Seq(Bytes) /\ Len((s \o t) \o u) = Len(s \o t) + Len(u)
    BY <2>1, ConcatBytes, Zenon
  <2>3. Len((s \o t) \o u) = 10
    BY <2>1, <2>2
  <2> QED
    BY <2>2, <2>3, LenProperties
<1>3. id % Base \in Bytes /\ (id \div Base) % Base \in Bytes
  BY Remainder
<1> QED
  BY <1>1, <1>2, <1>3, WordBytes DEF store_data_to_bytes, ImageLength

\* Products of numbers are numbers.
LEMMA ProductNat == ASSUME NEW x \in Nat, NEW y \in Nat PROVE x * y \in Nat
OBVIOUS

\* What is read from an image is a number.
LEMMA WordType ==
  ASSUME NEW b \in [1 .. ImageLength -> Bytes], NEW i \in 1 .. 7 PROVE Word(b, i) \in Nat
<1>1. ASSUME NEW x \in Nat, NEW y \in Nat PROVE x * Base + y \in Nat
  <2>1. x * Base \in Nat
    BY ProductNat, Parameters
  <2> QED
    BY <2>1
<1>2. b[i] \in Nat /\ b[i + 1] \in Nat /\ b[i + 2] \in Nat /\ b[i + 3] \in Nat
  BY Parameters DEF ImageLength, Bytes
<1>3. b[i] * Base + b[i + 1] \in Nat
  BY <1>1, <1>2
<1>4. (b[i] * Base + b[i + 1]) * Base + b[i + 2] \in Nat
  BY <1>1, <1>2, <1>3
<1> QED
  BY <1>1, <1>2, <1>4 DEF Word

\* Storing a record keeps the list well formed.
LEMMA PutType ==
  ASSUME NEW recs \in Seq(Record), NEW rec \in Record PROVE putBytes(recs, rec) \in Seq(Record)
<1>1. \A i \in 1 .. Len(recs) : RemoveAt(recs, i) \in Seq(Record)
  <2> TAKE i \in 1 .. Len(recs)
  <2>1. Len(recs) \in Nat /\ \A j \in 1 .. Len(recs) : recs[j] \in Record
    BY LenProperties
  <2>2. SubSeq(recs, 1, i - 1) \in Seq(Record)
    BY <2>1, SubSeqProperties
  <2>3. SubSeq(recs, i + 1, Len(recs)) \in Seq(Record)
    BY <2>1, SubSeqProperties
  <2> QED
    BY <2>2, <2>3, ConcatProperties DEF RemoveAt
<1>2. KeyAt(recs, rec.key) # {} =>
        (CHOOSE i \in KeyAt(recs, rec.key) : TRUE) \in 1 .. Len(recs)
  BY DEF KeyAt
<1> QED
  BY <1>1, <1>2 DEF putBytes

\* An element is removed.
LEMMA RemoveAtEffect ==
  ASSUME NEW recs \in Seq(Record), NEW at \in 1 .. Len(recs)
  PROVE  /\ RemoveAt(recs, at) \in Seq(Record) /\ Len(RemoveAt(recs, at)) = Len(recs) - 1
         /\ \A i \in 1 .. Len(RemoveAt(recs, at)) :
              RemoveAt(recs, at)[i] = IF i < at THEN recs[i] ELSE recs[i + 1]
<1> DEFINE left == SubSeq(recs, 1, at - 1)
           right == SubSeq(recs, at + 1, Len(recs))
<1>1. recs \in Seq(Record) /\ Len(recs) \in Nat /\ \A j \in 1 .. Len(recs) : recs[j] \in Record
  BY LenProperties
<1>2. /\ left \in Seq(Record) /\ Len(left) = at - 1
      /\ \A j \in 1 .. (at - 1) : left[j] = recs[j]
  BY <1>1, SubSeqProperties
<1>3. /\ right \in Seq(Record) /\ Len(right) = Len(recs) - at
      /\ \A j \in 1 .. (Len(recs) - at) : right[j] = recs[at + j]
  BY <1>1, SubSeqProperties
<1>4. RemoveAt(recs, at) = left \o right
  BY DEF RemoveAt
<1> HIDE DEF left, right
<1> DEFINE w == left \o right
<1>5. w \in Seq(Record) /\ Len(w) = Len(left) + Len(right)
  BY <1>2, <1>3, ConcatProperties
<1>6. \A j \in 1 .. Len(left) + Len(right) :
        w[j] = IF j <= Len(left) THEN left[j] ELSE right[j - Len(left)]
  BY <1>2, <1>3, ConcatProperties
<1> HIDE DEF w
<1>7. Len(w) = Len(recs) - 1
  BY <1>1, <1>2, <1>3, <1>5
<1>8. \A i \in 1 .. Len(w) : w[i] = IF i < at THEN recs[i] ELSE recs[i + 1]
  BY <1>1, <1>2, <1>3, <1>5, <1>6
<1> QED
  BY <1>4, <1>5, <1>7, <1>8 DEF w

\* So does trimming it.
LEMMA TrimType ==
  ASSUME NEW recs \in Seq(Record) PROVE Trim(recs) \in Seq(Record)
<1>1. Len(recs) \in Nat /\ \A j \in 1 .. Len(recs) : recs[j] \in Record
  BY LenProperties
<1>2. Len(recs) > RecCap => SubSeq(recs, 1, RecCap) \in Seq(Record)
  BY <1>1, Parameters, SubSeqProperties
<1> QED
  BY <1>2 DEF Trim

-------------------------------------------------------------------------------
(***************************************************************************)
(* The inductive invariant.  JournalState: nobody is authenticated before   *)
(* the loop is entered, a rider has a ride, and only a ride is written.     *)
(* ImageRead: once the loop is entered, the ride in the FRAM is the ride    *)
(* under way or its image has been dealt with; this is why it may be        *)
(* overwritten, and it holds because recovery comes before the loop.        *)
(***************************************************************************)
JournalState ==
  /\ phase \in {"off", "boot", "recover"} => authId = 0
  /\ authId # 0 => Len(rides) > 0
  /\ phase = "store" => authId # 0 /\ pos < ImageLength

ImageRead ==
  phase \in {"idle", "store"} /\ inFram # 0 =>
    rides[inFram].settled # "open" \/ (authId # 0 /\ inFram = Len(rides))

IInv == TypeOK /\ JournalState /\ ImageRead /\ NoRideLost

\* The first state has the types.
LEMMA InitTypeOK == Init => TypeOK
<1> SUFFICES ASSUME Init PROVE TypeOK
  OBVIOUS
<1>1. NoImage \in [1 .. ImageLength -> Bytes]
  BY ImageBytes DEF NoImage
<1>2. cfg \in [Slots -> Drivers \cup {None}]
  BY DEF Init
<1> QED
  BY <1>1, <1>2, Parameters DEF Init, TypeOK, Phases, Times, ImageLength

\* Changing fields of a ride keeps the list well formed, and as long.
LEMMA RideUpdate ==
  ASSUME NEW rs \in Seq(Ride), NEW k \in 1 .. Len(rs), NEW r \in Ride
  PROVE  [rs EXCEPT ![k] = r] \in Seq(Ride) /\ Len([rs EXCEPT ![k] = r]) = Len(rs)
BY ExceptSeq

\* Settling keeps the list of rides well formed, and as long.
LEMMA SettleType ==
  ASSUME TypeOK, NEW outcome \in {"recorded", "unbound", "skipped"}, Settle(outcome)
  PROVE  rides' \in Seq(Ride) /\ Len(rides') = Len(rides)
<1>1. CASE inFram # 0 /\ rides[inFram].settled = "open"
  <2>1. inFram \in 1 .. Len(rides) /\ rides \in Seq(Ride) /\ rides[inFram] \in Ride
    BY <1>1, ElementOfSeq DEF TypeOK
  <2>2. [rides[inFram] EXCEPT !.settled = outcome] \in Ride
    BY <2>1 DEF Ride
  <2>3. rides' = [rides EXCEPT ![inFram] = [rides[inFram] EXCEPT !.settled = outcome]]
    BY <1>1 DEF Settle
  <2> QED
    BY <2>1, <2>2, <2>3, RideUpdate
<1>2. CASE ~(inFram # 0 /\ rides[inFram].settled = "open")
  BY <1>2 DEF Settle, TypeOK
<1> QED
  BY <1>1, <1>2

\* What Tick does to the times and to the rides.
LEMMA TickEffect ==
  ASSUME TypeOK, JournalState, Tick
  PROVE  /\ clock' \in Times /\ rtc' \in Times /\ rtc' = rtc + 1
         /\ phase = "off" \/ clock' = clock + 1
         /\ timer' \in 0 .. Period /\ timer' = IF timer > 0 THEN timer - 1 ELSE 0
         /\ rides' \in Seq(Ride) /\ Len(rides') = Len(rides)
         /\ \A i \in 1 .. Len(rides) :
              /\ rides'[i].start = rides[i].start /\ rides'[i].slot = rides[i].slot
              /\ rides'[i].last = rides[i].last /\ rides'[i].durable = rides[i].durable
              /\ rides'[i].settled = rides[i].settled
              /\ \/ rides'[i] = rides[i] /\ (authId = 0 \/ i # Len(rides))
                 \/ /\ authId # 0 /\ i = Len(rides) /\ rides'[i].ended = clock'
                    /\ rides'[i].late = IF Due THEN rides[i].late + 1 ELSE rides[i].late
<1>1. rtc \in 0 .. MaxTime /\ clock \in 0 .. MaxTime /\ rtc < MaxTime /\ clock < MaxTime
  BY DEF TypeOK, Times, Tick
<1>2. /\ rtc' = rtc + 1 /\ clock' = IF phase = "off" THEN clock ELSE clock + 1
      /\ timer' = IF timer > 0 THEN timer - 1 ELSE 0
  BY DEF Tick
<1>3. clock' \in Times /\ rtc' \in Times
  <2>1. rtc + 1 \in 0 .. MaxTime /\ clock + 1 \in 0 .. MaxTime
    BY <1>1, Parameters
  <2>2. clock' = clock \/ clock' = clock + 1
    BY <1>2
  <2> QED
    BY <1>1, <1>2, <2>1, <2>2 DEF Times
<1>4. timer' \in 0 .. Period
  <2>1. timer \in 0 .. Period /\ Period \in Nat
    BY Parameters DEF TypeOK
  <2> QED
    BY <1>2, <2>1
<1>5. rides \in Seq(Ride) /\ rides \in [1 .. Len(rides) -> Ride] /\ Len(rides) \in Nat
  BY LenProperties DEF TypeOK
<1>6. CASE authId = 0
  <2>1. rides' = rides
    BY <1>6 DEF Tick
  <2> QED
    BY <1>2, <1>3, <1>4, <1>5, <1>6, <2>1
<1>7. CASE authId # 0
  <2> DEFINE late == IF Due THEN rides[Len(rides)].late + 1 ELSE rides[Len(rides)].late
             r == [rides[Len(rides)] EXCEPT !.ended = clock', !.late = late]
  <2>1. Len(rides) \in 1 .. Len(rides) /\ rides[Len(rides)] \in Ride
    BY <1>5, <1>7, ElementOfSeq DEF JournalState
  <2>2. late \in Nat
    BY <2>1 DEF Ride
  <2>3. rides' = [rides EXCEPT ![Len(rides)] = r]
    BY <1>2, <1>7, <2>1 DEF Tick, Ride
  <2>4. r.ended = clock' /\ r.late = late
    BY <2>1 DEF Ride
  <2> HIDE DEF late
  <2>5. /\ r \in Ride
        /\ r.start = rides[Len(rides)].start /\ r.slot = rides[Len(rides)].slot
        /\ r.last = rides[Len(rides)].last /\ r.durable = rides[Len(rides)].durable
        /\ r.settled = rides[Len(rides)].settled
    BY <1>3, <2>1, <2>2 DEF Ride
  <2> HIDE DEF r
  <2>6. rides' \in Seq(Ride) /\ Len(rides') = Len(rides)
    BY <1>5, <2>1, <2>3, <2>5, RideUpdate
  <2>7. \A i \in 1 .. Len(rides) : rides'[i] = IF i = Len(rides) THEN r ELSE rides[i]
    BY <1>5, <2>1, <2>3
  <2> QED
    BY <1>2, <1>3, <1>4, <1>7, <2>4, <2>5, <2>6, <2>7 DEF late
<1> QED
  BY <1>6, <1>7

\* Every step preserves the types.
LEMMA NextTypeOK == TypeOK /\ JournalState /\ [Next]_vars => TypeOK'
<1> SUFFICES ASSUME TypeOK, JournalState, [Next]_vars PROVE TypeOK'
  OBVIOUS
<1> USE Parameters DEF TypeOK, Phases, volatile, flash, history
<1>1. NoImage \in [1 .. ImageLength -> Bytes]
  BY ImageBytes DEF NoImage
<1>2. CASE PowerOn
  <2>1. workRec' \in Seq(Record)
    BY <1>2, TrimType DEF PowerOn
  <2>2. trimmed' \subseteq Nat
    <3>1. \A i \in (RecCap + 1) .. Len(workRec) : workRec[i].key \in Nat
      <4>1. \A i \in 1 .. Len(workRec) : workRec[i].key \in Nat
        <5>1. workRec \in Seq(Record)
          OBVIOUS
        <5>2. \A i \in 1 .. Len(workRec) : workRec[i] \in Record
          BY ONLY <5>1, ElementOfSeq
        <5> QED
          BY ONLY <5>2 DEF Record
      <4>2. Len(workRec) \in Nat /\ RecCap \in Nat
        BY LenProperties
      <4>3. (RecCap + 1) .. Len(workRec) \subseteq 1 .. Len(workRec)
        BY ONLY <4>2
      <4> QED
        BY ONLY <4>1, <4>3
    <3> QED
      BY <1>2, <3>1 DEF PowerOn
  <2> QED
    BY <1>2, <2>1, <2>2 DEF PowerOn
<1>3. CASE RtcStart
  BY <1>3 DEF RtcStart
<1>4. CASE RtcAbsent
  BY <1>4 DEF RtcAbsent, Times
<1>5. CASE Recover
  <2>1. rides' \in Seq(Ride) /\ Len(rides') = Len(rides)
    BY <1>5, SettleType DEF Recover
  <2>2. workRec' \in Seq(Record)
    <3> DEFINE driver == DriverOf(SlotOf(fram))
               rec    == [key |-> StartOf(fram), driver |-> driver, end |-> EndOf(fram)]
    <3>1. driver \in Drivers \cup {None}
      BY DEF DriverOf
    <3>2. StartOf(fram) \in Nat /\ EndOf(fram) \in Nat
      BY WordType DEF StartOf, EndOf
    <3>3. driver # None => rec \in Record
      BY <3>1, <3>2 DEF Record
    <3>4. workRec' = workRec \/ (driver # None /\ workRec' = putBytes(workRec, rec))
      BY <1>5 DEF Recover
    <3> QED
      BY <3>3, <3>4, PutType
  <2> QED
    BY <1>5, <2>1, <2>2 DEF Recover
<1>6. CASE RecoverSkipped
  <2>1. rides' \in Seq(Ride) /\ Len(rides') = Len(rides)
    BY <1>6, SettleType DEF RecoverSkipped
  <2> QED
    BY <1>6, <2>1 DEF RecoverSkipped
<1>7. CASE LoopIdle
  BY <1>7 DEF LoopIdle
<1>8. CASE LoopJournal
  <2>1. buf' \in [1 .. ImageLength -> Bytes]
    <3>1. onTime \in Nat /\ clock \in Nat /\ authId \in Nat
      BY DEF Times
    <3>2. buf' = store_data_to_bytes(onTime, clock, authId)
      BY <1>8 DEF LoopJournal
    <3> QED
      BY <3>1, <3>2, ImageBytes
  <2> QED
    BY <1>8, <2>1 DEF LoopJournal, ImageLength
<1>9. CASE WriteByte
  <2>1. pos + 1 \in 1 .. ImageLength
    <3>1. phase = "store"
      BY <1>9 DEF WriteByte
    <3>2. pos \in 0 .. ImageLength /\ pos < ImageLength
      BY <3>1 DEF JournalState
    <3> QED
      BY <3>2 DEF ImageLength
  <2>2. fram' \in [1 .. ImageLength -> Bytes]
    BY <1>9, <2>1 DEF WriteByte
  <2>3. rides' \in Seq(Ride) /\ Len(rides') = Len(rides)
    <3>1. CASE pos + 1 = ImageLength
      <4> DEFINE r == [rides[Len(rides)] EXCEPT !.durable = TRUE, !.last = EndOf(buf)]
      <4>1. Len(rides) \in 1 .. Len(rides) /\ rides[Len(rides)] \in Ride
        <5>1. rides \in Seq(Ride) /\ Len(rides) >= 1
          BY <1>9 DEF WriteByte, JournalState
        <5>2. Len(rides) \in 1 .. Len(rides)
          BY ONLY <5>1, LenProperties
        <5> QED
          BY ONLY <5>1, <5>2, ElementOfSeq
      <4>2. EndOf(buf) \in Nat
        BY WordType DEF EndOf
      <4>3. r \in Ride
        BY <4>1, <4>2 DEF Ride
      <4>4. rides' = [rides EXCEPT ![Len(rides)].durable = TRUE,
                                   ![Len(rides)].last = EndOf(buf)]
        BY <1>9, <3>1 DEF WriteByte
      <4>5. rides' = [rides EXCEPT ![Len(rides)] = r]
        BY <4>1, <4>4
      <4> HIDE DEF r
      <4> QED
        BY <4>1, <4>3, <4>5, RideUpdate
    <3> QED
      BY <1>9, <3>1 DEF WriteByte
  <2>4. inFram' \in 0 .. Len(rides)
    <3>1. inFram' \in {0, inFram, Len(rides)}
      BY <1>9 DEF WriteByte
    <3>2. Len(rides) \in Nat /\ inFram \in 0 .. Len(rides)
      BY LenProperties
    <3> QED
      BY ONLY <3>1, <3>2
  <2>5. phase' \in Phases /\ timer' \in 0 .. Period
    BY <1>9 DEF WriteByte
  <2>6. buf' \in [1 .. ImageLength -> Bytes] /\ pos' \in 0 .. ImageLength
    <3>1. (buf' = NoImage /\ pos' = 0) \/ (buf' = buf /\ pos' = pos + 1)
      BY <1>9 DEF WriteByte
    <3> QED
      BY <1>1, <2>1, <3>1 DEF ImageLength
  <2> QED
    BY <1>9, <2>2, <2>3, <2>4, <2>5, <2>6 DEF WriteByte
<1>10. ASSUME NEW slot \in Slots, Authenticate(slot) PROVE TypeOK'
  <2> DEFINE r == [start |-> clock, slot |-> slot, last |-> clock, ended |-> clock,
                   late |-> 0, durable |-> FALSE, settled |-> "open"]
  <2>1. r \in Ride
    BY DEF Ride, Times
  <2>2. rides' \in Seq(Ride) /\ Len(rides') = Len(rides) + 1
    BY <1>10, <2>1 DEF Authenticate
  <2> HIDE DEF r
  <2> QED
    BY <1>10, <2>2, LenProperties DEF Authenticate
<1>11. CASE Tick
  <2>1. /\ clock' \in Times /\ rtc' \in Times /\ timer' \in 0 .. Period
        /\ rides' \in Seq(Ride) /\ Len(rides') = Len(rides)
    BY <1>11, TickEffect
  <2>2. warmup' \in 0 .. BootDelay
    BY <1>11 DEF Tick
  <2> QED
    BY <1>11, <2>1, <2>2 DEF Tick
<1>12. CASE PowerOff
  BY <1>1, <1>12 DEF PowerOff, Times, ImageLength
<1>13. ASSUME NEW slot \in Slots, NEW driver \in Drivers, Bind(slot, driver) PROVE TypeOK'
  BY <1>13 DEF Bind
<1>14. ASSUME NEW S, Unbind(S) PROVE TypeOK'
  BY <1>14 DEF Unbind
<1>15. ASSUME NEW t \in AdjustTimes, SetRtc(t) PROVE TypeOK'
  BY <1>15 DEF SetRtc
<1>16. CASE UNCHANGED vars
  BY <1>16 DEF vars
<1> QED
  BY <1>2, <1>3, <1>4, <1>5, <1>6, <1>7, <1>8, <1>9, <1>10, <1>11, <1>12, <1>13, <1>14, <1>15,
     <1>16 DEF Next, Task8563

-------------------------------------------------------------------------------
\* The steps that leave the rides, the image and the phases of the journal alone.
Elsewhere ==
  \/ \E slot \in Slots, driver \in Drivers : Bind(slot, driver)
  \/ \E S \in {{s} : s \in Slots} \cup {Slots} : Unbind(S)
  \/ \E t \in AdjustTimes : SetRtc(t)
  \/ UNCHANGED vars

\* An update of one place of a sequence leaves the others alone.
LEMMA ElsewhereUnchanged ==
  Elsewhere => UNCHANGED <<phase, authId, pos, rides, inFram>>
BY DEF Elsewhere, Bind, Unbind, SetRtc, vars, volatile, history

\* What Settle does: the ride in the FRAM is no longer open, the others are as before.
LEMMA SettleEffect ==
  ASSUME TypeOK, NEW outcome \in {"recorded", "unbound", "skipped"}, Settle(outcome)
  PROVE  /\ inFram # 0 => rides'[inFram].settled # "open"
         /\ \A i \in 1 .. Len(rides) :
              /\ rides'[i].durable = rides[i].durable
              /\ i # inFram => rides'[i].settled = rides[i].settled
<1>1. rides \in [1 .. Len(rides) -> Ride] /\ inFram \in 0 .. Len(rides)
  BY LenProperties DEF TypeOK
<1> QED
  BY <1>1 DEF Settle, Ride

\* A rider has a ride, and only a ride is written.
LEMMA NextJournalState == TypeOK /\ JournalState /\ [Next]_vars => JournalState'
<1> SUFFICES ASSUME TypeOK, JournalState, [Next]_vars PROVE JournalState'
  OBVIOUS
<1> USE DEF JournalState, volatile, flash, history
<1>1. CASE PowerOn \/ RtcStart \/ RtcAbsent \/ PowerOff
  BY <1>1 DEF PowerOn, RtcStart, RtcAbsent, PowerOff
<1>2. CASE Recover \/ RecoverSkipped
  <2>1. Len(rides') = Len(rides)
    BY <1>2, SettleType DEF Recover, RecoverSkipped
  <2> QED
    BY <1>2, <2>1 DEF Recover, RecoverSkipped
<1>3. CASE LoopIdle
  BY <1>3 DEF LoopIdle
<1>4. CASE LoopJournal
  BY <1>4 DEF LoopJournal, ImageLength
<1>5. CASE WriteByte
  <2>1. Len(rides') = Len(rides)
    BY <1>5, LenProperties DEF WriteByte, TypeOK
  <2>2. phase' = "store" => pos' = pos + 1 /\ pos + 1 # ImageLength
    BY <1>5 DEF WriteByte
  <2>3. pos \in Int /\ pos < ImageLength
    BY <1>5 DEF WriteByte, TypeOK
  <2>4. phase' = "store" => pos' < ImageLength
    BY <2>2, <2>3 DEF ImageLength
  <2>5. phase' \in {"idle", "store"} /\ authId' = authId
    BY <1>5 DEF WriteByte
  <2> QED
    BY <1>5, <2>1, <2>4, <2>5 DEF WriteByte
<1>6. ASSUME NEW slot \in Slots, Authenticate(slot) PROVE JournalState'
  <2>1. Len(rides') = Len(rides) + 1 /\ Len(rides) \in Nat
    BY <1>6, LenProperties DEF Authenticate, TypeOK
  <2> QED
    BY <1>6, <2>1 DEF Authenticate
<1>7. CASE Tick
  <2>1. Len(rides') = Len(rides)
    BY <1>7, TickEffect
  <2> QED
    BY <1>7, <2>1 DEF Tick
<1>8. CASE Elsewhere
  BY <1>8, ElsewhereUnchanged
<1> QED
  BY <1>1, <1>2, <1>3, <1>4, <1>5, <1>6, <1>7, <1>8 DEF Next, Task8563, Elsewhere

\* The image is overwritten only after it was dealt with.
LEMMA NextNoRideLost == IInv /\ [Next]_vars => ImageRead' /\ NoRideLost'
<1> SUFFICES ASSUME IInv, [Next]_vars PROVE ImageRead' /\ NoRideLost'
  OBVIOUS
<1> USE DEF IInv, volatile, flash, history
<1>1. /\ rides \in [1 .. Len(rides) -> Ride] /\ Len(rides) \in Nat
      /\ inFram \in 0 .. Len(rides)
  BY LenProperties DEF TypeOK
<1>2. CASE PowerOn \/ RtcStart \/ RtcAbsent \/ PowerOff
  BY <1>2 DEF PowerOn, RtcStart, RtcAbsent, PowerOff, ImageRead, NoRideLost
<1>3. CASE Recover \/ RecoverSkipped
  <2>1. PICK outcome \in {"recorded", "unbound", "skipped"} : Settle(outcome)
    BY <1>3 DEF Recover, RecoverSkipped
  <2>2. Len(rides') = Len(rides) /\ inFram' = inFram
    BY <1>3, SettleType DEF Recover, RecoverSkipped
  <2>3. inFram # 0 => rides'[inFram].settled # "open"
    BY <2>1, SettleEffect
  <2>4. \A i \in 1 .. Len(rides) :
          /\ rides'[i].durable = rides[i].durable
          /\ i # inFram => rides'[i].settled = rides[i].settled
    BY <2>1, SettleEffect
  <2>5. ImageRead'
    BY <2>2, <2>3 DEF ImageRead
  <2>6. NoRideLost'
    BY <2>2, <2>4 DEF NoRideLost
  <2> QED
    BY <2>5, <2>6
<1>4. CASE LoopIdle \/ LoopJournal
  BY <1>4 DEF LoopIdle, LoopJournal, ImageRead, NoRideLost
<1>5. CASE WriteByte
  <2>1. authId' = authId /\ authId # 0 /\ phase = "store" /\ Len(rides) \in 1 .. Len(rides)
    BY <1>1, <1>5 DEF WriteByte, JournalState
  <2>2. /\ Len(rides') = Len(rides)
        /\ \A i \in 1 .. Len(rides) :
             /\ rides'[i].settled = rides[i].settled
             /\ i # Len(rides) => rides'[i].durable = rides[i].durable
        /\ inFram' = Len(rides) \/ rides' = rides
    <3>1. CASE pos + 1 = ImageLength
      <4> DEFINE r == [rides[Len(rides)] EXCEPT !.durable = TRUE, !.last = EndOf(buf)]
      <4>1. rides' = [rides EXCEPT ![Len(rides)] = r] /\ inFram' = Len(rides)
        BY <1>1, <1>5, <2>1, <3>1 DEF WriteByte
      <4>2. r.settled = rides[Len(rides)].settled
        BY <1>1, <2>1 DEF Ride
      <4> HIDE DEF r
      <4>3. Len(rides') = Len(rides)
        BY <1>1, <4>1, LenProperties
      <4> QED
        BY <1>1, <2>1, <4>1, <4>2, <4>3
    <3>2. CASE pos + 1 # ImageLength
      BY <1>5, <3>2 DEF WriteByte
    <3> QED
      BY <3>1, <3>2
  <2>3. inFram' \in {0, Len(rides)} /\ (inFram' = 0 => inFram # Len(rides))
    BY <1>5, <2>1 DEF WriteByte
  <2>4. inFram # 0 /\ inFram # Len(rides) => rides[inFram].settled # "open"
    BY <2>1 DEF ImageRead
  <2>5. ImageRead'
    BY <2>1, <2>2, <2>3 DEF ImageRead
  <2>6. ASSUME NEW i \in 1 .. Len(rides'), rides'[i].durable, i # inFram'
        PROVE  rides'[i].settled # "open"
    <3>1. rides[i].durable
      BY <2>2, <2>3, <2>6
    <3>2. CASE i = inFram
      BY <2>2, <2>3, <2>4, <2>6, <3>2
    <3>3. CASE i # inFram
      BY <2>2, <2>6, <3>1, <3>3 DEF NoRideLost
    <3> QED
      BY <3>2, <3>3
  <2> QED
    BY <2>5, <2>6 DEF NoRideLost
<1>6. ASSUME NEW slot \in Slots, Authenticate(slot) PROVE ImageRead' /\ NoRideLost'
  <2>1. /\ Len(rides') = Len(rides) + 1
        /\ \A i \in 1 .. Len(rides) : rides'[i] = rides[i]
        /\ ~rides'[Len(rides) + 1].durable
    BY <1>1, <1>6 DEF Authenticate, TypeOK
  <2>2. authId = 0 /\ phase' = phase /\ inFram' = inFram
    BY <1>6 DEF Authenticate
  <2>3. ImageRead'
    BY <1>1, <2>1, <2>2 DEF ImageRead
  <2>4. NoRideLost'
    BY <1>1, <2>1, <2>2 DEF NoRideLost
  <2> QED
    BY <2>3, <2>4
<1>7. CASE Tick
  <2>1. /\ Len(rides') = Len(rides)
        /\ \A i \in 1 .. Len(rides) : /\ rides'[i].settled = rides[i].settled
                                      /\ rides'[i].durable = rides[i].durable
    BY <1>7, TickEffect
  <2>2. phase' = phase /\ authId' = authId /\ inFram' = inFram
    BY <1>7 DEF Tick
  <2>3. ImageRead'
    <3>1. ImageRead
      OBVIOUS
    <3>2. inFram # 0 => rides'[inFram].settled = rides[inFram].settled
      BY <1>1, <2>1
    <3> QED
      BY <2>1, <2>2, <3>1, <3>2 DEF ImageRead
  <2>4. NoRideLost'
    BY <1>1, <2>1, <2>2 DEF NoRideLost
  <2> QED
    BY <2>3, <2>4
<1>8. CASE Elsewhere
  BY <1>8, ElsewhereUnchanged DEF ImageRead, NoRideLost
<1> QED
  BY <1>2, <1>3, <1>4, <1>5, <1>6, <1>7, <1>8 DEF Next, Task8563, Elsewhere

-------------------------------------------------------------------------------
\* The invariant is inductive.
THEOREM Inductive == Spec => []IInv
<1>1. Init => IInv
  BY InitTypeOK DEF Init, IInv, JournalState, ImageRead, NoRideLost
<1>2. IInv /\ [Next]_vars => IInv'
  BY NextTypeOK, NextJournalState, NextNoRideLost DEF IInv
<1> QED
  BY <1>1, <1>2, PTL DEF Spec

\* The variables keep their types: in particular every work record has a driver,
\* a start and an end, and what is stored in the FRAM is bytes.
THEOREM TypeCorrect == Spec => []TypeOK
<1>1. IInv => TypeOK
  BY DEF IInv
<1> QED
  BY <1>1, Inductive, PTL

(***************************************************************************)
(* However often the power is cut, and wherever: a ride that was written    *)
(* completely to the one image in the FRAM is still there, or has been      *)
(* dealt with at a later power-on (filed, found unbound, or skipped because *)
(* the FRAM was silent).                                                    *)
(***************************************************************************)
THEOREM RideNotLost == Spec => []NoRideLost
<1>1. IInv => NoRideLost
  BY DEF IInv
<1> QED
  BY <1>1, Inductive, PTL


-------------------------------------------------------------------------------
(***************************************************************************)
(* The list of work records.                                               *)
(***************************************************************************)
Distinct(recs) == \A i, j \in 1 .. Len(recs) : recs[i].key = recs[j].key => i = j

\* Storing a record leaves the keys distinct, and adds one entry at most.
LEMMA PutDistinct ==
  ASSUME NEW recs \in Seq(Record), NEW rec \in Record, Distinct(recs)
  PROVE  Distinct(putBytes(recs, rec)) /\ Len(putBytes(recs, rec)) <= Len(recs) + 1
<1>1. recs \in [1 .. Len(recs) -> Record] /\ Len(recs) \in Nat
  BY LenProperties
<1>2. CASE \E i \in KeyAt(recs, rec.key) : recs[i] = rec
  BY <1>1, <1>2 DEF putBytes
<1>3. CASE KeyAt(recs, rec.key) = {}
  <2>1. putBytes(recs, rec) = Append(recs, rec)
    BY <1>3 DEF putBytes
  <2>2. \A i \in 1 .. Len(recs) : recs[i].key # rec.key
    BY <1>3 DEF KeyAt
  <2>3. /\ Len(Append(recs, rec)) = Len(recs) + 1
        /\ \A i \in 1 .. Len(recs) : Append(recs, rec)[i] = recs[i]
        /\ Append(recs, rec)[Len(recs) + 1] = rec
    BY <1>1, AppendProperties
  <2> QED
    BY <1>1, <2>1, <2>2, <2>3 DEF Distinct
<1>4. CASE KeyAt(recs, rec.key) # {} /\ ~(\E i \in KeyAt(recs, rec.key) : recs[i] = rec)
  <2> DEFINE at   == CHOOSE i \in KeyAt(recs, rec.key) : TRUE
             rest == RemoveAt(recs, at)
  <2>1. at \in 1 .. Len(recs) /\ recs[at].key = rec.key
    BY <1>4 DEF KeyAt
  <2>2. putBytes(recs, rec) = Append(rest, rec)
    BY <1>4 DEF putBytes
  <2> HIDE DEF at
  <2>3. /\ rest \in Seq(Record) /\ Len(rest) = Len(recs) - 1
        /\ \A i \in 1 .. Len(rest) : rest[i] = IF i < at THEN recs[i] ELSE recs[i + 1]
    BY <1>1, <2>1, RemoveAtEffect
  <2> HIDE DEF rest
  <2>4. /\ Len(Append(rest, rec)) = Len(rest) + 1
        /\ \A i \in 1 .. Len(rest) : Append(rest, rec)[i] = rest[i]
        /\ Append(rest, rec)[Len(rest) + 1] = rec
    BY <2>3, AppendProperties
  <2>5. \A i \in 1 .. Len(rest) : rest[i].key # rec.key
    BY <1>1, <2>1, <2>3 DEF Distinct
  <2>6. \A i, j \in 1 .. Len(rest) : rest[i].key = rest[j].key => i = j
    BY <1>1, <2>1, <2>3 DEF Distinct
  <2>7. Len(rest) \in Nat
    BY <2>3, LenProperties
  <2> DEFINE new == Append(rest, rec)
  <2>8. Len(new) = Len(rest) + 1 /\ new[Len(rest) + 1] = rec
        /\ \A i \in 1 .. Len(rest) : new[i] = rest[i]
    BY <2>4
  <2> HIDE DEF new
  <2>9. Distinct(new)
    BY <2>5, <2>6, <2>7, <2>8 DEF Distinct
  <2> QED
    BY <1>1, <2>2, <2>3, <2>8, <2>9 DEF new
<1> QED
  BY <1>2, <1>3, <1>4

\* The list is trimmed at power-on, before task_8563 files a record.
Trimmed == phase \in {"boot", "recover"} => Len(workRec) <= RecCap

\* A step keeps the list bounded and its keys distinct.
LEMMA NextWorkRec ==
  TypeOK /\ WorkRecBounded /\ Trimmed /\ [Next]_vars => (WorkRecBounded /\ Trimmed)'
<1> SUFFICES ASSUME TypeOK, WorkRecBounded, Trimmed, [Next]_vars
             PROVE  (WorkRecBounded /\ Trimmed)'
  OBVIOUS
<1> USE DEF volatile, flash, history
<1>1. workRec \in Seq(Record) /\ Len(workRec) \in Nat /\ RecCap \in Nat
  BY LenProperties, Parameters DEF TypeOK
<1>2. CASE PowerOn
  <2>1. CASE Len(workRec) > RecCap
    <3>1. workRec' = SubSeq(workRec, 1, RecCap)
      BY <1>2, <2>1 DEF PowerOn, Trim
    <3>2. /\ Len(workRec') = RecCap
          /\ \A i \in 1 .. RecCap : workRec'[i] = workRec[i]
      BY <1>1, <2>1, <3>1, SubSeqProperties
    <3> QED
      BY <1>1, <2>1, <3>2 DEF WorkRecBounded, Trimmed
  <2>2. CASE Len(workRec) <= RecCap
    <3>1. workRec' = workRec
      BY <1>1, <1>2, <2>2 DEF PowerOn, Trim
    <3> QED
      BY <2>2, <3>1 DEF WorkRecBounded, Trimmed
  <2> QED
    BY <1>1, <2>1, <2>2
<1>3. CASE Recover
  <2> DEFINE driver == DriverOf(SlotOf(fram))
             rec    == [key |-> StartOf(fram), driver |-> driver, end |-> EndOf(fram)]
  <2>1. phase = "recover" /\ phase' = "idle"
        /\ (workRec' = workRec \/ (driver # None /\ workRec' = putBytes(workRec, rec)))
    BY <1>3 DEF Recover
  <2>2. driver \in Drivers \cup {None}
    BY DEF DriverOf, TypeOK
  <2>3. StartOf(fram) \in Nat /\ EndOf(fram) \in Nat
    BY WordType DEF StartOf, EndOf, TypeOK
  <2>4. driver # None => rec \in Record
    BY <2>2, <2>3 DEF Record
  <2>5. Len(workRec) <= RecCap /\ Distinct(workRec)
    BY <2>1 DEF Trimmed, WorkRecBounded, Distinct
  <2> HIDE DEF rec, driver
  <2>6. CASE workRec' = workRec
    BY <2>1, <2>6 DEF WorkRecBounded, Trimmed
  <2>7. CASE driver # None /\ workRec' = putBytes(workRec, rec)
    <3>1. Distinct(putBytes(workRec, rec)) /\ Len(putBytes(workRec, rec)) <= Len(workRec) + 1
          /\ putBytes(workRec, rec) \in Seq(Record)
      BY <1>1, <2>4, <2>5, <2>7, PutDistinct, PutType
    <3>2. Distinct(workRec)' /\ Len(workRec') <= Len(workRec) + 1 /\ Len(workRec') \in Nat
      BY <2>7, <3>1, LenProperties DEF Distinct
    <3> QED
      BY <1>1, <2>1, <2>5, <3>2 DEF WorkRecBounded, Trimmed, Distinct
  <2> QED
    BY <2>1, <2>6, <2>7
<1>4. CASE RtcStart \/ RtcAbsent \/ RecoverSkipped \/ LoopIdle \/ LoopJournal \/ WriteByte
           \/ Tick \/ PowerOff
  <2>1. workRec' = workRec /\ (phase' \in {"boot", "recover"} => phase \in {"boot", "recover"})
    BY <1>4 DEF RtcStart, RtcAbsent, RecoverSkipped, LoopIdle, LoopJournal, WriteByte, Tick,
                PowerOff
  <2> QED
    BY <2>1 DEF WorkRecBounded, Trimmed
<1>5. ASSUME NEW slot \in Slots, Authenticate(slot) PROVE (WorkRecBounded /\ Trimmed)'
  BY <1>5 DEF Authenticate, WorkRecBounded, Trimmed
<1>6. CASE Elsewhere
  <2>1. workRec' = workRec /\ phase' = phase
    BY <1>6 DEF Elsewhere, Bind, Unbind, SetRtc, vars
  <2> QED
    BY <2>1 DEF WorkRecBounded, Trimmed
<1> QED
  BY <1>2, <1>3, <1>4, <1>5, <1>6 DEF Next, Task8563, Elsewhere

(***************************************************************************)
(* The namespace work_rec never holds more than one record beyond the 256   *)
(* that print_all keeps, and a ride has one entry however often its image   *)
(* is filed again: a record is filed once per power-on, after the trim.     *)
(***************************************************************************)
THEOREM RecordsBounded == Spec => []WorkRecBounded
<1>1. Init => WorkRecBounded /\ Trimmed
  BY Parameters DEF Init, WorkRecBounded, Trimmed
<1>2. TypeOK /\ WorkRecBounded /\ Trimmed /\ [Next]_vars => (WorkRecBounded /\ Trimmed)'
  BY NextWorkRec
<1> QED
  BY <1>1, <1>2, TypeCorrect, PTL DEF Spec

-------------------------------------------------------------------------------
(***************************************************************************)
(* Numbers and their bytes.                                                *)
(***************************************************************************)

\* A number is its quotient and its remainder.
LEMMA DivMod ==
  ASSUME NEW n \in Nat
  PROVE  /\ n \div Base \in Nat /\ n % Base \in Bytes
         /\ (n \div Base) * Base + (n % Base) = n
BY Parameters, Remainder

\* A number shifted by a byte, and a byte.
LEMMA StepNat ==
  ASSUME NEW x \in Nat, NEW b \in Nat PROVE x * Base + b \in Nat
<1>1. x * Base \in Nat
  BY ProductNat, Parameters
<1> QED
  BY <1>1

\* Products keep the order.
LEMMA MulMono ==
  ASSUME NEW x \in Nat, NEW y \in Nat, NEW b \in Nat, x <= y
  PROVE  x * b <= y * b
OBVIOUS

\* The quotient of a number of one byte more.
LEMMA DivLess ==
  ASSUME NEW n \in Nat, NEW m \in Nat, n < m * Base
  PROVE  n \div Base < m
<1>1. n \div Base \in Nat /\ (n \div Base) * Base <= n
  BY DivMod, Parameters DEF Bytes
<1>2. SUFFICES ASSUME m <= n \div Base PROVE FALSE
  BY <1>1
<1>3. m * Base <= (n \div Base) * Base
  BY <1>1, <1>2, MulMono, Parameters
<1> QED
  BY <1>1, <1>3, ProductNat, Parameters

\* A number of one byte.
LEMMA ModSmall ==
  ASSUME NEW n \in Nat, n < Base
  PROVE  n % Base = n /\ n \div Base = 0
<1>1. n \div Base < 1
  BY DivLess, Parameters
<1>2. n \div Base = 0
  BY <1>1, DivMod
<1> QED
  BY <1>2, DivMod, Parameters DEF Bytes

\* The four bytes of a number, high byte first.
LEMMA WordOfBytes ==
  ASSUME NEW n \in Nat, n < Base * Base * Base * Base
  PROVE  /\ BytesOf(n)[1] = ((n \div Base) \div Base) \div Base
         /\ BytesOf(n)[2] = ((n \div Base) \div Base) % Base
         /\ BytesOf(n)[3] = (n \div Base) % Base
         /\ BytesOf(n)[4] = n % Base
<1> DEFINE n8 == n \div Base
           n16 == n8 \div Base
           n24 == n16 \div Base
<1>1. n8 \in Nat /\ n8 < Base * Base * Base
  BY DivMod, DivLess, ProductNat, Parameters
<1>2. n16 \in Nat /\ n16 < Base * Base
  <2> HIDE DEF n8
  <2> QED
    BY <1>1, DivMod, DivLess, ProductNat, Parameters
<1>3. n24 \in Nat /\ n24 < Base
  <2> HIDE DEF n16
  <2> QED
    BY <1>2, DivMod, DivLess, ProductNat, Parameters
<1>4. n24 % Base = n24
  <2> HIDE DEF n24
  <2> QED
    BY <1>3, ModSmall
<1>5. BytesOf(n) = <<n24 % Base, n16 % Base, n8 % Base, n % Base>>
  BY DEF BytesOf
<1> HIDE DEF n24, n16, n8
<1> QED
  BY <1>4, <1>5 DEF n24, n16, n8

\* Four elements, four more, and two.
LEMMA ConcatThree ==
  ASSUME NEW x \in Seq(Nat), NEW y \in Seq(Nat), NEW z \in Seq(Nat),
         Len(x) = 4, Len(y) = 4, Len(z) = 2
  PROVE  /\ \A i \in 1 .. 4 : (x \o y \o z)[i] = x[i] /\ (x \o y \o z)[i + 4] = y[i]
         /\ (x \o y \o z)[9] = z[1] /\ (x \o y \o z)[10] = z[2]
<1>1. /\ x \o y \in Seq(Nat) /\ Len(x \o y) = 8
      /\ \A i \in 1 .. 4 : (x \o y)[i] = x[i] /\ (x \o y)[i + 4] = y[i]
  <2>1. x \o y \in Seq(Nat) /\ Len(x \o y) = Len(x) + Len(y)
    BY ConcatProperties
  <2>2. \A i \in 1 .. Len(x) + Len(y) :
          (x \o y)[i] = IF i <= Len(x) THEN x[i] ELSE y[i - Len(x)]
    BY ConcatProperties
  <2> QED
    BY <2>1, <2>2, SMTT(20)
<1> DEFINE w == x \o y
<1>2. \A i \in 1 .. Len(w) + Len(z) :
        (w \o z)[i] = IF i <= Len(w) THEN w[i] ELSE z[i - Len(w)]
  <2>1. w \in Seq(Nat)
    BY <1>1
  <2> HIDE DEF w
  <2> QED
    BY <2>1, ConcatProperties
<1>3. w \in Seq(Nat) /\ Len(w) = 8
  BY <1>1
<1>4. \A i \in 1 .. 4 : w[i] = x[i] /\ w[i + 4] = y[i]
  BY <1>1
<1> HIDE DEF w
<1> DEFINE v == w \o z
<1>5. \A i \in 1 .. Len(w) + Len(z) : v[i] = IF i <= Len(w) THEN w[i] ELSE z[i - Len(w)]
  BY <1>2
<1> HIDE DEF v
<1>6. \A i \in 1 .. 10 : v[i] = IF i <= 8 THEN w[i] ELSE z[i - 8]
  <2>1. Len(w) = 8 /\ Len(z) = 2
    BY <1>3
  <2>2. Len(w) + Len(z) = 10
    BY <2>1
  <2> QED
    BY ONLY <1>5, <2>1, <2>2
<1>7. /\ \A i \in 1 .. 4 : v[i] = x[i] /\ v[i + 4] = y[i]
      /\ v[9] = z[1] /\ v[10] = z[2]
  <2>1. \A i \in 1 .. 4 : v[i] = w[i] /\ v[i + 4] = w[i + 4]
    BY ONLY <1>6
  <2>2. v[9] = z[1] /\ v[10] = z[2]
    BY ONLY <1>6
  <2> QED
    BY ONLY <1>4, <2>1, <2>2
<1> QED
  BY <1>7 DEF v, w

\* What stands where in an image.
LEMMA ImageAt ==
  ASSUME NEW s \in Times, NEW e \in Times, NEW id \in Slots
  PROVE  LET b == store_data_to_bytes(s, e, id)
         IN  /\ \A i \in 1 .. 4 : b[i] = BytesOf(s)[i] /\ b[i + 4] = BytesOf(e)[i]
             /\ b[9] = 0 /\ b[10] = id
<1>1. id \in Nat /\ id < Base
  BY Parameters
<1>2. (id \div Base) % Base = 0 /\ id % Base = id
  BY <1>1, ModSmall, Parameters
<1>3. s \in Nat /\ e \in Nat
  BY Parameters DEF Times
<1> DEFINE t == <<(id \div Base) % Base, id % Base>>
<1>4. t = <<0, id>>
  BY <1>2
<1>5. BytesOf(s) \in Seq(Nat) /\ BytesOf(e) \in Seq(Nat) /\ <<0, id>> \in Seq(Nat)
  BY <1>1, <1>3, WordBytes, Parameters DEF Bytes
<1>6. store_data_to_bytes(s, e, id) = BytesOf(s) \o BytesOf(e) \o <<0, id>>
  BY <1>4 DEF store_data_to_bytes
<1>7. Len(BytesOf(s)) = 4 /\ Len(BytesOf(e)) = 4 /\ Len(<<0, id>>) = 2
  BY <1>3, WordBytes
<1> DEFINE x == BytesOf(s)
           y == BytesOf(e)
           z == <<0, id>>
<1>8. z[1] = 0 /\ z[2] = id
  OBVIOUS
<1>9. store_data_to_bytes(s, e, id) = x \o y \o z
  BY <1>6
<1>10. x \in Seq(Nat) /\ y \in Seq(Nat) /\ z \in Seq(Nat) /\ Len(x) = 4 /\ Len(y) = 4 /\ Len(z) = 2
  BY <1>5, <1>7
<1> DEFINE b == x \o y \o z
<1> HIDE DEF x, y, z
<1>11. /\ \A i \in 1 .. 4 : b[i] = x[i] /\ b[i + 4] = y[i]
       /\ b[9] = z[1] /\ b[10] = z[2]
  BY <1>10, ConcatThree, Zenon
<1>12. store_data_to_bytes(s, e, id) = b
  BY <1>9
<1> HIDE DEF b
<1> QED
  BY <1>8, <1>11, <1>12 DEF x, y

\* Numbers of four bytes.
Words == {n \in Nat : n < Base * Base * Base * Base}

\* A larger head makes a larger number.
LEMMA StepMono ==
  ASSUME NEW x \in Nat, NEW y \in Nat, NEW b \in Nat, x <= y
  PROVE  x * Base + b <= y * Base + b
BY MulMono, ProductNat, Parameters

\* Division keeps the order.
LEMMA DivMono ==
  ASSUME NEW x \in Nat, NEW y \in Nat, x <= y
  PROVE  x \div Base <= y \div Base
<1> DEFINE u == x \div Base
           v == y \div Base
<1>1. u \in Nat /\ v \in Nat /\ u * Base <= x /\ y < v * Base + Base
  BY DivMod, Parameters DEF Bytes
<1> HIDE DEF u, v
<1>2. SUFFICES ASSUME v + 1 <= u PROVE FALSE
  BY <1>1 DEF u, v
<1>3. (v + 1) * Base <= u * Base
  BY <1>1, <1>2, MulMono, Parameters
<1>4. (v + 1) * Base = v * Base + Base
  BY <1>1, Parameters
<1> QED
  BY <1>1, <1>3, <1>4, ProductNat, Parameters

\* The bytes of b from i on: the first k are of n, the others of m.
Mixes(b, i, k, n, m) == \A j \in 1 .. 4 : b[i + j - 1] = BytesOf(IF j <= k THEN n ELSE m)[j]

(***************************************************************************)
(* Four bytes of which the first k are of n, the others of an earlier m,    *)
(* are a number no smaller than m; with k = 4 they are n.                   *)
(***************************************************************************)
LEMMA MixedWord ==
  ASSUME NEW m \in Words, NEW n \in Words, m <= n, NEW k \in 0 .. 4,
         NEW b \in [1 .. ImageLength -> Bytes], NEW i \in {1, 5},
         Mixes(b, i, k, n, m)
  PROVE  Word(b, i) >= m /\ (k = 4 => Word(b, i) = n)
<1> DEFINE m1 == m \div Base
           m2 == m1 \div Base
           m3 == m2 \div Base
           n1 == n \div Base
           n2 == n1 \div Base
           n3 == n2 \div Base
<1>1. m \in Nat /\ n \in Nat /\ Base \in Nat
  BY Parameters DEF Words
<1>2. m1 \in Nat /\ n1 \in Nat /\ m1 * Base + (m % Base) = m /\ n1 * Base + (n % Base) = n
      /\ m % Base \in Nat /\ n % Base \in Nat
  BY <1>1, DivMod DEF Bytes
<1>3. m2 \in Nat /\ n2 \in Nat /\ m2 * Base + (m1 % Base) = m1 /\ n2 * Base + (n1 % Base) = n1
      /\ m1 % Base \in Nat /\ n1 % Base \in Nat
  <2> HIDE DEF m1, n1
  <2> QED
    BY <1>2, DivMod DEF Bytes
<1>4. m3 \in Nat /\ n3 \in Nat /\ m3 * Base + (m2 % Base) = m2 /\ n3 * Base + (n2 % Base) = n2
      /\ m2 % Base \in Nat /\ n2 % Base \in Nat
  <2> HIDE DEF m2, n2
  <2> QED
    BY <1>3, DivMod DEF Bytes
<1>5. m1 <= n1
  BY <1>1, DivMono
<1>6. m2 <= n2
  <2> HIDE DEF m1, n1
  <2> QED
    BY <1>2, <1>5, DivMono
<1>7. m3 <= n3
  <2> HIDE DEF m2, n2
  <2> QED
    BY <1>3, <1>6, DivMono
<1>8. /\ BytesOf(m)[1] = m3 /\ BytesOf(m)[2] = m2 % Base
      /\ BytesOf(m)[3] = m1 % Base /\ BytesOf(m)[4] = m % Base
      /\ BytesOf(n)[1] = n3 /\ BytesOf(n)[2] = n2 % Base
      /\ BytesOf(n)[3] = n1 % Base /\ BytesOf(n)[4] = n % Base
  BY WordOfBytes DEF Words
<1>9. /\ b[i] = BytesOf(IF 1 <= k THEN n ELSE m)[1]
      /\ b[i + 1] = BytesOf(IF 2 <= k THEN n ELSE m)[2]
      /\ b[i + 2] = BytesOf(IF 3 <= k THEN n ELSE m)[3]
      /\ b[i + 3] = BytesOf(IF 4 <= k THEN n ELSE m)[4]
  BY DEF Mixes
<1> HIDE DEF m1, m2, m3, n1, n2, n3
<1> DEFINE w1 == b[i]
           w2 == w1 * Base + b[i + 1]
           w3 == w2 * Base + b[i + 2]
           w4 == w3 * Base + b[i + 3]
<1>10. Word(b, i) = w4
  BY DEF Word
<1>11. b[i] \in Nat /\ b[i + 1] \in Nat /\ b[i + 2] \in Nat /\ b[i + 3] \in Nat
  BY Parameters DEF ImageLength, Bytes
<1>12. w1 \in Nat /\ w1 >= m3 /\ (1 <= k => w1 = n3)
  BY <1>4, <1>7, <1>8, <1>9
<1>13. w2 \in Nat /\ w2 >= m2 /\ (2 <= k => w2 = n2)
  <2> HIDE DEF w1
  <2>1. w2 \in Nat
    BY <1>11, <1>12, StepNat
  <2>2. CASE 2 <= k
    BY <1>4, <1>6, <1>8, <1>9, <1>12, <2>1, <2>2
  <2>3. CASE 2 > k
    <3>1. b[i + 1] = m2 % Base
      BY <1>8, <1>9, <2>3
    <3>2. m3 * Base + (m2 % Base) <= w1 * Base + (m2 % Base)
      BY <1>4, <1>12, StepMono
    <3> QED
      BY <1>4, <1>12, <2>1, <2>3, <3>1, <3>2
  <2> QED
    BY <2>2, <2>3
<1>14. w3 \in Nat /\ w3 >= m1 /\ (3 <= k => w3 = n1)
  <2> HIDE DEF w2
  <2>1. w3 \in Nat
    BY <1>11, <1>13, StepNat
  <2>2. CASE 3 <= k
    BY <1>3, <1>5, <1>8, <1>9, <1>13, <2>1, <2>2
  <2>3. CASE 3 > k
    <3>1. b[i + 2] = m1 % Base
      BY <1>8, <1>9, <2>3
    <3>2. m2 * Base + (m1 % Base) <= w2 * Base + (m1 % Base)
      BY <1>3, <1>13, StepMono
    <3> QED
      BY <1>3, <1>13, <2>1, <2>3, <3>1, <3>2
  <2> QED
    BY <2>2, <2>3
<1>15. w4 \in Nat /\ w4 >= m /\ (4 <= k => w4 = n)
  <2> HIDE DEF w3
  <2>1. w4 \in Nat
    BY <1>11, <1>14, StepNat
  <2>2. CASE 4 <= k
    BY <1>2, <1>8, <1>9, <1>14, <2>1, <2>2
  <2>3. CASE 4 > k
    <3>1. b[i + 3] = m % Base
      BY <1>8, <1>9, <2>3
    <3>2. m1 * Base + (m % Base) <= w3 * Base + (m % Base)
      BY <1>2, <1>14, StepMono
    <3> QED
      BY <1>2, <1>14, <2>1, <2>3, <3>1, <3>2
  <2> QED
    BY <2>2, <2>3
<1> QED
  BY <1>10, <1>15

-------------------------------------------------------------------------------
(***************************************************************************)
(* The inductive invariant, on top of IInv.  RideNow: the blackboard and    *)
(* the ride under way agree, and the age of the last image plus what is     *)
(* left of the delay never exceeds a period and what task_8563 was kept     *)
(* waiting.  Writing: what is in bytes[], formed at the time now, and how   *)
(* much of it has arrived.  ImageNow: when the image in the FRAM is of the  *)
(* ride under way, which of its bytes are new and which are of the last     *)
(* complete write; JournalHoldsRide follows by MixedWord.                   *)
(***************************************************************************)
Current == rides[Len(rides)]

RideNow ==
  authId # 0 =>
    /\ Current.start = onTime /\ Current.slot = authId /\ Current.last <= clock
    /\ phase \in {"idle", "store"} => clock + timer <= Current.last + Period + Current.late

Now == EndOf(buf)

Writing ==
  phase = "store" => /\ buf = store_data_to_bytes(onTime, Now, authId)
                     /\ Now \in Times /\ timer = 0
                     /\ Current.last <= Now /\ Now <= clock /\ clock <= Now + Current.late
                     /\ \A i \in 1 .. pos : fram[i] = buf[i]

Newer(i) == phase = "store" /\ i + 4 <= pos

ImageNow ==
  authId # 0 /\ inFram = Len(rides) =>
    /\ \A i \in 1 .. 4 :
         /\ fram[i] = BytesOf(onTime)[i]
         /\ fram[i + 4] = BytesOf(IF Newer(i) THEN Now ELSE Current.last)[i]
    /\ fram[9] = 0 /\ fram[10] = authId

ImageInv == RideNow /\ Writing /\ ImageNow /\ JournalHoldsRide

\* A time is a number of four bytes.
LEMMA TimesWords == Times \subseteq Words
BY TimeAssumption, Parameters DEF Times, Words

\* A complete word is the number it was made of.
LEMMA WholeWord ==
  ASSUME NEW n \in Words, NEW b \in [1 .. ImageLength -> Bytes], NEW i \in {1, 5},
         \A j \in 1 .. 4 : b[i + j - 1] = BytesOf(n)[j]
  PROVE  Word(b, i) = n
<1>1. PICK m \in Words, k \in 0 .. 4 : m = n /\ k = 4
  OBVIOUS
<1>2. m <= n
  BY <1>1 DEF Words
<1>3. Mixes(b, i, k, n, m)
  BY <1>1 DEF Mixes
<1>4. k = 4 => Word(b, i) = n
  BY <1>2, <1>3, MixedWord
<1> QED
  BY <1>1, <1>4

\* What is read from a whole image is what was stored.
LEMMA ReadBack ==
  ASSUME NEW s \in Times, NEW e \in Times, NEW id \in Slots
  PROVE  EndOf(store_data_to_bytes(s, e, id)) = e
<1> DEFINE b == store_data_to_bytes(s, e, id)
<1>1. s \in Nat /\ e \in Nat /\ id \in Nat /\ e \in Words
  BY TimesWords, Parameters DEF Times
<1>2. b \in [1 .. ImageLength -> Bytes]
  BY <1>1, ImageBytes
<1>3. \A i \in 1 .. 4 : b[i + 4] = BytesOf(e)[i]
  BY ImageAt
<1> HIDE DEF b
<1>4. \A j \in 1 .. 4 : b[5 + j - 1] = BytesOf(e)[j]
  <2> TAKE j \in 1 .. 4
  <2>1. 5 + j - 1 = j + 4
    OBVIOUS
  <2> QED
    BY <1>3, <2>1
<1>5. Word(b, 5) = e
  BY <1>1, <1>2, <1>4, WholeWord
<1> QED
  BY <1>5 DEF EndOf, b

\* The rides are a function of their numbers; a rider has one.
LEMMA Rides ==
  ASSUME IInv
  PROVE  /\ rides \in Seq(Ride) /\ rides \in [1 .. Len(rides) -> Ride] /\ Len(rides) \in Nat
         /\ inFram \in 0 .. Len(rides)
         /\ authId # 0 => Len(rides) \in 1 .. Len(rides) /\ Current \in Ride /\ authId \in Slots
<1>1. rides \in Seq(Ride) /\ inFram \in 0 .. Len(rides) /\ authId \in Slots \cup {0}
  BY DEF IInv, TypeOK
<1>2. rides \in [1 .. Len(rides) -> Ride] /\ Len(rides) \in Nat
  BY <1>1, LenProperties
<1>3. authId # 0 => Len(rides) > 0
  BY DEF IInv, JournalState
<1> QED
  BY <1>1, <1>2, <1>3 DEF Current

\* The image of the ride under way is of that ride (ImageNow gives JournalHoldsRide).
LEMMA ImageNowHolds ==
  TypeOK /\ authId \in Slots /\ Current \in Ride /\ RideNow /\ Writing /\ ImageNow
    /\ inFram = Len(rides)
    => JournalHoldsRide
<1> SUFFICES ASSUME TypeOK, authId \in Slots, Current \in Ride, RideNow, Writing, ImageNow,
                    inFram = Len(rides)
             PROVE  JournalHoldsRide
  OBVIOUS
<1> DEFINE last == Current.last
           k == IF phase # "store" \/ pos < 5 THEN 0 ELSE IF pos > 8 THEN 4 ELSE pos - 4
<1>1. authId # 0 /\ pos \in 0 .. 10
  BY Parameters DEF TypeOK, ImageLength
<1>2. /\ Current.start = onTime /\ Current.slot = authId /\ last \in Nat
  BY <1>1 DEF RideNow, Ride
<1>3. onTime \in Words
  BY TimesWords DEF TypeOK
<1>4. fram \in [1 .. ImageLength -> Bytes]
  BY DEF TypeOK
<1>5. \A j \in 1 .. 4 : fram[j] = BytesOf(onTime)[j]
  BY <1>1 DEF ImageNow
<1>6. fram[9] = 0 /\ fram[10] = authId
  BY <1>1 DEF ImageNow
<1>7. StartOf(fram) = onTime
  <2>1. \A j \in 1 .. 4 : fram[1 + j - 1] = BytesOf(onTime)[j]
    <3> TAKE j \in 1 .. 4
    <3>1. 1 + j - 1 = j
      OBVIOUS
    <3> QED
      BY <1>5, <3>1
  <2> QED
    BY <1>3, <1>4, <2>1, WholeWord DEF StartOf
<1>8. SlotOf(fram) = authId
  BY <1>6, Parameters DEF SlotOf
<1>9. EndOf(fram) >= last
  \* The time the newer bytes are of.
  <2> DEFINE now == IF phase = "store" THEN Now ELSE last
  <2>1. k \in 0 .. 4 /\ \A j \in 1 .. 4 : j <= k <=> Newer(j)
    BY <1>1 DEF Newer
  <2>2. now \in Words /\ last \in Words /\ last <= now
    <3>1. last <= clock
      BY <1>1 DEF RideNow
    <3>2. last \in Times /\ now \in Times /\ last <= now
      BY <1>2, <3>1, Parameters DEF TypeOK, Times, Writing
    <3> QED
      BY <3>2, TimesWords
  <2>3. \A j \in 1 .. 4 : fram[j + 4] = BytesOf(IF Newer(j) THEN now ELSE last)[j]
    BY <1>1 DEF ImageNow, Newer
  <2> HIDE DEF k, last, now
  <2>4. Mixes(fram, 5, k, now, last)
    <3> SUFFICES ASSUME NEW j \in 1 .. 4
                 PROVE  fram[5 + j - 1] = BytesOf(IF j <= k THEN now ELSE last)[j]
      BY DEF Mixes
    <3>1. 5 + j - 1 = j + 4
      OBVIOUS
    <3> QED
      BY <2>1, <2>3, <3>1
  <2> QED
    BY <1>4, <2>1, <2>2, <2>4, MixedWord DEF EndOf
<1> QED
  BY <1>2, <1>7, <1>8, <1>9 DEF JournalHoldsRide, Current

-------------------------------------------------------------------------------
(***************************************************************************)
(* The step: one byte is written.                                          *)
(***************************************************************************)

\* What WriteByte does, in the terms of the invariant.
LEMMA WriteEffect ==
  ASSUME IInv, ImageInv, WriteByte
  PROVE  /\ phase = "store" /\ authId # 0 /\ authId' = authId /\ onTime' = onTime
         /\ clock' = clock /\ timer = 0 /\ pos \in 0 .. 9
         /\ Len(rides') = Len(rides)
         /\ Current'.start = Current.start /\ Current'.slot = Current.slot
         /\ Current'.late = Current.late
         /\ fram' = [fram EXCEPT ![pos + 1] = buf[pos + 1]]
         /\ buf[pos + 1] \in Bytes
         /\ \/ /\ pos = 9 /\ inFram' = Len(rides) /\ phase' = "idle" /\ timer' = Period
               /\ Current'.last = Now
            \/ /\ pos # 9 /\ pos' = pos + 1 /\ phase' = "store" /\ timer' = timer
               /\ rides' = rides /\ buf' = buf
               /\ inFram' = IF inFram = Len(rides) THEN inFram ELSE 0
<1>1. /\ phase = "store" /\ authId' = authId /\ onTime' = onTime /\ clock' = clock
      /\ fram' = [fram EXCEPT ![pos + 1] = buf[pos + 1]]
  BY DEF WriteByte
<1>2. authId # 0 /\ pos \in 0 .. 9 /\ timer = 0
  BY <1>1 DEF IInv, TypeOK, JournalState, ImageLength, ImageInv, Writing
<1>3. buf[pos + 1] \in Bytes
  BY <1>2 DEF IInv, TypeOK, ImageLength
<1>4. /\ rides \in Seq(Ride) /\ rides \in [1 .. Len(rides) -> Ride] /\ Len(rides) \in 1 .. Len(rides)
      /\ Current \in Ride /\ authId \in Slots
  BY <1>2, Rides
<1>5. CASE pos + 1 = ImageLength
  <2> DEFINE r == [rides[Len(rides)] EXCEPT !.durable = TRUE, !.last = EndOf(buf)]
  <2>1. /\ rides' = [rides EXCEPT ![Len(rides)] = r] /\ inFram' = Len(rides)
        /\ phase' = "idle" /\ timer' = Period
    BY <1>4, <1>5 DEF WriteByte
  <2>2. r.start = Current.start /\ r.slot = Current.slot /\ r.last = Now
        /\ r.late = Current.late
    BY <1>4 DEF Ride, Current, Now
  <2> HIDE DEF r
  <2>3. Len(rides') = Len(rides) /\ rides'[Len(rides)] = r
    BY <1>4, <2>1, LenProperties
  <2>4. Current' = r
    BY <2>3 DEF Current
  <2>5. pos = 9
    BY <1>2, <1>5 DEF ImageLength
  <2> QED
    BY <1>1, <1>2, <1>3, <2>1, <2>2, <2>3, <2>4, <2>5
<1>6. CASE pos + 1 # ImageLength
  <2>1. /\ pos' = pos + 1 /\ phase' = phase /\ timer' = timer /\ rides' = rides /\ buf' = buf
        /\ inFram' = IF inFram = Len(rides) THEN inFram ELSE 0
    BY <1>6 DEF WriteByte
  <2>2. pos # 9
    BY <1>6 DEF ImageLength
  <2> QED
    BY <1>1, <1>2, <1>3, <2>1, <2>2 DEF Current
<1> QED
  BY <1>5, <1>6

\* Which bytes are new after it.
LEMMA WriteImage ==
  ASSUME IInv, ImageInv, WriteByte PROVE RideNow' /\ Writing' /\ ImageNow' /\ JournalHoldsRide'
<1>1. /\ phase = "store" /\ authId # 0 /\ authId' = authId /\ onTime' = onTime
      /\ clock' = clock /\ timer = 0 /\ pos \in 0 .. 9
      /\ Len(rides') = Len(rides)
      /\ Current'.start = Current.start /\ Current'.slot = Current.slot
      /\ Current'.late = Current.late
      /\ fram' = [fram EXCEPT ![pos + 1] = buf[pos + 1]]
      /\ buf[pos + 1] \in Bytes
  BY WriteEffect
<1>2. \/ /\ pos = 9 /\ inFram' = Len(rides) /\ phase' = "idle" /\ timer' = Period
         /\ Current'.last = Now
      \/ /\ pos # 9 /\ pos' = pos + 1 /\ phase' = "store" /\ timer' = timer
         /\ rides' = rides /\ buf' = buf
         /\ inFram' = IF inFram = Len(rides) THEN inFram ELSE 0
  BY WriteEffect
<1>3. /\ Current \in Ride /\ authId \in Slots /\ fram \in [1 .. 10 -> Bytes]
      /\ clock \in Nat /\ onTime \in Times /\ Period \in Nat
      /\ Len(rides) \in 1 .. Len(rides) /\ inFram \in 0 .. Len(rides)
  BY <1>1, Rides, Parameters DEF IInv, TypeOK, ImageLength, Times
<1>4. /\ buf = store_data_to_bytes(onTime, Now, authId)
      /\ Now \in Times /\ Now \in Nat
      /\ Current.last <= Now /\ Now <= clock /\ clock <= Now + Current.late
      /\ \A i \in 1 .. pos : fram[i] = buf[i]
  BY <1>1, Parameters DEF ImageInv, Writing, Times
<1>5. /\ \A i \in 1 .. 4 : buf[i] = BytesOf(onTime)[i] /\ buf[i + 4] = BytesOf(Now)[i]
      /\ buf[9] = 0 /\ buf[10] = authId
  BY <1>3, <1>4, ImageAt
<1>6. /\ \A i \in 1 .. pos + 1 : fram'[i] = buf[i]
      /\ \A i \in pos + 2 .. 10 : fram'[i] = fram[i]
  BY <1>1, <1>3, <1>4, SMTT(20)
<1>7. Current'.start = onTime /\ Current'.slot = authId /\ Current.last <= clock
      /\ clock + timer <= Current.last + Period + Current.late
      /\ Current.last \in Nat /\ Current.late \in Nat
  BY <1>1, <1>3 DEF ImageInv, RideNow, Ride
<1>8. RideNow'
  <2>1. Current'.last <= clock /\ clock + timer' <= Current'.last + Period + Current'.late
    <3>1. CASE pos = 9
      <4>1. Current'.last = Now /\ timer' = Period /\ Current'.late = Current.late
        BY <1>1, <1>2, <3>1
      <4>2. Now <= clock /\ clock <= Now + Current.late /\ Now \in Nat
        BY <1>4
      <4> QED
        BY ONLY <1>3, <1>7, <4>1, <4>2
    <3>2. CASE pos # 9
      BY <1>2, <1>7, <3>2 DEF Current
    <3> QED
      BY <3>1, <3>2
  <2> QED
    BY <1>1, <1>7, <2>1 DEF RideNow
<1>9. Writing'
  <2>1. CASE pos = 9
    BY <1>2, <2>1 DEF Writing
  <2>2. CASE pos # 9
    <3>1. Now' = Now /\ Current' = Current /\ pos' = pos + 1 /\ timer' = 0
      BY <1>1, <1>2, <2>2 DEF Now, EndOf, Word, Current
    <3> QED
      BY <1>1, <1>2, <1>4, <1>6, <2>2, <3>1 DEF Writing
  <2> QED
    BY <2>1, <2>2
<1>10. ImageNow'
  <2>1. CASE pos = 9
    <3>1. ~Newer(1)' /\ ~Newer(2)' /\ ~Newer(3)' /\ ~Newer(4)' /\ Current'.last = Now
      BY <1>2, <2>1 DEF Newer
    <3>2. \A i \in 1 .. 10 : fram'[i] = buf[i]
      BY <1>6, <2>1
    <3> QED
      BY <1>1, <1>5, <3>1, <3>2 DEF ImageNow
  <2>2. CASE pos # 9 /\ inFram = Len(rides)
    <3>1. /\ \A i \in 1 .. 4 :
               /\ fram[i] = BytesOf(onTime)[i]
               /\ fram[i + 4] = BytesOf(IF Newer(i) THEN Now ELSE Current.last)[i]
          /\ fram[9] = 0 /\ fram[10] = authId
      BY <1>1, <2>2 DEF ImageInv, ImageNow
    <3>2. Current' = Current /\ phase' = "store" /\ pos' = pos + 1 /\ Now' = Now
      BY <1>2, <2>2 DEF Current, Now, EndOf, Word
    <3>3. ASSUME NEW i \in 1 .. 4
          PROVE  /\ fram'[i] = BytesOf(onTime)[i]
                 /\ fram'[i + 4] = BytesOf(IF Newer(i)' THEN Now ELSE Current.last)[i]
      <4>1. fram'[i] = fram[i] \/ fram'[i] = buf[i]
        BY <1>1, <1>6
      <4>2. CASE i + 4 <= pos + 1
        <5>1. Newer(i)' /\ fram'[i + 4] = buf[i + 4]
          BY <1>1, <1>6, <3>2, <4>2 DEF Newer
        <5> QED
          BY <1>5, <3>1, <4>1, <5>1
      <4>3. CASE i + 4 > pos + 1
        <5>1. ~Newer(i)' /\ ~Newer(i) /\ fram'[i + 4] = fram[i + 4]
          BY <1>1, <1>6, <3>2, <4>3 DEF Newer
        <5> QED
          BY <1>5, <3>1, <4>1, <5>1
      <4> QED
        BY <1>1, <4>2, <4>3
    <3>4. fram'[9] = 0 /\ fram'[10] = authId
      BY <1>1, <1>5, <1>6, <3>1
    <3> QED
      BY <1>1, <3>2, <3>3, <3>4 DEF ImageNow
  <2>3. CASE pos # 9 /\ inFram # Len(rides)
    <3>1. inFram' # Len(rides')
      BY <1>1, <1>2, <1>3, <2>3
    <3> QED
      BY <3>1 DEF ImageNow
  <2> QED
    BY <2>1, <2>2, <2>3
<1>11. TypeOK' /\ Current' \in Ride
  <2>1. TypeOK'
    BY NextTypeOK DEF IInv, Next, Task8563
  <2>2. rides' \in Seq(Ride)
    BY <2>1 DEF TypeOK
  <2> QED
    BY <1>1, <1>3, <2>1, <2>2, ElementOfSeq DEF Current
<1>12. JournalHoldsRide'
  <2>1. inFram' = 0 \/ inFram' = Len(rides')
    BY <1>1, <1>2
  <2>2. CASE inFram' = 0
    BY <2>2 DEF JournalHoldsRide
  <2>3. CASE inFram' = Len(rides')
    <3>1. authId' \in Slots
      BY <1>1, <1>3
    <3>2. (TypeOK /\ authId \in Slots /\ Current \in Ride /\ RideNow /\ Writing /\ ImageNow
           /\ inFram = Len(rides) => JournalHoldsRide)'
      BY ImageNowHolds, PTL
    <3> QED
      BY <1>8, <1>9, <1>10, <1>11, <2>3, <3>1, <3>2
  <2> QED
    BY <2>1, <2>2, <2>3
<1> QED
  BY <1>8, <1>9, <1>10, <1>12

-------------------------------------------------------------------------------
\* A step that leaves the image and the riders alone.
LEMMA ImageKept ==
  ASSUME ImageInv, UNCHANGED <<authId, onTime, clock, phase, timer, buf, pos, fram, rides, inFram>>
  PROVE  ImageInv'
BY DEF ImageInv, RideNow, Writing, ImageNow, Newer, Current, Now, EndOf, StartOf, SlotOf, Word,
       JournalHoldsRide

\* With nobody authenticated only JournalHoldsRide says anything.
LEMMA NobodyRides ==
  ASSUME JournalHoldsRide', authId' = 0, phase' # "store" PROVE ImageInv'
BY DEF ImageInv, RideNow, Writing, ImageNow

\* Every step preserves the invariant.
LEMMA NextImageInv == IInv /\ ImageInv /\ [Next]_vars => ImageInv'
<1> SUFFICES ASSUME IInv, ImageInv, [Next]_vars PROVE ImageInv'
  OBVIOUS
<1> USE DEF volatile, flash, history
<1>1. /\ rides \in Seq(Ride) /\ rides \in [1 .. Len(rides) -> Ride] /\ Len(rides) \in Nat
      /\ inFram \in 0 .. Len(rides)
      /\ authId # 0 => Len(rides) \in 1 .. Len(rides) /\ Current \in Ride /\ authId \in Slots
  BY Rides
<1>2. CASE PowerOn \/ RtcStart \/ RtcAbsent \/ PowerOff
  <2>1. UNCHANGED <<fram, rides, inFram>> /\ authId' = 0 /\ phase' # "store"
    BY <1>2 DEF PowerOn, RtcStart, RtcAbsent, PowerOff, IInv, JournalState
  <2>2. JournalHoldsRide'
    BY <2>1 DEF ImageInv, JournalHoldsRide, StartOf, EndOf, SlotOf, Word
  <2> QED
    BY <2>1, <2>2, NobodyRides
<1>3. CASE Recover \/ RecoverSkipped
  <2>1. UNCHANGED <<fram, inFram>> /\ authId' = 0 /\ phase' # "store"
    BY <1>3 DEF Recover, RecoverSkipped, IInv, JournalState
  <2>2. PICK outcome \in {"recorded", "unbound", "skipped"} : Settle(outcome)
    BY <1>3 DEF Recover, RecoverSkipped
  <2>3. inFram # 0 => /\ rides'[inFram].start = rides[inFram].start
                      /\ rides'[inFram].slot = rides[inFram].slot
                      /\ rides'[inFram].last = rides[inFram].last
    BY <1>1, <2>2 DEF Settle, Ride
  <2>4. JournalHoldsRide'
    BY <2>1, <2>3 DEF ImageInv, JournalHoldsRide, StartOf, EndOf, SlotOf, Word
  <2> QED
    BY <2>1, <2>4, NobodyRides
<1>4. CASE LoopIdle
  <2>1. UNCHANGED <<fram, rides, inFram>> /\ authId' = 0 /\ phase' # "store"
    BY <1>4 DEF LoopIdle
  <2>2. JournalHoldsRide'
    BY <2>1 DEF ImageInv, JournalHoldsRide, StartOf, EndOf, SlotOf, Word
  <2> QED
    BY <2>1, <2>2, NobodyRides
<1>5. CASE LoopJournal
  <2>1. /\ UNCHANGED <<authId, onTime, clock, timer, fram, rides, inFram>>
        /\ phase = "idle" /\ phase' = "store" /\ pos' = 0 /\ timer = 0 /\ authId # 0
        /\ buf' = store_data_to_bytes(onTime, clock, authId)
    BY <1>5 DEF LoopJournal
  <2>2. \A i \in 1 .. 4 : ~Newer(i) /\ ~Newer(i)'
    BY <2>1 DEF Newer
  <2>3. RideNow' /\ Writing'
    <3>1. clock \in Times /\ onTime \in Times /\ authId \in Slots /\ Current \in Ride
      BY <1>1, <2>1 DEF IInv, TypeOK
    <3>2. Now' = clock
      BY <2>1, <3>1, ReadBack DEF Now
    <3>3. /\ Current.last <= clock /\ Current.late \in Nat /\ clock \in Nat
          /\ clock + timer <= Current.last + Period + Current.late
          /\ Current.start = onTime /\ Current.slot = authId
      BY <2>1, <3>1, Parameters DEF ImageInv, RideNow, Ride, Times
    <3>4. Current' = Current
      BY <2>1 DEF Current
    <3> QED
      BY <2>1, <3>1, <3>2, <3>3, <3>4 DEF RideNow, Writing
  <2>4. ImageNow'
    BY <2>1, <2>2 DEF ImageInv, ImageNow, Current
  <2>5. JournalHoldsRide'
    BY <2>1 DEF ImageInv, JournalHoldsRide, StartOf, EndOf, SlotOf, Word
  <2> QED
    BY <2>3, <2>4, <2>5 DEF ImageInv
<1>6. CASE WriteByte
  BY <1>6, WriteImage DEF ImageInv
<1>7. ASSUME NEW slot \in Slots, Authenticate(slot) PROVE ImageInv'
  <2>1. /\ UNCHANGED <<phase, clock, timer, fram, inFram>> /\ authId' = slot /\ onTime' = clock
        /\ phase # "store"
    BY <1>7 DEF Authenticate
  <2>2. /\ Len(rides') = Len(rides) + 1
        /\ \A i \in 1 .. Len(rides) : rides'[i] = rides[i]
        /\ Current'.start = clock /\ Current'.slot = slot /\ Current'.last = clock
        /\ Current'.late = 0
    BY <1>1, <1>7 DEF Authenticate, Current
  <2>3. clock \in Nat /\ timer \in 0 .. Period /\ Period \in Nat
    BY Parameters DEF IInv, TypeOK, Times
  <2>4. RideNow'
    BY <2>1, <2>2, <2>3 DEF RideNow
  <2>5. inFram' # Len(rides')
    BY <1>1, <2>1, <2>2
  <2>6. JournalHoldsRide'
    <3>1. inFram # 0 => rides'[inFram] = rides[inFram]
      BY <1>1, <2>2
    <3> QED
      BY <2>1, <3>1 DEF ImageInv, JournalHoldsRide, StartOf, EndOf, SlotOf, Word
  <2> QED
    BY <2>1, <2>4, <2>5, <2>6 DEF ImageInv, Writing, ImageNow
<1>8. CASE Tick
  <2>1. UNCHANGED <<phase, authId, onTime, buf, pos, fram, inFram>>
    BY <1>8 DEF Tick
  <2>2. /\ Len(rides') = Len(rides)
        /\ phase = "off" \/ clock' = clock + 1
        /\ timer' = IF timer > 0 THEN timer - 1 ELSE 0
        /\ \A i \in 1 .. Len(rides) :
             /\ rides'[i].start = rides[i].start /\ rides'[i].slot = rides[i].slot
             /\ rides'[i].last = rides[i].last
             /\ authId # 0 /\ i = Len(rides) =>
                  rides'[i].late = IF Due THEN rides[i].late + 1 ELSE rides[i].late
    BY <1>8, TickEffect DEF IInv
  <2>3. JournalHoldsRide'
    <3>1. inFram # 0 => inFram \in 1 .. Len(rides)
      BY <1>1
    <3> QED
      BY <2>1, <2>2, <3>1 DEF ImageInv, JournalHoldsRide, StartOf, EndOf, SlotOf, Word
  <2>4. CASE authId = 0
    BY <2>1, <2>3, <2>4, NobodyRides DEF IInv, JournalState
  <2>5. CASE authId # 0
    <3>1. /\ Current'.start = Current.start /\ Current'.slot = Current.slot
          /\ Current'.last = Current.last
          /\ Current'.late = IF Due THEN Current.late + 1 ELSE Current.late
      BY <1>1, <2>2, <2>5 DEF Current
    <3>2. clock' = clock + 1
      BY <2>2, <2>5 DEF IInv, JournalState
    <3>3. clock \in Nat /\ timer \in Nat /\ Period \in Nat /\ Current.last \in Nat
          /\ Current.late \in Nat
      BY <1>1, <2>5, Parameters DEF IInv, TypeOK, Times, Ride
    <3>4. RideNow'
      BY <2>1, <2>2, <2>5, <3>1, <3>2, <3>3 DEF ImageInv, RideNow, Due
    <3>5. Now' = Now /\ \A i \in 1 .. 4 : Newer(i)' = Newer(i)
      BY <2>1 DEF Newer, Now, EndOf, Word
    <3>6. ImageNow'
      BY <2>1, <2>2, <3>1, <3>5 DEF ImageInv, ImageNow
    <3>7. Writing'
      <4> SUFFICES ASSUME phase = "store" PROVE Writing'
        BY <2>1 DEF Writing
      <4>1. /\ buf = store_data_to_bytes(onTime, Now, authId) /\ Now \in Times /\ timer = 0
            /\ Current.last <= Now /\ Now <= clock /\ clock <= Now + Current.late
            /\ \A i \in 1 .. pos : fram[i] = buf[i]
        BY DEF ImageInv, Writing
      <4>2. Now \in Nat
        BY <4>1, Parameters DEF Times
      <4>3. /\ timer' = 0 /\ Current'.last <= Now /\ Now <= clock'
            /\ clock' <= Now + Current'.late
        BY <2>2, <3>1, <3>2, <3>3, <4>1, <4>2 DEF Due
      <4> QED
        BY <2>1, <3>5, <4>1, <4>3 DEF Writing
    <3> QED
      BY <2>3, <3>4, <3>6, <3>7 DEF ImageInv
  <2> QED
    BY <2>4, <2>5
<1>9. CASE Elsewhere
  <2>1. UNCHANGED <<authId, onTime, clock, phase, timer, buf, pos, fram, rides, inFram>>
    BY <1>9 DEF Elsewhere, Bind, Unbind, SetRtc, vars
  <2> QED
    BY <2>1, ImageKept
<1> QED
  BY <1>2, <1>3, <1>4, <1>5, <1>6, <1>7, <1>8, <1>9 DEF Next, Task8563, Elsewhere

\* The invariant is inductive.
LEMMA ImageInductive == Spec => [](IInv /\ ImageInv)
<1>1. Init => IInv /\ ImageInv
  BY InitTypeOK DEF Init, IInv, JournalState, ImageRead, NoRideLost, ImageInv, RideNow, Writing,
                    ImageNow, JournalHoldsRide
<1>2. IInv /\ ImageInv /\ [Next]_vars => (IInv /\ ImageInv)'
  BY NextTypeOK, NextJournalState, NextNoRideLost, NextImageInv DEF IInv
<1> QED
  BY <1>1, <1>2, PTL DEF Spec

(***************************************************************************)
(* A ride that was written completely is never damaged by the writes that   *)
(* follow, at whatever byte the power is cut: the image names its start and *)
(* slot, and an end no earlier than the last complete write.  It rests on   *)
(* store_data_to_bytes putting the high byte first.                         *)
(***************************************************************************)
THEOREM ImageHoldsRide == Spec => []JournalHoldsRide
<1>1. ImageInv => JournalHoldsRide
  BY DEF ImageInv
<1> QED
  BY <1>1, ImageInductive, PTL

-------------------------------------------------------------------------------
(***************************************************************************)
(* The records of the rides.  When the clock never goes back, the bytes of  *)
(* an image come from times that do not increase from the first byte to the *)
(* last, for later writes come from the front; the word they make is then   *)
(* no smaller than the earliest of them (SourcesWord).  So what is filed    *)
(* from an image, torn or not, does not cut a ride short that was written.  *)
(***************************************************************************)
ForwardClock == AdjustTimes = {} /\ RtcFaults = FALSE

Sources(a, b, i) ==
  /\ \A j \in 1 .. 4 : b[i + j - 1] = BytesOf(a[j])[j]
  /\ a[1] >= a[2] /\ a[2] >= a[3] /\ a[3] >= a[4]

\* A word is no smaller than the source of its last byte.
LEMMA SourcesWord ==
  ASSUME NEW a \in [1 .. 4 -> Words], NEW b \in [1 .. ImageLength -> Bytes], NEW i \in {1, 5},
         Sources(a, b, i)
  PROVE  Word(b, i) \in Nat /\ Word(b, i) >= a[4]
<1> DEFINE q1(n) == n \div Base
           q2(n) == q1(n) \div Base
           q3(n) == q2(n) \div Base
<1>1. /\ a[1] \in Words /\ a[2] \in Words /\ a[3] \in Words /\ a[4] \in Words
      /\ a[1] \in Nat /\ a[2] \in Nat /\ a[3] \in Nat /\ a[4] \in Nat
      /\ a[2] <= a[1] /\ a[3] <= a[2] /\ a[4] <= a[3]
  BY DEF Sources, Words
<1>2. ASSUME NEW n \in Words
      PROVE  /\ q1(n) \in Nat /\ q2(n) \in Nat /\ q3(n) \in Nat
             /\ q1(n) * Base + (n % Base) = n
             /\ q2(n) * Base + (q1(n) % Base) = q1(n)
             /\ q3(n) * Base + (q2(n) % Base) = q2(n)
             /\ BytesOf(n)[1] = q3(n) /\ BytesOf(n)[2] = q2(n) % Base
             /\ BytesOf(n)[3] = q1(n) % Base /\ BytesOf(n)[4] = n % Base
  <2> DEFINE n1 == n \div Base
             n2 == n1 \div Base
             n3 == n2 \div Base
  <2>1. n \in Nat /\ n < Base * Base * Base * Base
    BY DEF Words
  <2>2. n1 \in Nat /\ n1 * Base + (n % Base) = n
    BY <2>1, DivMod
  <2>3. n2 \in Nat /\ n2 * Base + (n1 % Base) = n1
    <3> HIDE DEF n1
    <3> QED
      BY <2>2, DivMod
  <2>4. n3 \in Nat /\ n3 * Base + (n2 % Base) = n2
    <3> HIDE DEF n2
    <3> QED
      BY <2>3, DivMod
  <2>5. /\ BytesOf(n)[1] = n3 /\ BytesOf(n)[2] = n2 % Base
        /\ BytesOf(n)[3] = n1 % Base /\ BytesOf(n)[4] = n % Base
    BY <2>1, WordOfBytes
  <2> QED
    BY <2>2, <2>3, <2>4, <2>5
<1>3. ASSUME NEW m \in Words, NEW n \in Words, m <= n
      PROVE  q1(m) <= q1(n) /\ q2(m) <= q2(n) /\ q3(m) <= q3(n)
  <2>1. m \in Nat /\ n \in Nat
    BY DEF Words
  <2>2. q1(m) <= q1(n) /\ q1(m) \in Nat /\ q1(n) \in Nat
    BY <1>2, <1>3, <2>1, DivMono
  <2>3. q2(m) <= q2(n) /\ q2(m) \in Nat /\ q2(n) \in Nat
    <3> HIDE DEF q1
    <3> QED
      BY <1>2, <2>2, DivMono
  <2>4. q3(m) <= q3(n)
    <3> HIDE DEF q2
    <3> QED
      BY <1>2, <2>3, DivMono
  <2> QED
    BY <2>2, <2>3, <2>4
<1>4. /\ b[i] = BytesOf(a[1])[1] /\ b[i + 1] = BytesOf(a[2])[2]
      /\ b[i + 2] = BytesOf(a[3])[3] /\ b[i + 3] = BytesOf(a[4])[4]
  BY DEF Sources
<1>5. b[i] \in Nat /\ b[i + 1] \in Nat /\ b[i + 2] \in Nat /\ b[i + 3] \in Nat
  BY Parameters DEF ImageLength, Bytes
<1> HIDE DEF q1, q2, q3
<1> DEFINE w1 == b[i]
           w2 == w1 * Base + b[i + 1]
           w3 == w2 * Base + b[i + 2]
           w4 == w3 * Base + b[i + 3]
<1>6. Word(b, i) = w4
  BY DEF Word
<1>7. w1 \in Nat /\ w1 >= q3(a[2])
  BY <1>1, <1>2, <1>3, <1>4, <1>5
<1>8. w2 \in Nat /\ w2 >= q2(a[3])
  <2> HIDE DEF w1
  <2>1. w2 \in Nat
    BY <1>5, <1>7, StepNat
  <2>2. b[i + 1] = q2(a[2]) % Base /\ q3(a[2]) \in Nat /\ q2(a[2]) \in Nat /\ q2(a[3]) \in Nat
        /\ q3(a[2]) * Base + (q2(a[2]) % Base) = q2(a[2])
    BY <1>1, <1>2, <1>4
  <2>3. q3(a[2]) * Base + b[i + 1] <= w1 * Base + b[i + 1]
    BY <1>5, <1>7, <2>2, StepMono
  <2>4. q2(a[3]) <= q2(a[2])
    BY <1>1, <1>3
  <2> QED
    BY <2>1, <2>2, <2>3, <2>4
<1>9. w3 \in Nat /\ w3 >= q1(a[4])
  <2> HIDE DEF w2
  <2>1. w3 \in Nat
    BY <1>5, <1>8, StepNat
  <2>2. b[i + 2] = q1(a[3]) % Base /\ q2(a[3]) \in Nat /\ q1(a[3]) \in Nat /\ q1(a[4]) \in Nat
        /\ q2(a[3]) * Base + (q1(a[3]) % Base) = q1(a[3])
    BY <1>1, <1>2, <1>4
  <2>3. q2(a[3]) * Base + b[i + 2] <= w2 * Base + b[i + 2]
    BY <1>5, <1>8, <2>2, StepMono
  <2>4. q1(a[4]) <= q1(a[3])
    BY <1>1, <1>3
  <2> QED
    BY <2>1, <2>2, <2>3, <2>4
<1>10. w4 \in Nat /\ w4 >= a[4]
  <2> HIDE DEF w3
  <2>1. w4 \in Nat
    BY <1>5, <1>9, StepNat
  <2>2. b[i + 3] = a[4] % Base /\ q1(a[4]) \in Nat /\ q1(a[4]) * Base + (a[4] % Base) = a[4]
    BY <1>1, <1>2, <1>4
  <2>3. q1(a[4]) * Base + b[i + 3] <= w3 * Base + b[i + 3]
    BY <1>5, <1>9, <2>2, StepMono
  <2> QED
    BY <1>1, <2>1, <2>2, <2>3
<1> QED
  BY <1>6, <1>10

\* The list new has rec, and the records of recs under other keys.
Keeps(recs, rec, new) ==
  /\ \E k \in 1 .. Len(new) : new[k] = rec
  /\ \A k \in 1 .. Len(recs) :
       recs[k].key # rec.key => \E m \in 1 .. Len(new) : new[m] = recs[k]

\* What putBytes keeps: every record under another key; and the new one is there.
LEMMA PutKeeps ==
  ASSUME NEW recs \in Seq(Record), NEW rec \in Record
  PROVE  Keeps(recs, rec, putBytes(recs, rec))
<1>0. PICK new : new = putBytes(recs, rec)
  OBVIOUS
<1> SUFFICES Keeps(recs, rec, new)
  BY <1>0
<1>1. recs \in [1 .. Len(recs) -> Record] /\ Len(recs) \in Nat
  BY LenProperties
<1>2. CASE \E i \in KeyAt(recs, rec.key) : recs[i] = rec
  BY <1>0, <1>1, <1>2 DEF putBytes, KeyAt, Keeps
<1>3. CASE KeyAt(recs, rec.key) = {}
  <2>1. new = Append(recs, rec)
    BY <1>0, <1>3 DEF putBytes
  <2>2. /\ Len(new) = Len(recs) + 1
        /\ \A i \in 1 .. Len(recs) : new[i] = recs[i]
        /\ new[Len(recs) + 1] = rec
    BY <1>1, <2>1, AppendProperties
  <2> QED
    BY <1>1, <2>2 DEF Keeps
<1>4. CASE KeyAt(recs, rec.key) # {} /\ ~(\E i \in KeyAt(recs, rec.key) : recs[i] = rec)
  <2> DEFINE at   == CHOOSE i \in KeyAt(recs, rec.key) : TRUE
             rest == RemoveAt(recs, at)
  <2>1. at \in 1 .. Len(recs) /\ recs[at].key = rec.key
    BY <1>4 DEF KeyAt
  <2>2. new = Append(rest, rec)
    BY <1>0, <1>4 DEF putBytes
  <2> HIDE DEF at
  <2>3. /\ rest \in Seq(Record) /\ Len(rest) = Len(recs) - 1
        /\ \A i \in 1 .. Len(rest) : rest[i] = IF i < at THEN recs[i] ELSE recs[i + 1]
    BY <1>1, <2>1, RemoveAtEffect
  <2> HIDE DEF rest
  <2>4. /\ Len(new) = Len(rest) + 1
        /\ \A i \in 1 .. Len(rest) : new[i] = rest[i]
        /\ new[Len(rest) + 1] = rec
    BY <2>2, <2>3, AppendProperties
  <2>5. ASSUME NEW k \in 1 .. Len(recs), recs[k].key # rec.key
        PROVE  \E m \in 1 .. Len(new) : new[m] = recs[k]
    <3>1. k # at
      BY <2>1, <2>5
    <3>2. CASE k < at
      <4>1. k \in 1 .. Len(rest) /\ rest[k] = recs[k]
        BY <1>1, <2>1, <2>3, <3>2
      <4>2. new[k] = recs[k]
        BY <2>4, <4>1
      <4>3. Len(rest) \in Nat
        BY <2>3, LenProperties
      <4>4. k \in 1 .. Len(new)
        BY ONLY <2>4, <4>1, <4>3
      <4> QED
        BY <4>2, <4>4
    <3>3. CASE k > at
      <4>1. k - 1 \in 1 .. Len(rest) /\ rest[k - 1] = recs[k]
        BY <1>1, <2>1, <2>3, <3>3
      <4>2. new[k - 1] = recs[k]
        BY <2>4, <4>1
      <4>3. Len(rest) \in Nat
        BY <2>3, LenProperties
      <4>4. k - 1 \in 1 .. Len(new)
        BY ONLY <2>4, <4>1, <4>3
      <4> QED
        BY <4>2, <4>4
    <3> QED
      BY <1>1, <2>1, <3>1, <3>2, <3>3
  <2> QED
    BY <1>1, <2>3, <2>4, <2>5 DEF Keeps
<1> QED
  BY <1>2, <1>3, <1>4

(***************************************************************************)
(* The inductive invariant, with a clock that only goes forward.            *)
(*                                                                         *)
(* ClockForward: esp32Time is the RTC.  RideTimes: a ride ended at most one *)
(* period after its last complete write, and what task_8563 was kept        *)
(* waiting.  StartsApart: rides start at different times, for the finger    *)
(* tasks start BootDelay after power-on.                                    *)
(* Settled: only a ride that was written is dealt with.  From: where the    *)
(* bytes of the FRAM come from; the last source of the start is no earlier  *)
(* than the start of any ride ever written, that of the end no earlier than *)
(* the end of any.                                                         *)
(***************************************************************************)
ClockForward ==
  /\ phase # "halt"
  /\ phase \in {"recover", "idle", "store"} => clock = rtc

RideTimes ==
  \A i \in 1 .. Len(rides) : rides[i].ended <= rides[i].last + Period + rides[i].late

StartsApart ==
  /\ \A i, j \in 1 .. Len(rides) : i < j => rides[i].start < rides[j].start
  /\ \A i \in 1 .. Len(rides) : rides[i].start <= rtc
  /\ phase # "off" /\ authId = 0 /\ warmup = 0 =>
       \A i \in 1 .. Len(rides) : rides[i].start < rtc

Settled ==
  /\ inFram # 0 => rides[inFram].durable
  /\ \A i \in 1 .. Len(rides) : rides[i].settled # "open" => rides[i].durable
  /\ authId # 0 => Current.settled = "open"

From(a, e) ==
  /\ Sources(a, fram, 1) /\ Sources(e, fram, 5)
  /\ a[1] <= rtc /\ e[1] <= rtc
  /\ authId # 0 => a[1] <= onTime
  /\ phase = "store" =>
       /\ e[1] <= Now
       /\ \A j \in 1 .. 4 : (j <= pos => a[j] = onTime) /\ (j + 4 <= pos => e[j] = Now)
  /\ \A i \in 1 .. Len(rides) :
       rides[i].durable => a[4] >= rides[i].start /\ e[4] >= rides[i].last

FramFrom == \E a, e \in [1 .. 4 -> Words] : From(a, e)

(***************************************************************************)
(* What the steps do to the rides.                                         *)
(***************************************************************************)

\* The fields of a ride that recovery leaves alone.
SameTimes(r, s) == /\ r.start = s.start /\ r.last = s.last /\ r.ended = s.ended
                   /\ r.durable = s.durable /\ r.late = s.late

\* Recovery settles the ride in the FRAM and nothing else.
LEMMA SettleRides ==
  ASSUME IInv, Settled, NEW outcome \in {"recorded", "unbound", "skipped"}, Settle(outcome)
  PROVE  /\ Len(rides') = Len(rides)
         /\ \A i \in 1 .. Len(rides) :
              /\ SameTimes(rides'[i], rides[i])
              /\ \/ rides'[i].settled = rides[i].settled
                 \/ i = inFram /\ rides'[i].settled = outcome
BY Rides, SettleType DEF IInv, Settle, SameTimes, Ride

\* Time passes for the ride under way.
LEMMA TickRides ==
  ASSUME IInv, ImageInv, ClockForward, Tick
  PROVE  /\ Len(rides') = Len(rides)
         /\ \A i \in 1 .. Len(rides) :
              /\ rides'[i].start = rides[i].start /\ rides'[i].last = rides[i].last
              /\ rides'[i].durable = rides[i].durable
              /\ rides'[i].settled = rides[i].settled
              /\ \/ rides'[i].ended = rides[i].ended /\ rides'[i].late = rides[i].late
                 \/ /\ authId # 0 /\ i = Len(rides)
                    /\ rides'[i].ended <= rides'[i].last + Period + rides'[i].late
<1>1. authId # 0 => Len(rides) \in 1 .. Len(rides) /\ Current \in Ride
  BY Rides
<1>2. /\ Len(rides') = Len(rides)
      /\ phase = "off" \/ clock' = clock + 1
      /\ \A i \in 1 .. Len(rides) :
           /\ rides'[i].start = rides[i].start /\ rides'[i].last = rides[i].last
           /\ rides'[i].durable = rides[i].durable /\ rides'[i].settled = rides[i].settled
           /\ \/ rides'[i] = rides[i]
              \/ /\ authId # 0 /\ i = Len(rides) /\ rides'[i].ended = clock'
                 /\ rides'[i].late = IF Due THEN rides[i].late + 1 ELSE rides[i].late
  BY TickEffect DEF IInv
<1>3. ASSUME NEW i \in 1 .. Len(rides), authId # 0, i = Len(rides), rides'[i].ended = clock',
             rides'[i].late = IF Due THEN rides[i].late + 1 ELSE rides[i].late
      PROVE  rides'[i].ended <= rides'[i].last + Period + rides'[i].late
  <2>1. phase \in {"idle", "store"}
    BY <1>3 DEF IInv, JournalState, ClockForward, Tick
  <2>2. clock' = clock + 1 /\ clock + timer <= Current.last + Period + Current.late
    BY <1>2, <1>3, <2>1 DEF ImageInv, RideNow
  <2>3. clock \in Nat /\ timer \in Nat /\ Period \in Nat /\ Current.last \in Nat
        /\ Current.late \in Nat
    BY <1>1, <1>3, Parameters DEF IInv, TypeOK, Times, Ride
  <2>4. /\ rides'[i].last = Current.last
        /\ rides'[i].late = IF timer = 0 THEN Current.late + 1 ELSE Current.late
    BY <1>2, <1>3, <2>1 DEF Due, Current
  <2> QED
    BY <1>3, <2>2, <2>3, <2>4
<1> QED
  BY <1>2, <1>3

\* A complete write makes the ride under way durable, and its end the time written.
LEMMA WriteRides ==
  ASSUME IInv, ImageInv, WriteByte
  PROVE  /\ Len(rides') = Len(rides)
         /\ \A i \in 1 .. Len(rides) :
              /\ rides'[i].start = rides[i].start /\ rides'[i].ended = rides[i].ended
              /\ rides'[i].settled = rides[i].settled /\ rides'[i].late = rides[i].late
              /\ \/ rides'[i].last = rides[i].last /\ rides'[i].durable = rides[i].durable
                 \/ /\ pos = 9 /\ i = Len(rides) /\ rides'[i].last = Now /\ rides'[i].durable
                    /\ rides[i].last <= Now /\ Now <= clock
         /\ inFram' # 0 => /\ inFram' = Len(rides)
                           /\ inFram' = inFram \/ rides'[Len(rides)].durable
<1>1. /\ rides \in [1 .. Len(rides) -> Ride] /\ Len(rides) \in Nat
      /\ authId # 0 => Len(rides) \in 1 .. Len(rides) /\ Current \in Ride
  BY Rides
<1>2. /\ phase = "store" /\ authId # 0 /\ pos \in 0 .. 9 /\ Len(rides') = Len(rides)
      /\ \/ pos = 9 /\ inFram' = Len(rides) /\ Current'.last = Now
         \/ pos # 9 /\ rides' = rides /\ inFram' = IF inFram = Len(rides) THEN inFram ELSE 0
  BY WriteEffect
<1>3. CASE pos = 9
  <2> DEFINE r == [rides[Len(rides)] EXCEPT !.durable = TRUE, !.last = EndOf(buf)]
  <2>1. rides' = [rides EXCEPT ![Len(rides)] = r]
    <3>1. pos + 1 = ImageLength
      BY <1>3 DEF ImageLength
    <3> QED
      BY <1>1, <1>2, <3>1 DEF WriteByte
  <2>2. \A i \in 1 .. Len(rides) : rides'[i] = IF i = Len(rides) THEN r ELSE rides[i]
    <3> HIDE DEF r
    <3> QED
      BY <1>1, <1>2, <2>1
  <2>3. rides'[Len(rides)].last = Now /\ Current.last <= Now /\ Now <= clock
    BY <1>2, <1>3 DEF Current, ImageInv, Writing
  <2>4. /\ r.start = Current.start /\ r.ended = Current.ended /\ r.settled = Current.settled
        /\ r.late = Current.late /\ r.durable
    BY <1>1, <1>2 DEF Ride, Current
  <2> HIDE DEF r
  <2>5. ASSUME NEW i \in 1 .. Len(rides)
        PROVE  /\ rides'[i].start = rides[i].start /\ rides'[i].ended = rides[i].ended
               /\ rides'[i].settled = rides[i].settled /\ rides'[i].late = rides[i].late
               /\ \/ rides'[i] = rides[i]
                  \/ /\ i = Len(rides) /\ rides'[i].last = Now /\ rides'[i].durable
                     /\ rides[i].last <= Now /\ Now <= clock
    BY <1>2, <2>2, <2>3, <2>4 DEF Current
  <2>6. rides'[Len(rides)].durable
    BY <1>1, <1>2, <2>2, <2>4
  <2> QED
    BY <1>2, <1>3, <2>5, <2>6
<1>4. CASE pos # 9
  BY <1>2, <1>4
<1> QED
  BY <1>3, <1>4

\* A new ride starts now.
LEMMA AuthRides ==
  ASSUME IInv, NEW slot \in Slots, Authenticate(slot)
  PROVE  /\ Len(rides') = Len(rides) + 1
         /\ \A i \in 1 .. Len(rides) : rides'[i] = rides[i]
         /\ LET r == rides'[Len(rides) + 1]
            IN  /\ r.start = clock /\ r.last = clock /\ r.ended = clock
                /\ r.late = 0 /\ r.durable = FALSE /\ r.settled = "open"
<1> DEFINE r == [start |-> clock, slot |-> slot, last |-> clock, ended |-> clock,
                 late |-> 0, durable |-> FALSE, settled |-> "open"]
<1>1. rides \in Seq(Ride) /\ Len(rides) \in Nat
  BY Rides
<1>2. rides' = Append(rides, r)
  BY DEF Authenticate
<1>3. r.start = clock /\ r.last = clock /\ r.ended = clock /\ r.late = 0
      /\ ~r.durable /\ r.settled = "open"
  OBVIOUS
<1>4. r \in Ride
  BY DEF IInv, TypeOK, Ride, Times
<1> HIDE DEF r
<1>5. /\ Len(rides') = Len(rides) + 1 /\ \A i \in 1 .. Len(rides) : rides'[i] = rides[i]
      /\ rides'[Len(rides) + 1] = r
  BY <1>1, <1>2, AppendProperties
<1> QED
  BY <1>3, <1>4, <1>5 DEF Ride

(***************************************************************************)
(* Every step preserves the parts.                                         *)
(***************************************************************************)

\* The steps that leave the rides alone, and the flash elsewhere.
Quiet == PowerOn \/ RtcStart \/ PowerOff \/ LoopIdle \/ LoopJournal

\* With a clock that is not set back there is nothing else.
LEMMA ForwardNext ==
  ASSUME ForwardClock, [Next]_vars
  PROVE  \/ Quiet \/ Recover \/ RecoverSkipped \/ WriteByte \/ Tick
         \/ \E slot \in Slots : Authenticate(slot)
         \/ UNCHANGED <<volatile, rtc, fram, workRec, history>>
BY DEF ForwardClock, Next, Task8563, Quiet, RtcAbsent, Bind, Unbind, vars, flash

\* esp32Time stays the RTC.
LEMMA NextClockForward ==
  ASSUME ForwardClock, ClockForward, [Next]_vars PROVE ClockForward'
<1> USE DEF ClockForward
<1>1. CASE PowerOn \/ RtcStart \/ PowerOff \/ LoopIdle \/ LoopJournal
  BY <1>1 DEF PowerOn, RtcStart, PowerOff, LoopIdle, LoopJournal
<1>2. CASE Recover \/ RecoverSkipped \/ WriteByte
  BY <1>2 DEF Recover, RecoverSkipped, WriteByte
<1>3. CASE Tick
  <2>1. phase' = phase /\ rtc' = rtc + 1 /\ (phase \in {"idle", "store"} => clock' = clock + 1)
        /\ phase \in {"off", "halt", "idle", "store"}
    BY <1>3 DEF Tick
  <2> QED
    BY <2>1
<1>4. ASSUME NEW slot \in Slots, Authenticate(slot) PROVE ClockForward'
  BY <1>4 DEF Authenticate
<1>5. CASE UNCHANGED <<volatile, rtc, fram, workRec, history>>
  BY <1>5 DEF volatile
<1> QED
  BY <1>1, <1>2, <1>3, <1>4, <1>5, ForwardNext DEF Quiet

\* What the quiet steps change.
LEMMA QuietEffect ==
  ASSUME IInv, Quiet
  PROVE  /\ rides' = rides /\ inFram' = inFram /\ fram' = fram
         /\ (authId' = authId /\ onTime' = onTime) \/ authId' = 0
         /\ rtc' = rtc \/ RtcFaults
         /\ phase' = "store" => /\ pos' = 0 /\ phase = "idle" /\ UNCHANGED <<clock, onTime>>
                               /\ Now' = clock
         /\ phase' # "off" /\ warmup' = 0 =>
              phase # "off" /\ warmup = 0 /\ (authId' = 0 => authId = 0)
<1>1. CASE PowerOn \/ RtcStart \/ PowerOff \/ LoopIdle
  BY <1>1, Parameters DEF PowerOn, RtcStart, PowerOff, LoopIdle, history, IInv, TypeOK, JournalState
<1>2. CASE LoopJournal
  <2>1. /\ authId \in Slots /\ clock \in Times /\ onTime \in Times
        /\ buf' = store_data_to_bytes(onTime, clock, authId)
    BY <1>2 DEF LoopJournal, IInv, TypeOK
  <2>2. Now' = clock
    BY <2>1, ReadBack DEF Now
  <2> QED
    BY <1>2, <2>2 DEF LoopJournal, history
<1> QED
  BY <1>1, <1>2 DEF Quiet

\* A ride ended at most one period, and what task_8563 was kept waiting, after its
\* last complete write.
LEMMA NextRideTimes ==
  ASSUME IInv, ImageInv, ClockForward, Settled, RideTimes, ForwardClock, [Next]_vars
  PROVE  RideTimes'
<1>1. /\ rides \in [1 .. Len(rides) -> Ride] /\ Len(rides) \in Nat /\ Period \in Nat
      /\ clock \in Nat
  BY Rides, Parameters DEF IInv, TypeOK, Times
<1>2. \A i \in 1 .. Len(rides) :
        /\ rides[i].ended <= rides[i].last + Period + rides[i].late
        /\ rides[i].last \in Nat /\ rides[i].ended \in Nat /\ rides[i].late \in Nat
  BY <1>1, Parameters DEF RideTimes, Ride, Times
<1>3. CASE Quiet
  BY <1>3, QuietEffect DEF RideTimes
<1>4. CASE Recover \/ RecoverSkipped
  <2>1. PICK outcome \in {"recorded", "unbound", "skipped"} : Settle(outcome)
    BY <1>4 DEF Recover, RecoverSkipped
  <2>2. Len(rides') = Len(rides) /\ \A i \in 1 .. Len(rides) : SameTimes(rides'[i], rides[i])
    BY <2>1, SettleRides
  <2> QED
    BY <1>2, <2>2 DEF RideTimes, SameTimes
<1>5. CASE WriteByte
  <2>1. /\ Len(rides') = Len(rides)
        /\ \A i \in 1 .. Len(rides) :
              /\ rides'[i].ended = rides[i].ended /\ rides'[i].late = rides[i].late
              /\ \/ rides'[i].last = rides[i].last
                 \/ rides'[i].last = Now /\ rides[i].last <= Now
    BY <1>5, WriteRides
  <2>2. Now \in Nat
    <3>1. phase = "store"
      BY <1>5, WriteEffect
    <3> QED
      BY <3>1, Parameters DEF ImageInv, Writing, Times
  <2>3. ASSUME NEW i \in 1 .. Len(rides)
        PROVE  rides'[i].ended <= rides'[i].last + Period + rides'[i].late
    <3>1. /\ rides[i].ended <= rides[i].last + Period + rides[i].late
          /\ rides[i].last \in Nat /\ rides[i].ended \in Nat /\ rides[i].late \in Nat
      BY <1>2
    <3>2. /\ rides'[i].ended = rides[i].ended /\ rides'[i].late = rides[i].late
          /\ \/ rides'[i].last = rides[i].last
             \/ rides'[i].last = Now /\ rides[i].last <= Now
      BY <2>1
    <3> DEFINE e == rides[i].ended  l == rides[i].last  a == rides[i].late
               k == rides'[i].last
    <3>3. /\ e <= l + Period + a /\ l \in Nat /\ e \in Nat /\ a \in Nat
          /\ (k = l \/ (k = Now /\ l <= Now))
      BY <3>1, <3>2
    <3> HIDE DEF e, l, a, k
    <3>4. e <= k + Period + a
      BY ONLY <1>1, <2>2, <3>3
    <3> QED
      BY <3>2, <3>4 DEF e, k, a
  <2> QED
    BY <2>1, <2>3 DEF RideTimes
<1>6. CASE Tick
  <2>1. /\ Len(rides') = Len(rides)
        /\ \A i \in 1 .. Len(rides) :
              /\ rides'[i].last = rides[i].last
              /\ \/ rides'[i].ended = rides[i].ended /\ rides'[i].late = rides[i].late
                 \/ rides'[i].ended <= rides'[i].last + Period + rides'[i].late
    BY <1>6, TickRides
  <2> QED
    BY <1>2, <2>1 DEF RideTimes
<1>7. ASSUME NEW slot \in Slots, Authenticate(slot) PROVE RideTimes'
  <2>1. /\ Len(rides') = Len(rides) + 1
        /\ \A i \in 1 .. Len(rides) : rides'[i] = rides[i]
        /\ rides'[Len(rides) + 1].ended = clock /\ rides'[Len(rides) + 1].last = clock
        /\ rides'[Len(rides) + 1].late = 0
    BY <1>7, AuthRides
  <2> QED
    BY <1>1, <1>2, <2>1 DEF RideTimes
<1>8. CASE UNCHANGED <<volatile, rtc, fram, workRec, history>>
  BY <1>8 DEF history, RideTimes
<1> QED
  BY <1>3, <1>4, <1>5, <1>6, <1>7, <1>8, ForwardNext

\* Rides start at different times.
LEMMA NextStartsApart ==
  ASSUME IInv, ImageInv, ClockForward, Settled, StartsApart, ForwardClock, [Next]_vars
  PROVE  StartsApart'
<1>1. /\ rides \in [1 .. Len(rides) -> Ride] /\ Len(rides) \in Nat
      /\ clock \in Nat /\ rtc \in Nat
  BY Rides, Parameters DEF IInv, TypeOK, Times
<1>2. \A i \in 1 .. Len(rides) : rides[i].start \in Nat
  BY <1>1, Parameters DEF Ride, Times
<1>3. CASE Quiet
  <2>1. /\ rides' = rides /\ rtc' = rtc
        /\ phase' # "off" /\ warmup' = 0 =>
             phase # "off" /\ warmup = 0 /\ (authId' = 0 => authId = 0)
    BY <1>3, QuietEffect DEF ForwardClock
  <2> QED
    BY <2>1 DEF StartsApart
<1>4. CASE Recover \/ RecoverSkipped
  <2>1. PICK outcome \in {"recorded", "unbound", "skipped"} : Settle(outcome)
    BY <1>4 DEF Recover, RecoverSkipped
  <2>2. Len(rides') = Len(rides) /\ \A i \in 1 .. Len(rides) : rides'[i].start = rides[i].start
    BY <2>1, SettleRides DEF SameTimes
  <2>3. UNCHANGED <<rtc, warmup, authId>> /\ phase = "recover"
    BY <1>4 DEF Recover, RecoverSkipped
  <2> QED
    BY <2>2, <2>3 DEF StartsApart
<1>5. CASE WriteByte
  <2>1. Len(rides') = Len(rides) /\ \A i \in 1 .. Len(rides) : rides'[i].start = rides[i].start
    BY <1>5, WriteRides
  <2>2. UNCHANGED <<rtc, warmup, authId>> /\ phase = "store"
    BY <1>5 DEF WriteByte
  <2> QED
    BY <2>1, <2>2 DEF StartsApart
<1>6. CASE Tick
  <2>1. Len(rides') = Len(rides) /\ \A i \in 1 .. Len(rides) : rides'[i].start = rides[i].start
    BY <1>6, TickRides
  <2>2. rtc' = rtc + 1
    BY <1>6 DEF Tick
  <2> QED
    BY <1>1, <1>2, <2>1, <2>2 DEF StartsApart
<1>7. ASSUME NEW slot \in Slots, Authenticate(slot) PROVE StartsApart'
  <2>1. /\ Len(rides') = Len(rides) + 1
        /\ \A i \in 1 .. Len(rides) : rides'[i] = rides[i]
        /\ rides'[Len(rides) + 1].start = clock
    BY <1>7, AuthRides
  <2>2. /\ rtc' = rtc /\ authId' # 0 /\ authId = 0 /\ warmup = 0 /\ phase \in {"idle", "halt"}
    BY <1>7, Parameters DEF Authenticate
  <2>3. clock = rtc /\ \A i \in 1 .. Len(rides) : rides[i].start < rtc
    BY <2>2 DEF ClockForward, StartsApart
  <2>4. ASSUME NEW i \in 1 .. Len(rides'), NEW j \in 1 .. Len(rides'), i < j
        PROVE  rides'[i].start < rides'[j].start
    <3>1. CASE j = Len(rides) + 1
      BY <1>1, <2>1, <2>3, <2>4, <3>1
    <3>2. CASE j # Len(rides) + 1
      BY <1>1, <2>1, <2>4, <3>2 DEF StartsApart
    <3> QED
      BY <3>1, <3>2
  <2>5. \A i \in 1 .. Len(rides') : rides'[i].start <= rtc'
    BY <1>1, <1>2, <2>1, <2>2, <2>3
  <2> QED
    BY <2>2, <2>4, <2>5 DEF StartsApart
<1>8. CASE UNCHANGED <<volatile, rtc, fram, workRec, history>>
  BY <1>8 DEF history, volatile, StartsApart
<1> QED
  BY <1>3, <1>4, <1>5, <1>6, <1>7, <1>8, ForwardNext

\* Only a ride that was written is dealt with.
LEMMA NextSettled ==
  ASSUME IInv, ImageInv, ClockForward, Settled, ForwardClock, [Next]_vars
  PROVE  Settled'
<1>1. /\ rides \in [1 .. Len(rides) -> Ride] /\ Len(rides) \in Nat /\ inFram \in 0 .. Len(rides)
      /\ authId # 0 => Len(rides) \in 1 .. Len(rides)
  BY Rides
<1>2. CASE Quiet
  BY <1>2, QuietEffect DEF Settled, Current
<1>3. CASE Recover \/ RecoverSkipped
  <2>1. PICK outcome \in {"recorded", "unbound", "skipped"} : Settle(outcome)
    BY <1>3 DEF Recover, RecoverSkipped
  <2>2. /\ Len(rides') = Len(rides)
        /\ \A i \in 1 .. Len(rides) :
             /\ rides'[i].durable = rides[i].durable
             /\ rides'[i].settled = rides[i].settled \/ i = inFram
    BY <2>1, SettleRides DEF SameTimes
  <2>3. authId' = 0 /\ inFram' = inFram
    BY <1>3 DEF Recover, RecoverSkipped, IInv, JournalState
  <2> QED
    BY <1>1, <2>2, <2>3 DEF Settled
<1>4. CASE WriteByte
  <2>1. /\ Len(rides') = Len(rides)
        /\ \A i \in 1 .. Len(rides) :
              /\ rides'[i].settled = rides[i].settled
              /\ rides'[i].durable = rides[i].durable \/ rides'[i].durable
        /\ inFram' # 0 => /\ inFram' = Len(rides)
                          /\ inFram' = inFram \/ rides'[Len(rides)].durable
    BY <1>4, WriteRides
  <2>2. authId' = authId /\ authId # 0
    BY <1>4, WriteEffect
  <2> QED
    BY <1>1, <2>1, <2>2 DEF Settled, Current
<1>5. CASE Tick
  <2>1. /\ Len(rides') = Len(rides)
        /\ \A i \in 1 .. Len(rides) : /\ rides'[i].durable = rides[i].durable
                                      /\ rides'[i].settled = rides[i].settled
    BY <1>5, TickRides
  <2>2. authId' = authId /\ inFram' = inFram
    BY <1>5 DEF Tick
  <2> QED
    BY <1>1, <2>1, <2>2 DEF Settled, Current
<1>6. ASSUME NEW slot \in Slots, Authenticate(slot) PROVE Settled'
  <2>1. /\ Len(rides') = Len(rides) + 1
        /\ \A i \in 1 .. Len(rides) : rides'[i] = rides[i]
        /\ rides'[Len(rides) + 1].settled = "open"
    BY <1>6, AuthRides
  <2>2. inFram' = inFram
    BY <1>6 DEF Authenticate
  <2> QED
    BY <1>1, <2>1, <2>2 DEF Settled, Current
<1>7. CASE UNCHANGED <<volatile, rtc, fram, workRec, history>>
  BY <1>7 DEF history, volatile, Settled, Current
<1> QED
  BY <1>2, <1>3, <1>4, <1>5, <1>6, <1>7, ForwardNext

\* Byte k of the word at i is written, with the byte of t, behind others of t.
OneByte(b, c, i, k, t) == /\ c[i + k - 1] = BytesOf(t)[k]
                          /\ \A j \in 1 .. 4 : j # k => c[i + j - 1] = b[i + j - 1]

\* It is of t now, and the word is no smaller.
LEMMA SourcesStep ==
  ASSUME NEW a \in [1 .. 4 -> Words], NEW b, NEW c, NEW t \in Words, NEW i \in {1, 5},
         NEW k \in 1 .. 4, Sources(a, b, i), a[1] <= t,
         \A j \in 1 .. 4 : j < k => a[j] = t, OneByte(b, c, i, k, t)
  PROVE  \E n \in [1 .. 4 -> Words] :
           /\ Sources(n, c, i) /\ n[1] <= t /\ n[4] >= a[4]
           /\ \A j \in 1 .. 4 : j <= k => n[j] = t
<1> DEFINE n == [a EXCEPT ![k] = t]
<1>1. /\ n \in [1 .. 4 -> Words] /\ n[k] = t
      /\ \A j \in 1 .. 4 : j # k => n[j] = a[j]
  OBVIOUS
<1> HIDE DEF n
<1>2. /\ a[1] \in Nat /\ a[2] \in Nat /\ a[3] \in Nat /\ a[4] \in Nat /\ t \in Nat
      /\ a[2] <= a[1] /\ a[3] <= a[2] /\ a[4] <= a[3]
  BY DEF Sources, Words
<1>3. \A j \in 1 .. 4 : j <= k => n[j] = t
  BY <1>1
<1>4. n[1] >= n[2] /\ n[2] >= n[3] /\ n[3] >= n[4] /\ n[1] <= t /\ n[4] >= a[4]
  <2>1. CASE k = 1
    BY <1>1, <1>2, <2>1
  <2>2. CASE k = 2
    BY <1>1, <1>2, <1>3, <2>2
  <2>3. CASE k = 3
    BY <1>1, <1>2, <1>3, <2>3
  <2>4. CASE k = 4
    BY <1>1, <1>2, <1>3, <2>4
  <2> QED
    BY <2>1, <2>2, <2>3, <2>4
<1>5. ASSUME NEW j \in 1 .. 4 PROVE c[i + j - 1] = BytesOf(n[j])[j]
  BY <1>1 DEF Sources, OneByte
<1>6. Sources(n, c, i)
  BY <1>4, <1>5 DEF Sources
<1> QED
  BY <1>1, <1>3, <1>4, <1>6

\* A write puts bytes of the ride's start, then of the time it was begun, in front of
\* older ones.
LEMMA WriteFrom ==
  ASSUME IInv, ImageInv, ClockForward, StartsApart, FramFrom, WriteByte PROVE FramFrom'
<1>1. PICK a \in [1 .. 4 -> Words], e \in [1 .. 4 -> Words] :
        a \in [1 .. 4 -> Words] /\ e \in [1 .. 4 -> Words] /\ From(a, e)
  BY DEF FramFrom
<1>2. /\ phase = "store" /\ authId # 0 /\ authId' = authId /\ onTime' = onTime
      /\ clock' = clock /\ pos \in 0 .. 9
      /\ Current'.start = Current.start
      /\ fram' = [fram EXCEPT ![pos + 1] = buf[pos + 1]]
      /\ \/ pos = 9 /\ phase' = "idle"
         \/ pos # 9 /\ pos' = pos + 1 /\ rides' = rides /\ buf' = buf
  BY WriteEffect
<1>3. /\ fram \in [1 .. ImageLength -> Bytes] /\ Now \in Words /\ onTime \in Words
      /\ Now \in Times /\ onTime \in Times /\ authId \in Slots
      /\ Now <= rtc /\ rtc' = rtc /\ rtc \in Nat /\ Now \in Nat /\ onTime \in Nat
      /\ buf = store_data_to_bytes(onTime, Now, authId)
  <2>1. Now \in Times /\ Now <= clock /\ buf = store_data_to_bytes(onTime, Now, authId)
    BY <1>2 DEF ImageInv, Writing
  <2>2. clock = rtc /\ rtc' = rtc /\ rtc \in Times /\ onTime \in Times
    BY <1>2 DEF IInv, TypeOK, ClockForward, WriteByte
  <2>3. fram \in [1 .. ImageLength -> Bytes] /\ authId \in Slots
    BY <1>2, Rides DEF IInv, TypeOK
  <2> QED
    BY <2>1, <2>2, <2>3, TimesWords, Parameters DEF Times, Words
<1>4. \A i \in 1 .. 4 : buf[i] = BytesOf(onTime)[i] /\ buf[i + 4] = BytesOf(Now)[i]
  BY <1>3, ImageAt
<1>5. /\ Sources(a, fram, 1) /\ Sources(e, fram, 5) /\ a[1] <= onTime /\ e[1] <= Now
      /\ a[1] <= rtc
      /\ \A j \in 1 .. 4 : (j <= pos => a[j] = onTime) /\ (j + 4 <= pos => e[j] = Now)
  <2>1. Sources(a, fram, 1) /\ Sources(e, fram, 5) /\ a[1] <= rtc /\ e[1] <= Now /\ a[1] <= onTime
    BY <1>1, <1>2 DEF From
  <2>2. \A j \in 1 .. 4 : (j <= pos => a[j] = onTime) /\ (j + 4 <= pos => e[j] = Now)
    BY <1>1, <1>2 DEF From
  <2> QED
    BY <1>3, <2>1, <2>2
<1>6. fram' \in [1 .. ImageLength -> Bytes]
  <2>1. TypeOK'
    BY NextTypeOK DEF IInv, Next, Task8563
  <2> QED
    BY <2>1 DEF TypeOK
<1>7. /\ \A i \in 1 .. 10 : i # pos + 1 => fram'[i] = fram[i]
      /\ fram'[pos + 1] = buf[pos + 1]
  BY <1>2, <1>3 DEF ImageLength
<1>8. a[4] \in Nat /\ e[4] \in Nat
  BY DEF Words
<1>9. PICK n \in [1 .. 4 -> Words] :
        /\ Sources(n, fram', 1) /\ n[1] <= onTime /\ n[4] >= a[4]
        /\ \A j \in 1 .. 4 : j <= pos + 1 => n[j] = onTime
  <2>1. CASE pos <= 3
    <3>1. pos + 1 \in 1 .. 4
      BY <1>2, <2>1
    <3>2. \A j \in 1 .. 4 : j < pos + 1 => a[j] = onTime
      BY <1>2, <1>5
    <3>3. fram'[1 + (pos + 1) - 1] = BytesOf(onTime)[pos + 1]
      <4>1. 1 + (pos + 1) - 1 = pos + 1
        BY <1>2
      <4> QED
        BY <1>4, <1>7, <3>1, <4>1
    <3>4. \A j \in 1 .. 4 : j # pos + 1 => fram'[1 + j - 1] = fram[1 + j - 1]
      BY <1>2, <1>7
    <3>5. PICK k \in 1 .. 4 : k = pos + 1
      BY <3>1
    <3>6. (\A j \in 1 .. 4 : j < k => a[j] = onTime) /\ OneByte(fram, fram', 1, k, onTime)
      BY <3>2, <3>3, <3>4, <3>5 DEF OneByte
    <3>7. PICK n \in [1 .. 4 -> Words] :
            /\ Sources(n, fram', 1) /\ n[1] <= onTime /\ n[4] >= a[4]
            /\ \A j \in 1 .. 4 : j <= k => n[j] = onTime
      BY SourcesStep, <1>1, <1>3, <1>5, <3>6
    <3> QED
      BY <3>5, <3>7
  <2>2. CASE pos > 3
    <3>1. \A j \in 1 .. 4 : fram'[1 + j - 1] = fram[1 + j - 1]
      BY <1>2, <1>7, <2>2
    <3>2. Sources(a, fram', 1)
      BY <1>5, <3>1 DEF Sources
    <3>3. \A j \in 1 .. 4 : a[j] = onTime
      BY <1>2, <1>5, <2>2
    <3> QED
      BY <1>3, <1>5, <1>8, <3>2, <3>3
  <2>3. pos \in Int
    BY <1>2
  <2> QED
    BY <2>1, <2>2, <2>3
<1>10. PICK m \in [1 .. 4 -> Words] :
        /\ Sources(m, fram', 5) /\ m[1] <= Now /\ m[4] >= e[4]
        /\ \A j \in 1 .. 4 : j + 4 <= pos + 1 => m[j] = Now
  <2>1. CASE pos \in 4 .. 7
    <3>1. PICK k \in 1 .. 4 : k + 4 = pos + 1
      <4>1. pos - 3 \in 1 .. 4 /\ (pos - 3) + 4 = pos + 1
        BY <2>1
      <4> QED
        BY <4>1
    <3>2. \A j \in 1 .. 4 : j < k => e[j] = Now
      BY <1>2, <1>5, <3>1
    <3>3. fram'[5 + k - 1] = BytesOf(Now)[k]
      <4>1. 5 + k - 1 = pos + 1 /\ pos + 1 = k + 4
        BY <1>2, <3>1
      <4> QED
        BY <1>4, <1>7, <4>1
    <3>4. \A j \in 1 .. 4 : j # k => fram'[5 + j - 1] = fram[5 + j - 1]
      BY <1>2, <1>7, <3>1
    <3>5. OneByte(fram, fram', 5, k, Now)
      BY <3>3, <3>4 DEF OneByte
    <3>6. PICK m \in [1 .. 4 -> Words] :
            /\ Sources(m, fram', 5) /\ m[1] <= Now /\ m[4] >= e[4]
            /\ \A j \in 1 .. 4 : j <= k => m[j] = Now
      BY SourcesStep, <1>1, <1>3, <1>5, <3>2, <3>5
    <3>7. \A j \in 1 .. 4 : j + 4 <= pos + 1 => j <= k
      BY <1>2, <3>1
    <3> QED
      BY <3>6, <3>7
  <2>2. CASE pos \notin 4 .. 7
    <3>1. \A j \in 1 .. 4 : fram'[5 + j - 1] = fram[5 + j - 1]
      BY <1>2, <1>7, <2>2
    <3>2. Sources(e, fram', 5)
      BY <1>5, <3>1 DEF Sources
    <3>3. \A j \in 1 .. 4 : j + 4 <= pos + 1 => e[j] = Now
      BY <1>2, <1>5, <2>2
    <3> QED
      BY <1>3, <1>5, <1>8, <3>2, <3>3
  <2> QED
    BY <2>1, <2>2
<1>11. From(n, m)'
  <2>1. n[1] \in Nat /\ m[1] \in Nat /\ n[4] \in Nat /\ m[4] \in Nat
    BY DEF Words
  <2>2. /\ rides \in [1 .. Len(rides) -> Ride] /\ Len(rides) \in 1 .. Len(rides)
        /\ Current.start = onTime /\ onTime <= rtc
    BY <1>2, Rides DEF ImageInv, RideNow, StartsApart, Current
  <2>3. n[1] <= rtc' /\ m[1] <= rtc'
    BY <1>3, <1>9, <1>10, <2>1, <2>2
  <2>4. n[1] <= onTime'
    BY <1>2, <1>9
  <2>5. phase' = "store" =>
          /\ m[1] <= Now'
          /\ \A j \in 1 .. 4 : (j <= pos' => n[j] = onTime') /\ (j + 4 <= pos' => m[j] = Now')
    <3>1. phase' = "store" => Now' = Now /\ pos' = pos + 1
      BY <1>2 DEF Now, EndOf, Word
    <3> QED
      BY <1>2, <1>9, <1>10, <3>1
  <2>6. /\ Len(rides') = Len(rides)
        /\ \A i \in 1 .. Len(rides) :
              /\ rides'[i].start = rides[i].start
              /\ \/ rides'[i].last = rides[i].last /\ rides'[i].durable = rides[i].durable
                 \/ pos = 9 /\ i = Len(rides) /\ rides'[i].last = Now
    BY WriteRides
  <2>7. ASSUME NEW i \in 1 .. Len(rides), rides'[i].durable
        PROVE  n[4] >= rides'[i].start /\ m[4] >= rides'[i].last
    <3>1. rides[i].start \in Nat /\ rides[i].last \in Nat
      <4>1. rides[i] \in Ride
        BY <2>2
      <4> QED
        BY <4>1, Parameters DEF Ride, Times
    <3>2. CASE rides'[i].last = rides[i].last /\ rides'[i].durable = rides[i].durable
      <4>1. a[4] >= rides[i].start /\ e[4] >= rides[i].last
        BY <1>1, <2>7, <3>2 DEF From
      <4>2. rides'[i].start = rides[i].start /\ n[4] >= a[4] /\ m[4] >= e[4]
        BY <1>9, <1>10, <2>6
      <4> QED
        BY <1>8, <2>1, <3>1, <3>2, <4>1, <4>2
    <3>3. CASE pos = 9 /\ i = Len(rides) /\ rides'[i].last = Now
      <4>1. n[4] = onTime /\ m[4] = Now
        BY <1>9, <1>10, <3>3
      <4>2. rides'[i].start = onTime
        BY <2>2, <2>6, <3>3 DEF Current
      <4> QED
        BY <1>3, <3>3, <4>1, <4>2
    <3> QED
      BY <2>6, <3>2, <3>3
  <2>8. Sources(n, fram', 1) /\ Sources(m, fram', 5)
    BY <1>9, <1>10
  <2> QED
    BY <2>3, <2>4, <2>5, <2>6, <2>7, <2>8 DEF From, Sources
<1> QED
  BY <1>11 DEF FramFrom

\* Where the bytes come from stays known.
LEMMA NextFramFrom ==
  ASSUME IInv, ImageInv, ClockForward, Settled, StartsApart, FramFrom, ForwardClock, [Next]_vars
  PROVE  FramFrom'
<1>1. PICK a \in [1 .. 4 -> Words], e \in [1 .. 4 -> Words] :
        a \in [1 .. 4 -> Words] /\ e \in [1 .. 4 -> Words] /\ From(a, e)
  BY DEF FramFrom
<1>2. a[1] \in Nat /\ e[1] \in Nat /\ rtc \in Nat /\ Len(rides) \in Nat
  BY Rides, Parameters DEF Words, IInv, TypeOK, Times
<1>3. SUFFICES ASSUME ~WriteByte PROVE From(a, e)'
  BY <1>1, WriteFrom DEF FramFrom
<1>4. CASE Quiet
  <2>1. /\ rides' = rides /\ fram' = fram /\ rtc' = rtc
        /\ (authId' = authId /\ onTime' = onTime) \/ authId' = 0
        /\ phase' = "store" => pos' = 0 /\ Now' = clock /\ phase = "idle"
    BY <1>4, QuietEffect DEF ForwardClock
  <2>2. phase' = "store" =>
          /\ e[1] <= Now'
          /\ \A j \in 1 .. 4 : (j <= pos' => a[j] = onTime') /\ (j + 4 <= pos' => e[j] = Now')
    BY <1>1, <2>1 DEF From, ClockForward
  <2> QED
    BY <1>1, <2>1, <2>2 DEF From, Sources
<1>5. CASE Recover \/ RecoverSkipped
  <2>1. PICK outcome \in {"recorded", "unbound", "skipped"} : Settle(outcome)
    BY <1>5 DEF Recover, RecoverSkipped
  <2>2. Len(rides') = Len(rides) /\ \A i \in 1 .. Len(rides) : SameTimes(rides'[i], rides[i])
    BY <2>1, SettleRides
  <2>3. UNCHANGED <<fram, rtc, authId, onTime>> /\ phase' = "idle"
    BY <1>5 DEF Recover, RecoverSkipped
  <2> QED
    BY <1>1, <2>2, <2>3 DEF From, Sources, SameTimes
<1>6. CASE Tick
  <2>1. /\ Len(rides') = Len(rides)
        /\ \A i \in 1 .. Len(rides) :
              /\ rides'[i].start = rides[i].start /\ rides'[i].last = rides[i].last
              /\ rides'[i].durable = rides[i].durable
    BY <1>6, TickRides
  <2>2. UNCHANGED <<fram, authId, onTime, phase, buf, pos>> /\ rtc' = rtc + 1
    BY <1>6 DEF Tick
  <2>3. a[1] <= rtc' /\ e[1] <= rtc'
    BY <1>1, <1>2, <2>2 DEF From
  <2>4. Now' = Now
    BY <2>2 DEF Now, EndOf, Word
  <2> QED
    BY <1>1, <2>1, <2>2, <2>3, <2>4 DEF From, Sources
<1>7. ASSUME NEW slot \in Slots, Authenticate(slot) PROVE From(a, e)'
  <2>1. /\ Len(rides') = Len(rides) + 1
        /\ \A i \in 1 .. Len(rides) : rides'[i] = rides[i]
        /\ rides'[Len(rides) + 1].durable = FALSE
    BY <1>7, AuthRides
  <2>2. UNCHANGED <<fram, rtc, phase>> /\ onTime' = clock /\ phase \in {"idle", "halt"}
    BY <1>7 DEF Authenticate
  <2>3. a[1] <= onTime'
    BY <1>1, <2>2 DEF From, ClockForward
  <2>4. \A i \in 1 .. Len(rides') : rides'[i].durable => i \in 1 .. Len(rides)
    BY <1>2, <2>1
  <2> QED
    BY <1>1, <2>1, <2>2, <2>3, <2>4 DEF From, Sources
<1>8. CASE UNCHANGED <<volatile, rtc, fram, workRec, history>>
  BY <1>1, <1>8 DEF history, volatile, From, Sources, Now, EndOf, Word
<1> QED
  BY <1>3, <1>4, <1>5, <1>6, <1>7, <1>8, ForwardNext

\* What is read back from the FRAM cuts no ride short that was ever written.
LEMMA ReadNotEarlier ==
  ASSUME IInv, FramFrom
  PROVE  /\ StartOf(fram) \in Nat /\ EndOf(fram) \in Nat
         /\ \A i \in 1 .. Len(rides) :
              rides[i].durable => /\ StartOf(fram) >= rides[i].start
                                  /\ EndOf(fram) >= rides[i].last
<1>1. PICK a \in [1 .. 4 -> Words], e \in [1 .. 4 -> Words] :
        a[4] \in Nat /\ e[4] \in Nat /\ From(a, e)
  BY DEF FramFrom, Words
<1>2. fram \in [1 .. ImageLength -> Bytes]
  BY DEF IInv, TypeOK
<1>3. /\ StartOf(fram) \in Nat /\ StartOf(fram) >= a[4]
      /\ EndOf(fram) \in Nat /\ EndOf(fram) >= e[4]
  BY <1>1, <1>2, SourcesWord DEF From, StartOf, EndOf
<1>4. \A i \in 1 .. Len(rides) : rides[i].start \in Nat /\ rides[i].last \in Nat
  <2>1. \A i \in 1 .. Len(rides) : rides[i] \in Ride
    BY Rides
  <2> QED
    BY <2>1, Parameters DEF Ride, Times
<1>5. ASSUME NEW i \in 1 .. Len(rides), rides[i].durable
      PROVE  StartOf(fram) >= rides[i].start /\ EndOf(fram) >= rides[i].last
  <2>1. a[4] >= rides[i].start /\ e[4] >= rides[i].last
    BY <1>1, <1>5 DEF From
  <2> QED
    BY <1>1, <1>3, <1>4, <2>1
<1> QED
  BY <1>3, <1>5

\* A trim keeps a record or notes its key.
LEMMA TrimKeeps ==
  ASSUME IInv, PowerOn
  PROVE  /\ trimmed \subseteq trimmed'
         /\ \A k \in 1 .. Len(workRec) :
              \/ \E m \in 1 .. Len(workRec') : workRec'[m] = workRec[k]
              \/ workRec[k].key \in trimmed'
<1>1. workRec \in Seq(Record) /\ Len(workRec) \in Nat /\ RecCap \in Nat
  BY LenProperties, Parameters DEF IInv, TypeOK
<1>2. /\ trimmed' = trimmed \cup {workRec[i].key : i \in (RecCap + 1) .. Len(workRec)}
      /\ workRec' = Trim(workRec)
  BY DEF PowerOn
<1>3. CASE Len(workRec) > RecCap
  <2>1. workRec' = SubSeq(workRec, 1, RecCap)
    BY <1>2, <1>3 DEF Trim
  <2>2. Len(workRec') = RecCap /\ \A i \in 1 .. RecCap : workRec'[i] = workRec[i]
    BY <1>1, <1>3, <2>1, SubSeqProperties
  <2> QED
    BY <1>1, <1>2, <2>2
<1>4. CASE Len(workRec) <= RecCap
  BY <1>1, <1>2, <1>4 DEF Trim
<1> QED
  BY <1>1, <1>3, <1>4

\* A recovery files the ride in the FRAM, and keeps every record under another key.
LEMMA RecoverKeeps ==
  ASSUME IInv, Recover
  PROVE  \/ workRec' = workRec /\ Settle("unbound")
         \/ /\ Settle("recorded")
            /\ \E k \in 1 .. Len(workRec') : /\ workRec'[k].key = StartOf(fram)
                                            /\ workRec'[k].end = EndOf(fram)
            /\ \A k \in 1 .. Len(workRec) :
                 workRec[k].key # StartOf(fram) =>
                   \E m \in 1 .. Len(workRec') : workRec'[m] = workRec[k]
<1> DEFINE driver == DriverOf(SlotOf(fram))
           rec    == [key |-> StartOf(fram), driver |-> driver, end |-> EndOf(fram)]
<1>1. IF driver = None THEN workRec' = workRec /\ Settle("unbound")
                       ELSE workRec' = putBytes(workRec, rec) /\ Settle("recorded")
  BY Zenon DEF Recover
<1>2. workRec \in Seq(Record) /\ driver \in Drivers \cup {None}
  BY DEF IInv, TypeOK, DriverOf
<1>3. StartOf(fram) \in Nat /\ EndOf(fram) \in Nat
  BY WordType DEF StartOf, EndOf, IInv, TypeOK
<1>4. driver # None => rec \in Record
  BY <1>2, <1>3 DEF Record
<1>5. rec.key = StartOf(fram) /\ rec.end = EndOf(fram)
  OBVIOUS
<1> HIDE DEF rec, driver
<1>6. CASE driver # None
  <2>1. workRec' = putBytes(workRec, rec)
    BY <1>1, <1>6, Zenon
  <2>2. Settle("recorded")
    BY <1>1, <1>6, Zenon
  <2>3. workRec \in Seq(Record) /\ rec \in Record
    BY <1>2, <1>4, <1>6
  <2>4. Keeps(workRec, rec, putBytes(workRec, rec))
    BY <2>3, PutKeeps, Zenon
  <2>5. Keeps(workRec, rec, workRec')
    BY <2>1, <2>4, Zenon
  <2> QED
    BY <1>5, <2>2, <2>5 DEF Keeps
<1>7. CASE driver = None
  <2>1. workRec' = workRec
    BY <1>1, <1>7, Zenon
  <2>2. Settle("unbound")
    BY <1>1, <1>7, Zenon
  <2> QED
    BY <2>1, <2>2
<1> QED
  BY <1>6, <1>7

FiledInv ==
  ClockForward /\ RideTimes /\ StartsApart /\ Settled /\ FramFrom /\ FiledRideKept

\* A filed ride keeps its record.
LEMMA NextFiledRideKept ==
  ASSUME IInv, ImageInv, FiledInv, ForwardClock, [Next]_vars PROVE FiledRideKept'
<1> USE DEF FiledInv
<1>1. /\ rides \in [1 .. Len(rides) -> Ride] /\ Len(rides) \in Nat /\ inFram \in 0 .. Len(rides)
      /\ authId # 0 => Len(rides) \in 1 .. Len(rides)
  BY Rides
<1>2. CASE /\ Len(rides') = Len(rides) /\ workRec' = workRec /\ trimmed' = trimmed
           /\ \A i \in 1 .. Len(rides) :
                rides'[i].settled = "recorded" =>
                  /\ rides[i].settled = "recorded" /\ rides'[i].start = rides[i].start
                  /\ rides'[i].last = rides[i].last /\ rides'[i].ended = rides[i].ended
                  /\ rides'[i].late = rides[i].late
  BY <1>2 DEF FiledRideKept
<1>3. CASE PowerOn
  <2>1. rides' = rides
    BY <1>3 DEF PowerOn
  <2>2. /\ trimmed \subseteq trimmed'
        /\ \A k \in 1 .. Len(workRec) :
             \/ \E m \in 1 .. Len(workRec') : workRec'[m] = workRec[k]
             \/ workRec[k].key \in trimmed'
    BY <1>3, TrimKeeps
  <2> QED
    BY <2>1, <2>2, SMTT(20) DEF FiledRideKept
<1>4. CASE RtcStart \/ PowerOff \/ LoopIdle \/ LoopJournal
           \/ UNCHANGED <<volatile, rtc, fram, workRec, history>>
  BY <1>4 DEF RtcStart, PowerOff, LoopIdle, LoopJournal, flash, history, FiledRideKept
<1>5. CASE Recover
  <2>1. trimmed' = trimmed /\ phase = "recover"
    BY <1>5 DEF Recover
  <2>2. \/ workRec' = workRec /\ Settle("unbound")
        \/ /\ Settle("recorded")
           /\ \E k \in 1 .. Len(workRec') : /\ workRec'[k].key = StartOf(fram)
                                           /\ workRec'[k].end = EndOf(fram)
           /\ \A k \in 1 .. Len(workRec) :
                workRec[k].key # StartOf(fram) =>
                  \E m \in 1 .. Len(workRec') : workRec'[m] = workRec[k]
    BY <1>5, RecoverKeeps
  <2>3. CASE workRec' = workRec /\ Settle("unbound")
    <3>1. /\ Len(rides') = Len(rides)
          /\ \A i \in 1 .. Len(rides) :
               /\ SameTimes(rides'[i], rides[i])
               /\ rides'[i].settled = rides[i].settled \/ rides'[i].settled = "unbound"
      BY <2>3, SettleRides
    <3> QED
      BY <1>2, <2>1, <2>3, <3>1 DEF SameTimes
  <2>4. CASE /\ Settle("recorded")
             /\ \E k \in 1 .. Len(workRec') : /\ workRec'[k].key = StartOf(fram)
                                             /\ workRec'[k].end = EndOf(fram)
             /\ \A k \in 1 .. Len(workRec) :
                  workRec[k].key # StartOf(fram) =>
                    \E m \in 1 .. Len(workRec') : workRec'[m] = workRec[k]
    <3>1. /\ Len(rides') = Len(rides)
          /\ \A i \in 1 .. Len(rides) :
               /\ SameTimes(rides'[i], rides[i])
               /\ rides'[i].settled = rides[i].settled \/ i = inFram
      BY <2>4, SettleRides
    <3>2. ASSUME NEW i \in 1 .. Len(rides), rides'[i].settled = "recorded"
          PROVE  \/ rides[i].start \in trimmed
                 \/ \E k \in 1 .. Len(workRec') : /\ workRec'[k].key = rides[i].start
                                                 /\ workRec'[k].end >= rides[i].last
                                                 /\ workRec'[k].end + Period + rides[i].late
                                                      >= rides[i].ended
      <4>1. rides[i].durable
        BY <1>1, <3>1, <3>2 DEF Settled
      <4>2. EndOf(fram) \in Nat /\ EndOf(fram) >= rides[i].last
        BY <4>1, ReadNotEarlier
      <4>3. EndOf(fram) + Period + rides[i].late >= rides[i].ended
        <5>1. rides[i] \in Ride
          BY <1>1
        <5>2. rides[i].last \in Nat /\ rides[i].ended \in Nat /\ Period \in Nat
              /\ rides[i].late \in Nat
          BY <5>1, Parameters DEF Ride, Times
        <5>3. rides[i].ended <= rides[i].last + Period + rides[i].late
          BY DEF RideTimes
        <5> QED
          BY <4>2, <5>2, <5>3
      <4>4. CASE rides[i].start = StartOf(fram)
        BY <2>4, <4>2, <4>3, <4>4
      <4>5. CASE rides[i].start # StartOf(fram)
        <5>1. i # inFram
          BY <4>5 DEF ImageInv, JournalHoldsRide
        <5>2. rides[i].settled = "recorded"
          BY <3>1, <3>2, <5>1
        <5>3. \/ rides[i].start \in trimmed
              \/ \E k \in 1 .. Len(workRec) : /\ workRec[k].key = rides[i].start
                                             /\ workRec[k].end >= rides[i].last
                                             /\ workRec[k].end + Period + rides[i].late
                                                  >= rides[i].ended
          BY <5>2 DEF FiledRideKept
        <5> QED
          BY <2>4, <4>5, <5>3
      <4> QED
        BY <4>4, <4>5
    <3> QED
      BY <2>1, <3>1, <3>2 DEF FiledRideKept, SameTimes
  <2> QED
    BY <2>2, <2>3, <2>4
<1>6. CASE RecoverSkipped
  <2>1. /\ Len(rides') = Len(rides)
        /\ \A i \in 1 .. Len(rides) :
             /\ SameTimes(rides'[i], rides[i])
             /\ rides'[i].settled = rides[i].settled \/ rides'[i].settled = "skipped"
    BY <1>6, SettleRides DEF RecoverSkipped
  <2>2. workRec' = workRec /\ trimmed' = trimmed
    BY <1>6 DEF RecoverSkipped, flash
  <2> QED
    BY <1>2, <2>1, <2>2 DEF SameTimes
<1>7. CASE WriteByte
  <2>1. /\ Len(rides') = Len(rides)
        /\ \A i \in 1 .. Len(rides) :
              /\ rides'[i].start = rides[i].start /\ rides'[i].ended = rides[i].ended
              /\ rides'[i].settled = rides[i].settled /\ rides'[i].late = rides[i].late
              /\ rides'[i].last = rides[i].last \/ i = Len(rides)
    BY <1>7, WriteRides
  <2>2. authId # 0 /\ workRec' = workRec /\ trimmed' = trimmed
    BY <1>7, WriteEffect DEF WriteByte, flash
  <2>3. rides[Len(rides)].settled = "open"
    BY <2>2 DEF Settled, Current
  <2> QED
    BY <1>2, <2>1, <2>2, <2>3
<1>8. CASE Tick
  <2>1. /\ Len(rides') = Len(rides)
        /\ \A i \in 1 .. Len(rides) :
              /\ rides'[i].start = rides[i].start /\ rides'[i].last = rides[i].last
              /\ rides'[i].settled = rides[i].settled
              /\ \/ rides'[i].ended = rides[i].ended /\ rides'[i].late = rides[i].late
                 \/ authId # 0 /\ i = Len(rides)
    BY <1>8, TickRides
  <2>2. workRec' = workRec /\ trimmed' = trimmed
    BY <1>8 DEF Tick, flash
  <2>3. authId # 0 => rides[Len(rides)].settled = "open"
    BY DEF Settled, Current
  <2> QED
    BY <1>2, <2>1, <2>2, <2>3
<1>9. ASSUME NEW slot \in Slots, Authenticate(slot) PROVE FiledRideKept'
  <2>1. /\ Len(rides') = Len(rides) + 1
        /\ \A i \in 1 .. Len(rides) : rides'[i] = rides[i]
        /\ rides'[Len(rides) + 1].settled = "open"
    BY <1>9, AuthRides
  <2>2. workRec' = workRec /\ trimmed' = trimmed
    BY <1>9 DEF Authenticate, flash
  <2>3. \A i \in 1 .. Len(rides') : rides'[i].settled = "recorded" => i \in 1 .. Len(rides)
    BY <1>1, <2>1
  <2> QED
    BY <2>1, <2>2, <2>3 DEF FiledRideKept
<1> QED
  BY <1>3, <1>4, <1>5, <1>6, <1>7, <1>8, <1>9, ForwardNext DEF Quiet

\* Every step preserves the invariant.
LEMMA NextFiledInv ==
  ASSUME IInv, ImageInv, FiledInv, ForwardClock, [Next]_vars PROVE FiledInv'
BY NextClockForward, NextRideTimes, NextStartsApart, NextSettled, NextFramFrom, NextFiledRideKept
   DEF FiledInv

\* It holds at the start: every byte of the empty FRAM is one of time 0.
LEMMA InitFiledInv == Init => FiledInv
<1> SUFFICES ASSUME Init PROVE FiledInv
  OBVIOUS
<1>1. rides = <<>> /\ phase = "off" /\ inFram = 0 /\ authId = 0 /\ fram = NoImage /\ rtc = BuildTime
      /\ rtc \in Nat /\ Len(rides) = 0
  BY Parameters DEF Init, Times
<1>2. ClockForward /\ RideTimes /\ StartsApart /\ Settled /\ FiledRideKept
  BY <1>1 DEF ClockForward, RideTimes, StartsApart, Settled, FiledRideKept
<1>3. 0 \in Words /\ (0 \div Base) % Base \in Nat /\ 0 % Base \in Nat
  BY Remainder, TimesWords, Parameters DEF Times, Bytes
<1>4. BytesOf(0) \in Seq(Nat) /\ Len(BytesOf(0)) = 4
  BY WordBytes, Parameters DEF Bytes
<1> DEFINE x == BytesOf(0)
           z == <<(0 \div Base) % Base, 0 % Base>>
<1>5. z \in Seq(Nat) /\ Len(z) = 2
  BY <1>3
<1>6. fram = x \o x \o z
  BY <1>1 DEF NoImage, store_data_to_bytes
<1> HIDE DEF x, z
<1>7. \A i \in 1 .. 4 : fram[i] = x[i] /\ fram[i + 4] = x[i]
  <2>1. x \in Seq(Nat) /\ Len(x) = 4
    BY <1>4 DEF x
  <2> QED
    BY <1>5, <1>6, <2>1, ConcatThree, Zenon
<1> DEFINE a == [j \in 1 .. 4 |-> 0]
<1>8. a \in [1 .. 4 -> Words] /\ \A j \in 1 .. 4 : a[j] = 0
  BY <1>3
<1> HIDE DEF a
<1>9. Sources(a, fram, 1) /\ Sources(a, fram, 5)
  <2>1. \A j \in 1 .. 4 : 1 + j - 1 = j /\ 5 + j - 1 = j + 4
    OBVIOUS
  <2> QED
    BY <1>7, <1>8, <2>1 DEF Sources, x
<1>10. From(a, a)
  BY <1>1, <1>8, <1>9 DEF From
<1> QED
  BY <1>2, <1>8, <1>10 DEF FiledInv, FramFrom

\* The invariant is inductive.
LEMMA FiledInductive == ASSUME ForwardClock PROVE Spec => [](IInv /\ ImageInv /\ FiledInv)
<1>1. IInv /\ ImageInv /\ FiledInv /\ [Next]_vars => FiledInv'
  BY NextFiledInv
<1> QED
  BY <1>1, InitFiledInv, ImageInductive, PTL DEF Spec

(***************************************************************************)
(* When the clock is not set back, a ride that was filed keeps a record     *)
(* under its start time until print_all trims it, whatever torn images and  *)
(* later rides are filed after it; and the record ends at most one Period,  *)
(* and the seconds task_8563 was kept waiting, before the power was cut.    *)
(***************************************************************************)
THEOREM FiledKept == ASSUME ForwardClock PROVE Spec => []FiledRideKept
<1>1. FiledInv => FiledRideKept
  BY DEF FiledInv
<1> QED
  BY <1>1, FiledInductive, PTL

\* A record of a ride that another has followed into the FRAM is left as it is.
LEMMA OlderStep ==
  ASSUME IInv, ImageInv, FiledInv, ForwardClock, [Next]_vars,
         NEW i \in 1 .. Len(rides), NEW k \in 1 .. Len(workRec), NEW j \in 1 .. Len(rides),
         workRec[k].key = rides[i].start, j > i, rides[j].durable
  PROVE  workRec[k] \in ToSet(workRec') \/ workRec[k].key \in trimmed'
<1> SUFFICES \/ \E m \in 1 .. Len(workRec') : workRec'[m] = workRec[k]
             \/ workRec[k].key \in trimmed'
  BY DEF ToSet
<1>1. CASE workRec' = workRec
  BY <1>1
<1>2. CASE PowerOn
  BY <1>2, TrimKeeps
<1>3. CASE Recover
  <2>1. workRec[k].key # StartOf(fram)
    <3>1. StartOf(fram) \in Nat /\ StartOf(fram) >= rides[j].start
      BY ReadNotEarlier DEF FiledInv
    <3>2. rides[i] \in Ride /\ rides[j] \in Ride
      BY Rides
    <3>3. rides[i].start \in Nat /\ rides[j].start \in Nat
      BY <3>2, Parameters DEF Ride, Times
    <3>4. rides[i].start < rides[j].start
      BY DEF FiledInv, StartsApart
    <3> QED
      BY <3>1, <3>3, <3>4
  <2>2. \/ workRec' = workRec
        \/ \A q \in 1 .. Len(workRec) :
             workRec[q].key # StartOf(fram) =>
               \E m \in 1 .. Len(workRec') : workRec'[m] = workRec[q]
    BY <1>3, RecoverKeeps
  <2> QED
    BY <1>1, <2>1, <2>2
<1>4. workRec' = workRec \/ PowerOn \/ Recover
  <2>1. CASE RtcStart \/ PowerOff \/ LoopIdle \/ LoopJournal \/ RecoverSkipped \/ WriteByte \/ Tick
    BY <2>1 DEF RtcStart, PowerOff, LoopIdle, LoopJournal, RecoverSkipped, WriteByte, Tick, flash
  <2>2. CASE \E slot \in Slots : Authenticate(slot)
    BY <2>2 DEF Authenticate, flash
  <2> QED
    BY <2>1, <2>2, ForwardNext DEF Quiet
<1> QED
  BY <1>1, <1>2, <1>3, <1>4

(***************************************************************************)
(* When the clock is not set back, the record of a ride is final once a     *)
(* later ride was written: even an image that mixes the bytes of several    *)
(* rides names a start no earlier than the latest of them, so filing it     *)
(* never replaces an older record.                                         *)
(***************************************************************************)
THEOREM OlderFinal == ASSUME ForwardClock PROVE Spec => OlderRecordsFinal
<1>1. ASSUME IInv, ImageInv, FiledInv, [Next]_vars
      PROVE  \A i \in 1 .. Len(rides), k \in 1 .. Len(workRec) :
               /\ rides[i].settled = "recorded" /\ workRec[k].key = rides[i].start
               /\ \E j \in 1 .. Len(rides) : j > i /\ rides[j].durable
               => workRec[k] \in ToSet(workRec') \/ workRec[k].key \in trimmed'
  BY <1>1, OlderStep
<1> QED
  BY <1>1, FiledInductive, PTL DEF Spec, OlderRecordsFinal

===============================================================================
