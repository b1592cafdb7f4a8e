--------------------------- MODULE SensorLinkProofs ---------------------------
(***************************************************************************)
(* Proofs about SensorLink, for any number of commands, any length of the  *)
(* answers and any faults of which at most one adds a byte: that the       *)
(* variables keep their types (the parser writes within packet->data);     *)
(* that a damaged answer costs one command as long as none is late; and    *)
(* that a code is not taken for the answer to a command that is later by   *)
(* more than the number of late answers.                                   *)
(*                                                                         *)
(* First what an answer looks like byte by byte and what a step of the     *)
(* parser does, whichever case of the switch it is.  The invariant of the  *)
(* second result says what the UART holds in front of the answer that the  *)
(* exchange waits for, and that where something can go wrong, a damaged    *)
(* answer has not been paid for.  That of the third gives each byte of the *)
(* UART the number of the command it answers, and says which start bytes   *)
(* can lead the parser into an answer that is too old: none.               *)
(***************************************************************************)
EXTENDS SensorLink, SequenceTheorems, TLAPS

-------------------------------------------------------------------------------
(* The bytes of an answer. *)

\* What the assumptions say of the lengths.
LEMMA Lengths ==
  /\ Length \in Nat /\ 1 <= Length /\ Length <= 110
  /\ Data \in Nat /\ Length + 20 <= Data
  /\ MaxCommands \in Nat /\ MaxCommands <= 100
  /\ MaxAdded \in Nat /\ MaxFaults \in Nat
BY LinkAssumption

\* What is behind the bytes of s in s \o t comes from t.
LEMMA Joined ==
  ASSUME NEW s \in Seq(Byte), NEW t \in Seq(Byte)
  PROVE  /\ s \o t \in Seq(Byte) /\ Len(s) \in Nat /\ Len(t) \in Nat
         /\ Len(s \o t) = Len(s) + Len(t)
         /\ \A i \in 1 .. Len(s) : (s \o t)[i] = s[i]
         /\ \A i \in 1 .. Len(t) : (s \o t)[Len(s) + i] = t[i]
<1>1. /\ s \o t \in Seq(Byte) /\ Len(s \o t) = Len(s) + Len(t)
      /\ \A i \in 1 .. Len(s) + Len(t) :
           (s \o t)[i] = IF i <= Len(s) THEN s[i] ELSE t[i - Len(s)]
  BY ConcatProperties
<1>2. Len(s) \in Nat /\ Len(t) \in Nat
  BY LenProperties
<1> DEFINE u == s \o t
           m == Len(s)
           k == Len(t)
<1>3. m \in Nat /\ k \in Nat /\ \A i \in 1 .. m + k : u[i] = IF i <= m THEN s[i] ELSE t[i - m]
  BY <1>1, <1>2
<1> HIDE DEF u, m, k
<1>4. \A i \in 1 .. m : u[i] = s[i]
  BY <1>3
<1>5. ASSUME NEW i \in 1 .. k PROVE u[m + i] = t[i]
  <2>1. m + i \in 1 .. m + k /\ ~(m + i <= m) /\ (m + i) - m = i
    BY <1>3
  <2> QED
    BY <1>3, <2>1
<1> QED
  BY <1>1, <1>2, <1>4, <1>5 DEF u, m, k

\* An answer, byte by byte.
LEMMA AnswerBytes ==
  ASSUME NEW n \in 1 .. 100
  PROVE  /\ Answer(n) \in Seq(Byte) /\ Len(Answer(n)) = Length + 11
         /\ Answer(n)[1] = StartHigh /\ Answer(n)[2] = StartLow
         /\ \A i \in 3 .. 6 : Answer(n)[i] = Address
         /\ Answer(n)[7] = Ack /\ Answer(n)[8] = 0 /\ Answer(n)[9] = Length + 2
         /\ Answer(n)[10] = Code(n)
         /\ \A i \in 11 .. Length + 10 : Answer(n)[i] = 0
         /\ Answer(n)[Length + 11] = Code(n)
<1> DEFINE head == <<StartHigh, StartLow, Address, Address, Address, Address, Ack, 0, Length + 2,
                     Code(n)>>
           zero(i) == 0
           zeros == [i \in 1..(Length - 1) |-> zero(i)]
           end == <<0, Code(n)>>
<1>1. Length \in Nat /\ Length >= 1 /\ Length - 1 \in Nat
  BY Lengths
<1>2. /\ head \in Seq(Byte) /\ Len(head) = 10
      /\ head[1] = StartHigh /\ head[2] = StartLow /\ head[3] = Address /\ head[4] = Address
      /\ head[5] = Address /\ head[6] = Address /\ head[7] = Ack /\ head[8] = 0
      /\ head[9] = Length + 2 /\ head[10] = Code(n)
  BY Lengths DEF StartHigh, StartLow, Address, Ack, Code, Byte
<1>3. zeros \in Seq(Byte) /\ Len(zeros) = Length - 1 /\ \A i \in 1 .. Length - 1 : zeros[i] = 0
  <2>1. \A i \in 1 .. Length - 1 : zero(i) \in Byte
    BY DEF Byte
  <2>2. zeros \in Seq(Byte)
    BY <1>1, <2>1, IsASeq
  <2>3. Len(zeros) = Length - 1
    BY <1>1
  <2> QED
    BY <2>2, <2>3
<1>4. end \in Seq(Byte) /\ Len(end) = 2 /\ end[1] = 0 /\ end[2] = Code(n)
  BY DEF Code, Byte
<1>5. Answer(n) = (head \o zeros) \o end
  BY DEF Answer
<1> DEFINE front == head \o zeros
<1> HIDE DEF head, zeros, end
<1>6. /\ front \in Seq(Byte) /\ Len(front) = Length + 9
      /\ \A i \in 1 .. 10 : front[i] = head[i]
      /\ \A i \in 1 .. Length - 1 : front[10 + i] = zeros[i]
  <2>1. /\ front \in Seq(Byte) /\ Len(front) = Len(head) + Len(zeros)
        /\ \A i \in 1 .. Len(head) : front[i] = head[i]
        /\ \A i \in 1 .. Len(zeros) : front[Len(head) + i] = zeros[i]
    BY <1>2, <1>3, Joined
  <2> HIDE DEF front
  <2> QED
    BY <1>1, <1>2, <1>3, <2>1
<1> HIDE DEF front
<1>7. /\ Answer(n) \in Seq(Byte) /\ Len(Answer(n)) = Length + 11
      /\ \A i \in 1 .. Length + 9 : Answer(n)[i] = front[i]
      /\ Answer(n)[Length + 10] = end[1] /\ Answer(n)[Length + 11] = end[2]
  <2>1. Answer(n) = front \o end
    BY <1>5 DEF front
  <2>2. /\ front \o end \in Seq(Byte) /\ Len(front \o end) = Len(front) + Len(end)
        /\ \A i \in 1 .. Len(front) : (front \o end)[i] = front[i]
        /\ \A i \in 1 .. Len(end) : (front \o end)[Len(front) + i] = end[i]
    BY <1>4, <1>6, Joined
  <2>3. /\ Answer(n) \in Seq(Byte) /\ Len(Answer(n)) = Len(front) + Len(end)
        /\ \A i \in 1 .. Len(front) : Answer(n)[i] = front[i]
        /\ \A i \in 1 .. Len(end) : Answer(n)[Len(front) + i] = end[i]
    BY ONLY <2>1, <2>2
  <2>4. /\ Len(front) = Length + 9 /\ Len(end) = 2 /\ 1 \in 1 .. 2 /\ 2 \in 1 .. 2
        /\ (Length + 9) + 1 = Length + 10 /\ (Length + 9) + 2 = Length + 11
    BY <1>1, <1>4, <1>6
  <2>5. Answer(n)[Length + 10] = end[1] /\ Answer(n)[Length + 11] = end[2]
    BY <2>3, <2>4
  <2> QED
    BY <1>1, <2>3, <2>4, <2>5
<1>8. \A i \in 1 .. 10 : Answer(n)[i] = head[i]
  <2>1. \A i \in 1 .. 10 : i \in 1 .. Length + 9
    BY <1>1
  <2> QED
    BY <1>6, <1>7, <2>1
<1>9. ASSUME NEW i \in 11 .. Length + 9 PROVE Answer(n)[i] = 0
  <2>1. i \in 1 .. Length + 9 /\ i - 10 \in 1 .. Length - 1 /\ 10 + (i - 10) = i
    BY <1>1
  <2>2. front[10 + (i - 10)] = zeros[i - 10]
    BY <1>6, <2>1
  <2> QED
    BY <1>3, <1>7, <2>1, <2>2
<1>10. Answer(n)[Length + 10] = 0 /\ Answer(n)[Length + 11] = Code(n)
  BY <1>4, <1>7
<1>11. /\ Answer(n)[1] = StartHigh /\ Answer(n)[2] = StartLow
       /\ Answer(n)[3] = Address /\ Answer(n)[4] = Address
       /\ Answer(n)[5] = Address /\ Answer(n)[6] = Address
       /\ Answer(n)[7] = Ack /\ Answer(n)[8] = 0 /\ Answer(n)[9] = Length + 2
       /\ Answer(n)[10] = Code(n)
  BY <1>2, <1>8
<1>12. \A i \in 3 .. 6 : Answer(n)[i] = Address
  <2>1. \A i \in 3 .. 6 : i = 3 \/ i = 4 \/ i = 5 \/ i = 6
    OBVIOUS
  <2> QED
    BY <1>11, <2>1
<1>13. \A i \in 11 .. Length + 10 : Answer(n)[i] = 0
  <2>1. \A i \in 11 .. Length + 10 : i \in 11 .. Length + 9 \/ i = Length + 10
    BY <1>1
  <2> QED
    BY <1>9, <1>10, <2>1
<1> QED
  BY <1>7, <1>10, <1>11, <1>12, <1>13

\* Only its first byte starts a packet.
LEMMA AnswerStart ==
  ASSUME NEW n \in 1 .. 100, NEW i \in 2 .. Length + 11
  PROVE  Answer(n)[i] # StartHigh
<1>1. i = 2 \/ i \in 3 .. 6 \/ i = 7 \/ i = 8 \/ i = 9 \/ i = 10 \/ i \in 11 .. Length + 10
        \/ i = Length + 11
  BY Lengths
<1>2. /\ StartHigh = 239 /\ StartLow = 1 /\ Address = 255 /\ Ack = 7 /\ Code(n) # 239
      /\ Length + 2 # 239
  BY Lengths DEF StartHigh, StartLow, Address, Ack, Code
<1>3. /\ Answer(n)[2] = StartLow
      /\ \A j \in 3 .. 6 : Answer(n)[j] = Address
      /\ Answer(n)[7] = Ack /\ Answer(n)[8] = 0 /\ Answer(n)[9] = Length + 2
      /\ Answer(n)[10] = Code(n)
      /\ \A j \in 11 .. Length + 10 : Answer(n)[j] = 0
      /\ Answer(n)[Length + 11] = Code(n)
  BY AnswerBytes
<1> DEFINE a == Answer(n)
           c == Code(n)
<1> HIDE DEF a, c
<1> QED
  BY ONLY <1>1, <1>2, <1>3 DEF a, c

\* A sequence without one of its elements.
LEMMA RemoveAtElements ==
  ASSUME NEW a \in Seq(Byte), NEW i \in 1 .. Len(a)
  PROVE  /\ RemoveAt(a, i) \in Seq(Byte) /\ Len(RemoveAt(a, i)) = Len(a) - 1
         /\ \A j \in 1 .. Len(a) - 1 : RemoveAt(a, i)[j] = IF j < i THEN a[j] ELSE a[j + 1]
<1> DEFINE l == SubSeq(a, 1, i - 1)
           r == SubSeq(a, i + 1, Len(a))
<1>1. Len(a) \in Nat /\ \A j \in 1 .. Len(a) : a[j] \in Byte
  BY LenProperties, ElementOfSeq
<1>2. l \in Seq(Byte) /\ Len(l) = i - 1 /\ \A j \in 1 .. i - 1 : l[j] = a[j]
  <2>1. \A j \in 1 .. i - 1 : a[j] \in Byte
    BY <1>1
  <2>2. 1 \in Int /\ i - 1 \in Int
    BY <1>1
  <2>3. /\ l \in Seq(Byte) /\ Len(l) = IF 1 <= i - 1 THEN (i - 1) - 1 + 1 ELSE 0
        /\ \A j \in 1 .. (i - 1) - 1 + 1 : l[j] = a[1 + j - 1]
    BY <2>1, <2>2, SubSeqProperties
  <2> HIDE DEF l
  <2> QED
    BY <1>1, <2>3
<1>3. r \in Seq(Byte) /\ Len(r) = Len(a) - i /\ \A j \in 1 .. Len(a) - i : r[j] = a[i + j]
  <2>1. \A j \in i + 1 .. Len(a) : a[j] \in Byte
    BY <1>1
  <2>2. i + 1 \in Int /\ Len(a) \in Int
    BY <1>1
  <2>3. /\ r \in Seq(Byte) /\ Len(r) = IF i + 1 <= Len(a) THEN Len(a) - (i + 1) + 1 ELSE 0
        /\ \A j \in 1 .. Len(a) - (i + 1) + 1 : r[j] = a[(i + 1) + j - 1]
    BY <2>1, <2>2, SubSeqProperties
  <2> HIDE DEF r
  <2> QED
    BY <1>1, <2>3
<1>4. RemoveAt(a, i) = l \o r
  BY DEF RemoveAt
<1> HIDE DEF l, r
<1> DEFINE u == l \o r
<1>5. /\ u \in Seq(Byte) /\ Len(u) = Len(a) - 1
      /\ \A j \in 1 .. i - 1 : u[j] = l[j]
      /\ \A j \in 1 .. Len(a) - i : u[(i - 1) + j] = r[j]
  <2>1. /\ u \in Seq(Byte) /\ Len(u) = Len(l) + Len(r)
        /\ \A j \in 1 .. Len(l) : u[j] = l[j]
        /\ \A j \in 1 .. Len(r) : u[Len(l) + j] = r[j]
    BY <1>2, <1>3, Joined
  <2> HIDE DEF u
  <2> QED
    BY <1>1, <1>2, <1>3, <2>1
<1> HIDE DEF u
<1>6. ASSUME NEW j \in 1 .. Len(a) - 1
      PROVE  u[j] = IF j < i THEN a[j] ELSE a[j + 1]
  <2>1. CASE j < i
    BY <1>1, <1>2, <1>5, <2>1
  <2>2. CASE ~(j < i)
    <3>1. /\ j - (i - 1) \in 1 .. Len(a) - i /\ i + (j - (i - 1)) = j + 1
          /\ (i - 1) + (j - (i - 1)) = j
      BY <1>1, <2>2
    <3>2. u[(i - 1) + (j - (i - 1))] = r[j - (i - 1)]
      BY <1>5, <3>1
    <3> QED
      BY <1>3, <2>2, <3>1, <3>2
  <2> QED
    BY <2>1, <2>2
<1> QED
  BY <1>4, <1>5, <1>6 DEF u

\* A sequence with one more element.
LEMMA InsertAtElements ==
  ASSUME NEW a \in Seq(Byte), NEW i \in 1 .. Len(a) + 1, NEW b \in Byte
  PROVE  /\ InsertAt(a, i, b) \in Seq(Byte) /\ Len(InsertAt(a, i, b)) = Len(a) + 1
         /\ \A j \in 1 .. i - 1 : InsertAt(a, i, b)[j] = a[j]
         /\ InsertAt(a, i, b)[i] = b
         /\ \A j \in i + 1 .. Len(a) + 1 : InsertAt(a, i, b)[j] = a[j - 1]
<1> DEFINE l == SubSeq(a, 1, i - 1)
           m == <<b>>
           r == SubSeq(a, i, Len(a))
<1>1. Len(a) \in Nat /\ \A j \in 1 .. Len(a) : a[j] \in Byte
  BY LenProperties, ElementOfSeq
<1>2. l \in Seq(Byte) /\ Len(l) = i - 1 /\ \A j \in 1 .. i - 1 : l[j] = a[j]
  <2>1. \A j \in 1 .. i - 1 : a[j] \in Byte
    BY <1>1
  <2>2. 1 \in Int /\ i - 1 \in Int
    BY <1>1
  <2>3. /\ l \in Seq(Byte) /\ Len(l) = IF 1 <= i - 1 THEN (i - 1) - 1 + 1 ELSE 0
        /\ \A j \in 1 .. (i - 1) - 1 + 1 : l[j] = a[1 + j - 1]
    BY <2>1, <2>2, SubSeqProperties
  <2> HIDE DEF l
  <2> QED
    BY <1>1, <2>3
<1>3. r \in Seq(Byte) /\ Len(r) = Len(a) - i + 1 /\ \A j \in 1 .. Len(a) - i + 1 : r[j] = a[i + j - 1]
  <2>1. \A j \in i .. Len(a) : a[j] \in Byte
    BY <1>1
  <2>2. i \in Int /\ Len(a) \in Int
    BY <1>1
  <2>3. /\ r \in Seq(Byte) /\ Len(r) = IF i <= Len(a) THEN Len(a) - i + 1 ELSE 0
        /\ \A j \in 1 .. Len(a) - i + 1 : r[j] = a[i + j - 1]
    BY <2>1, <2>2, SubSeqProperties
  <2> HIDE DEF r
  <2> QED
    BY <1>1, <2>3
<1>4. m \in Seq(Byte) /\ Len(m) = 1 /\ m[1] = b
  OBVIOUS
<1>5. InsertAt(a, i, b) = (l \o m) \o r
  BY DEF InsertAt
<1> HIDE DEF l, m, r
<1> DEFINE lm == l \o m
<1>6. lm \in Seq(Byte) /\ Len(lm) = i /\ (\A j \in 1 .. i - 1 : lm[j] = a[j]) /\ lm[i] = b
  <2>1. (i - 1) + 1 = i /\ 1 \in 1 .. 1
    BY <1>1
  <2>2. /\ lm \in Seq(Byte) /\ Len(lm) = Len(l) + Len(m)
        /\ \A j \in 1 .. Len(l) : lm[j] = l[j]
        /\ \A j \in 1 .. Len(m) : lm[Len(l) + j] = m[j]
    BY <1>2, <1>4, Joined
  <2> HIDE DEF lm
  <2>3. lm[i] = m[1]
    BY <1>2, <1>4, <2>1, <2>2
  <2> QED
    BY <1>1, <1>2, <1>4, <2>1, <2>2, <2>3
<1> HIDE DEF lm
<1>7. InsertAt(a, i, b) = lm \o r
  BY <1>5 DEF lm
<1> DEFINE u == lm \o r
<1>8. /\ u \in Seq(Byte) /\ Len(u) = i + (Len(a) - i + 1)
      /\ \A j \in 1 .. i : u[j] = lm[j]
      /\ \A j \in 1 .. Len(a) - i + 1 : u[i + j] = r[j]
  <2>1. /\ u \in Seq(Byte) /\ Len(u) = Len(lm) + Len(r)
        /\ \A j \in 1 .. Len(lm) : u[j] = lm[j]
        /\ \A j \in 1 .. Len(r) : u[Len(lm) + j] = r[j]
    BY <1>3, <1>6, Joined
  <2> HIDE DEF u
  <2> QED
    BY <1>3, <1>6, <2>1
<1> HIDE DEF u
<1>9. (\A j \in 1 .. i - 1 : u[j] = a[j]) /\ u[i] = b /\ Len(u) = Len(a) + 1
  BY <1>1, <1>6, <1>8
<1>10. ASSUME NEW j \in i + 1 .. Len(a) + 1 PROVE u[j] = a[j - 1]
  <2>1. j - i \in 1 .. Len(a) - i + 1 /\ i + (j - i) - 1 = j - 1 /\ i + (j - i) = j
    BY <1>1
  <2>2. u[i + (j - i)] = r[j - i]
    BY <1>8, <2>1
  <2> QED
    BY <1>3, <2>1, <2>2
<1> QED
  BY <1>7, <1>8, <1>9, <1>10 DEF u

-------------------------------------------------------------------------------
(* The steps. *)

\* What getStructuredPacket does with the byte it reads: it looks on for a start byte,
\* takes the byte and goes on, or returns.
Skips ==
  /\ idx = 0 /\ uart[1] # StartHigh
  /\ UNCHANGED <<pc, idx, last, failed>>

Complete == idx >= 9 /\ idx - 8 = length

Goes ==
  /\ idx + 10 < Data /\ idx' = idx + 1
  /\ idx = 0 => uart[1] = StartHigh
  /\ idx = 1 => uart[1] = StartLow
  /\ ~Complete
  /\ UNCHANGED <<pc, last, failed>>

Outcome(kind, c) ==
  /\ kind = "ok" => Complete /\ c = IF idx = 9 THEN uart[1] ELSE code
  /\ Complete /\ type = Ack => kind = "ok"

Kinds == {"ok", "receive error", "timeout"}

Returns ==
  /\ pc' = "idle" /\ idx' = idx
  /\ (idx = 1 /\ uart[1] # StartLow) \/ idx + 10 >= Data \/ Complete
  /\ \E kind \in Kinds, c \in Byte : Outcome(kind, c) /\ Return(kind, c)

Takes ==
  /\ type' = IF idx = 6 THEN uart[1] ELSE type
  /\ length' = IF idx = 7 THEN uart[1] * 256 ELSE IF idx = 8 THEN length + uart[1] ELSE length
  /\ code' = IF idx = 9 THEN uart[1] ELSE code

\* A step of the parser, whichever case of the switch it is.
LEMMA ParseStep ==
  ASSUME TypeOK, getStructuredPacket
  PROVE  /\ pc = "parse" /\ Len(uart) \in Nat \ {0} /\ uart[1] \in Byte
         /\ uart' \in Seq(Byte) /\ Len(uart') = Len(uart) - 1
         /\ \A i \in 1 .. Len(uart) - 1 : uart'[i] = uart[i + 1]
         /\ UNCHANGED <<sent, requests, late, broken, added>>
         /\ Takes
         /\ Skips \/ Goes \/ Returns
<1>1. /\ pc = "parse" /\ uart # <<>> /\ uart' = Tail(uart) /\ uart \in Seq(Byte)
      /\ UNCHANGED <<sent, requests, late, broken, added>>
  <2>1. uart \in Seq(Byte)
    BY DEF TypeOK
  <2>2. pc = "parse" /\ uart # <<>> /\ uart' = Tail(uart)
    BY DEF getStructuredPacket
  <2>3. UNCHANGED <<sent, requests, late, broken, added>>
    BY DEF getStructuredPacket
  <2> QED
    BY <2>1, <2>2, <2>3
<1>2. /\ Len(uart) \in Nat \ {0} /\ Head(uart) = uart[1] /\ uart[1] \in Byte
      /\ uart' \in Seq(Byte) /\ Len(uart') = Len(uart) - 1
  <2>1. Len(uart) \in Nat \ {0}
    BY <1>1, EmptySeq
  <2>2. uart[1] \in Byte
    BY <1>1, <2>1, ElementOfSeq
  <2> QED
    BY <1>1, <2>1, <2>2, HeadTailProperties
<1>3. \A i \in 1 .. Len(uart) - 1 : uart'[i] = uart[i + 1]
  BY <1>1, <1>2, HeadTailProperties
<1> DEFINE b == uart[1]
<1>4. idx \in Nat /\ Data \in Nat /\ code \in Byte /\ b \in Byte
  <2>1. idx \in Nat /\ code \in Byte
    BY DEF TypeOK
  <2> QED
    BY <1>2, <2>1, Lengths
<1>5. Start(b) \/ StartSecond(b) \/ Fields(b) \/ Body(b)
  BY <1>2 DEF getStructuredPacket
<1> HIDE DEF b
\* The end of a case of the switch.
<1> DEFINE Stays == idx + 10 < Data /\ idx' = idx + 1 /\ UNCHANGED <<pc, last, failed>>
           Fails == idx + 10 >= Data /\ idx' = idx /\ Return("receive error", code)
<1>6. ASSUME Step(idx + 1) PROVE Stays \/ Fails
  <2>1. (idx + 1) + 9 >= Data <=> idx + 10 >= Data
    BY <1>4
  <2>2. idx + 10 >= Data \/ idx + 10 < Data
    BY <1>4
  <2> QED
    BY <1>6, <2>1, <2>2 DEF Step
<1>7. ASSUME Fails, ~Complete PROVE Returns
  <2>1. Outcome("receive error", code) /\ pc' = "idle" /\ "receive error" \in Kinds
    BY <1>7 DEF Outcome, Return, Kinds
  <2> QED
    BY <1>4, <1>7, <2>1 DEF Returns
<1>8. ASSUME idx = 0 PROVE ~Complete /\ idx + 1 = 1
  BY <1>8 DEF Complete
<1>9. ASSUME idx = 1 PROVE ~Complete /\ idx + 1 = 2
  BY <1>9 DEF Complete
<1> HIDE DEF Fails
<1>10. CASE Start(b)
  <2>1. idx = 0 /\ UNCHANGED <<type, length, code>>
    BY <1>10 DEF Start
  <2>2. Takes
    BY <2>1 DEF Takes
  <2>3. CASE b # StartHigh
    BY <1>1, <1>2, <1>3, <1>10, <2>1, <2>2, <2>3 DEF Start, Skips, b
  <2>4. CASE b = StartHigh
    <3>1. Step(idx + 1)
      BY <1>8, <1>10, <2>1, <2>4 DEF Start
    <3>2. CASE Stays
      BY <1>1, <1>2, <1>3, <1>8, <2>1, <2>2, <2>4, <3>2 DEF Goes, b
    <3>3. CASE Fails
      BY <1>1, <1>2, <1>3, <1>7, <1>8, <2>1, <2>2, <3>3
    <3> QED
      BY <1>6, <3>1, <3>2, <3>3
  <2> QED
    BY <2>3, <2>4
<1>11. CASE StartSecond(b)
  <2>1. idx = 1 /\ UNCHANGED <<type, length, code>>
    BY <1>11 DEF StartSecond
  <2>2. Takes
    BY <2>1 DEF Takes
  <2>3. CASE b # StartLow
    <3>1. Return("receive error", code) /\ idx' = idx
      BY <1>11, <2>3 DEF StartSecond
    <3>2. Outcome("receive error", code) /\ pc' = "idle" /\ "receive error" \in Kinds
      BY <1>9, <2>1, <3>1 DEF Outcome, Return, Kinds
    <3>3. Returns
      BY <1>4, <2>1, <2>3, <3>1, <3>2 DEF Returns, b
    <3> QED
      BY <1>1, <1>2, <1>3, <2>2, <3>3
  <2>4. CASE b = StartLow
    <3>1. Step(idx + 1)
      BY <1>9, <1>11, <2>1, <2>4 DEF StartSecond
    <3>2. CASE Stays
      BY <1>1, <1>2, <1>3, <1>9, <2>1, <2>2, <2>4, <3>2 DEF Goes, b
    <3>3. CASE Fails
      BY <1>1, <1>2, <1>3, <1>7, <1>9, <2>1, <2>2, <3>3
    <3> QED
      BY <1>6, <3>1, <3>2, <3>3
  <2> QED
    BY <2>3, <2>4
<1>12. CASE Fields(b)
  <2>1. idx \in 2 .. 8 /\ Step(idx + 1) /\ ~Complete
    BY <1>12 DEF Fields, Complete
  <2>2. Takes
    BY <1>12, <2>1 DEF Fields, Takes, b
  <2>3. CASE Stays
    BY <1>1, <1>2, <1>3, <2>1, <2>2, <2>3 DEF Goes
  <2>4. CASE Fails
    BY <1>1, <1>2, <1>3, <1>7, <2>1, <2>2, <2>4
  <2> QED
    BY <1>6, <2>1, <2>3, <2>4
<1>13. CASE Body(b)
  <2> idx >= 9
    BY <1>13 DEF Body
  <2>1. /\ idx # 6 /\ idx # 7 /\ idx # 8 /\ idx # 0 /\ idx # 1
        /\ UNCHANGED <<type, length>> /\ code' = IF idx = 9 THEN b ELSE code
    <3>1. idx # 6 /\ idx # 7 /\ idx # 8 /\ idx # 0 /\ idx # 1
      BY <1>4
    <3> QED
      BY <1>13, <3>1 DEF Body
  <2>2. Takes
    BY <2>1 DEF Takes, b
  <2>3. CASE Complete
    <3> DEFINE k == IF type = Ack THEN "ok" ELSE "receive error"
    <3>1. Return(k, code') /\ idx' = idx
      BY <1>13, <2>3 DEF Body, Complete
    <3>2. code' \in Byte /\ Outcome(k, code') /\ k \in Kinds
      BY <1>4, <2>1, <2>3 DEF Outcome, Kinds, b
    <3>3. Returns
      <4>1. pc' = "idle"
        BY <3>1 DEF Return
      <4> HIDE DEF k
      <4> QED
        BY <2>3, <3>1, <3>2, <4>1 DEF Returns
    <3> QED
      BY <1>1, <1>2, <1>3, <2>2, <3>3
  <2>4. CASE ~Complete
    <3>1. Step(idx + 1)
      BY <1>13, <2>4 DEF Body, Complete
    <3>2. CASE Stays
      BY <1>1, <1>2, <1>3, <2>1, <2>2, <2>4, <3>2 DEF Goes
    <3>3. CASE Fails
      BY <1>1, <1>2, <1>3, <1>7, <2>2, <2>4, <3>3
    <3> QED
      BY <1>6, <3>1, <3>2, <3>3
  <2> QED
    BY <2>3, <2>4
<1> QED
  BY <1>5, <1>10, <1>11, <1>12, <1>13

\* What arrives of an answer: the whole of it, all but one byte, or one byte more.
Whole(bytes, n) ==
  /\ Len(bytes) = Length + 11
  /\ \A j \in 1 .. Length + 11 : bytes[j] = Answer(n)[j]

Lost(bytes, n, i) ==
  /\ Len(bytes) = Length + 10
  /\ \A j \in 1 .. i - 1 : bytes[j] = Answer(n)[j]
  /\ \A j \in i .. Length + 10 : bytes[j] = Answer(n)[j + 1]

Noisy(bytes, n, i) ==
  /\ Len(bytes) = Length + 12
  /\ \A j \in 1 .. i - 1 : bytes[j] = Answer(n)[j]
  /\ bytes[i] \in NoiseBytes
  /\ \A j \in i + 1 .. Length + 12 : bytes[j] = Answer(n)[j - 1]

Comes(bytes) ==
  \/ Whole(bytes, Head(requests)) /\ UNCHANGED <<broken, added>>
  \/ /\ broken' = broken + 1 /\ late + broken < MaxFaults
     /\ \/ UNCHANGED added /\ \E i \in 1 .. Length + 11 : Lost(bytes, Head(requests), i)
        \/ /\ added' = added + 1 /\ added < MaxAdded
           /\ \E i \in 1 .. Length + 12 : Noisy(bytes, Head(requests), i)

\* The command the sensor answers next.
LEMMA Requested ==
  ASSUME TypeOK, requests # <<>>
  PROVE  /\ Head(requests) \in 1 .. sent /\ Head(requests) \in 1 .. 100
         /\ Tail(requests) \in Seq(Nat)
         /\ Len(Tail(requests)) = Len(requests) - 1 /\ Len(requests) \in Nat \ {0}
         /\ Head(requests) = requests[1]
         /\ \A i \in 1 .. Len(requests) - 1 : Tail(requests)[i] = requests[i + 1]
<1>1. /\ requests \in Seq(Nat) /\ \A i \in 1 .. Len(requests) : requests[i] \in 1 .. sent
      /\ sent \in Nat /\ sent <= MaxCommands
  BY DEF TypeOK
<1>2. Len(requests) \in Nat \ {0} /\ Head(requests) = requests[1]
  BY <1>1, EmptySeq
<1>3. Head(requests) \in 1 .. sent
  BY <1>1, <1>2
<1>4. Head(requests) \in 1 .. 100
  <2>1. sent \in Nat /\ sent <= 100
    <3>1. sent \in Nat /\ sent <= MaxCommands
      BY <1>1
    <3> QED
      BY ONLY <3>1, Lengths
  <2> QED
    BY ONLY <1>3, <2>1
<1>5. /\ Tail(requests) \in Seq(Nat) /\ Len(Tail(requests)) = Len(requests) - 1
      /\ \A i \in 1 .. Len(requests) - 1 : Tail(requests)[i] = requests[i + 1]
  BY <1>1, <1>2, HeadTailProperties
<1> QED
  BY <1>2, <1>3, <1>4, <1>5

\* What a step of the sensor does.
LEMMA Arrived ==
  ASSUME TypeOK, Respond \/ RespondBroken
  PROVE  /\ requests # <<>>
         /\ requests' = Tail(requests)
         /\ UNCHANGED <<pc, sent, idx, type, length, code, last, late, failed>>
         /\ \E bytes \in Seq(Byte) : uart' = uart \o bytes /\ Comes(bytes)
<1>1. requests # <<>>
  BY DEF Respond, RespondBroken
<1> DEFINE n == Head(requests)
<1>2. n \in 1 .. 100
  BY <1>1, Requested
<1> HIDE DEF n
<1> DEFINE a == Answer(n)
<1>3. a \in Seq(Byte) /\ Len(a) = Length + 11 /\ Length \in Nat
  BY <1>2, AnswerBytes, Lengths
<1> HIDE DEF a
<1>4. CASE Respond
  <2>1. Arrive(Answer(n)) /\ UNCHANGED <<broken, added>>
    BY <1>4 DEF Respond, n
  <2>2. Whole(a, n)
    BY <1>3 DEF Whole, a
  <2> QED
    BY <1>1, <1>3, <2>1, <2>2 DEF Arrive, Comes, a, n
<1>5. CASE RespondBroken
  <2>1. broken' = broken + 1 /\ late + broken < MaxFaults
    BY <1>5 DEF RespondBroken
  <2>2. CASE UNCHANGED added /\ \E bytes \in Received(a).lost : Arrive(bytes)
    <3>1. PICK bytes \in Received(a).lost : Arrive(bytes)
      BY <2>2
    <3>2. PICK i \in DOMAIN a : bytes = RemoveAt(a, i)
      BY <3>1 DEF Received
    <3>3. i \in 1 .. Length + 11 /\ i \in 1 .. Len(a)
      BY <1>3, <3>2
    <3>4. /\ bytes \in Seq(Byte) /\ Len(bytes) = Length + 10
          /\ \A j \in 1 .. Length + 10 : bytes[j] = IF j < i THEN a[j] ELSE a[j + 1]
      <4>1. /\ bytes \in Seq(Byte) /\ Len(bytes) = Len(a) - 1
            /\ \A j \in 1 .. Len(a) - 1 : bytes[j] = IF j < i THEN a[j] ELSE a[j + 1]
        BY <1>3, <3>2, <3>3, RemoveAtElements
      <4> QED
        BY <1>3, <4>1
    <3>5. Lost(bytes, n, i)
      BY <1>3, <3>3, <3>4 DEF Lost, a
    <3> QED
      BY <1>1, <2>1, <2>2, <3>1, <3>3, <3>4, <3>5 DEF Arrive, Comes, n
  <2>3. CASE /\ added < MaxAdded /\ added' = added + 1
             /\ \E bytes \in Received(a).noise : Arrive(bytes)
    <3>1. PICK bytes \in Received(a).noise : Arrive(bytes)
      BY <2>3
    <3>2. PICK i \in 1..(Len(a) + 1), b \in NoiseBytes : bytes = InsertAt(a, i, b)
      BY <3>1 DEF Received
    <3>3. i \in 1 .. Length + 12 /\ b \in Byte
      BY <1>3, <3>2 DEF NoiseBytes, Byte, StartHigh, StartLow
    <3>4. /\ bytes \in Seq(Byte) /\ Len(bytes) = Length + 12
          /\ \A j \in 1 .. i - 1 : bytes[j] = a[j]
          /\ bytes[i] = b
          /\ \A j \in i + 1 .. Length + 12 : bytes[j] = a[j - 1]
      <4>1. /\ bytes \in Seq(Byte) /\ Len(bytes) = Len(a) + 1
            /\ \A j \in 1 .. i - 1 : bytes[j] = a[j]
            /\ bytes[i] = b
            /\ \A j \in i + 1 .. Len(a) + 1 : bytes[j] = a[j - 1]
        <5>1. i \in 1 .. Len(a) + 1
          BY <3>2
        <5>2. /\ InsertAt(a, i, b) \in Seq(Byte) /\ Len(InsertAt(a, i, b)) = Len(a) + 1
              /\ \A j \in 1 .. i - 1 : InsertAt(a, i, b)[j] = a[j]
              /\ InsertAt(a, i, b)[i] = b
              /\ \A j \in i + 1 .. Len(a) + 1 : InsertAt(a, i, b)[j] = a[j - 1]
          BY ONLY <1>3, <3>3, <5>1, InsertAtElements, ZenonT(30)
        <5> QED
          BY ONLY <3>2, <5>2
      <4> QED
        BY <1>3, <4>1
    <3>5. Noisy(bytes, n, i)
      BY <3>2, <3>4 DEF Noisy, a
    <3> QED
      BY <1>1, <2>1, <2>3, <3>1, <3>3, <3>4, <3>5 DEF Arrive, Comes, n
  <2> QED
    BY <1>5, <2>2, <2>3 DEF RespondBroken, a, n
<1> QED
  BY <1>4, <1>5

-------------------------------------------------------------------------------
(* Types. *)

\* Inductive: an exchange under way has not failed yet, and the high byte of a length
\* leaves room for the low one.
Types ==
  /\ TypeOK
  /\ pc = "parse" => failed < sent
  /\ idx = 8 => length + 255 <= UINT16_MAX

\* The end of an exchange keeps the types.
LEMMA ReturnTypes ==
  ASSUME Types, pc = "parse", sent' = sent,
         NEW kind \in Kinds, NEW c \in Byte, Return(kind, c)
  PROVE  pc' = "idle" /\ last' \in Outcomes /\ failed' \in Nat /\ failed' <= sent' /\ failed' \in {failed, failed + 1}
<1>1. failed \in Nat /\ failed < sent /\ sent \in Nat /\ sent' = sent
  BY DEF Types, TypeOK
<1>2. pc' = "idle" /\ last' = [kind |-> kind, code |-> c] /\ failed' \in {failed, failed + 1}
  BY DEF Return
<1>3. last' \in Outcomes
  <2>1. kind \in {"none", "ok", "receive error", "timeout"}
    BY DEF Kinds
  <2> QED
    BY ONLY <1>2, <2>1, c \in Byte DEF Outcomes
<1>4. failed' \in Nat /\ failed' <= sent'
  BY ONLY <1>1, <1>2
<1> QED
  BY <1>2, <1>3, <1>4

\* Every step keeps the types: one step of the proof for each action.
LEMMA TypesStep ==
  ASSUME Types, [Next]_vars PROVE Types'
<1>1. /\ pc \in {"idle", "parse"} /\ sent \in Nat /\ sent <= MaxCommands
      /\ requests \in Seq(Nat) /\ \A i \in 1 .. Len(requests) : requests[i] \in 1 .. sent
      /\ uart \in Seq(Byte) /\ idx \in Nat /\ idx <= Data - 10
      /\ type \in Byte /\ code \in Byte /\ length \in Nat /\ length <= UINT16_MAX
      /\ last \in Outcomes
      /\ late \in Nat /\ broken \in Nat /\ late + broken <= MaxFaults
      /\ added \in Nat /\ added <= MaxAdded /\ failed \in Nat /\ failed <= sent
      /\ pc = "parse" => failed < sent
      /\ idx = 8 => length + 255 <= UINT16_MAX
  BY DEF Types, TypeOK
<1>2. CASE UNCHANGED vars
  BY <1>1, <1>2 DEF vars, Types, TypeOK
<1>3. CASE Request
  <2>1. /\ pc = "idle" /\ sent < MaxCommands /\ sent' = sent + 1
        /\ requests' = Append(requests, sent + 1)
        /\ pc' = "parse" /\ idx' = 0 /\ type' = 1 /\ length' = 1 /\ code' = 0
        /\ UNCHANGED <<uart, last, late, broken, added, failed>>
    BY <1>3 DEF Request
  <2>2. /\ sent' \in Nat /\ sent' <= MaxCommands
        /\ failed' \in Nat /\ failed' <= sent' /\ failed' < sent'
    BY <1>1, <2>1, Lengths
  <2>3. requests' \in Seq(Nat) /\ \A i \in 1 .. Len(requests') : requests'[i] \in 1 .. sent'
    <3>1. /\ requests' \in Seq(Nat) /\ Len(requests') = Len(requests) + 1
          /\ \A i \in 1 .. Len(requests) : requests'[i] = requests[i]
          /\ requests'[Len(requests) + 1] = sent + 1
      BY <1>1, <2>1, AppendProperties
    <3>2. /\ Len(requests) \in Nat /\ sent \in Nat /\ sent' = sent + 1
          /\ \A i \in 1 .. Len(requests) : requests[i] \in 1 .. sent
      BY ONLY <1>1, <2>1
    <3>3. ASSUME NEW i \in 1 .. Len(requests') PROVE requests'[i] \in 1 .. sent'
      <4>1. CASE i = Len(requests) + 1
        BY ONLY <3>1, <3>2, <4>1
      <4>2. CASE i # Len(requests) + 1
        <5>1. i \in 1 .. Len(requests)
          BY ONLY <3>1, <3>2, <4>2, i \in 1 .. Len(requests')
        <5>2. requests'[i] \in 1 .. sent
          BY ONLY <3>1, <3>2, <5>1
        <5> QED
          BY ONLY <3>2, <5>2
      <4> QED
        BY <4>1, <4>2
    <3> QED
      BY <3>1, <3>3
  <2>4. idx' \in Nat /\ idx' <= Data - 10
    BY <2>1, Lengths
  <2>5. type' \in Byte /\ code' \in Byte /\ length' \in Nat /\ length' <= UINT16_MAX
    <3>1. 0 \in Byte /\ 1 \in Byte /\ 1 <= UINT16_MAX
      BY DEF Byte, UINT16_MAX
    <3> QED
      BY <2>1, <3>1
  <2>6. pc' \in {"idle", "parse"} /\ idx' # 8 /\ UNCHANGED <<uart, last, late, broken, added>>
    BY <2>1
  <2>7. TypeOK'
    BY ONLY <1>1, <2>2, <2>3, <2>4, <2>5, <2>6 DEF TypeOK
  <2> QED
    BY ONLY <2>2, <2>6, <2>7 DEF Types
<1>4. CASE Respond \/ RespondBroken
  <2> TypeOK
    BY DEF Types
  <2>1. /\ requests # <<>> /\ requests' = Tail(requests)
        /\ UNCHANGED <<pc, sent, idx, type, length, code, last, late, failed>>
    BY <1>4, Arrived
  <2>2. PICK bytes \in Seq(Byte) : uart' = uart \o bytes /\ Comes(bytes)
    BY <1>4, Arrived
  <2>3. uart' \in Seq(Byte)
    BY <1>1, <2>2, Joined
  <2>4. requests' \in Seq(Nat) /\ \A i \in 1 .. Len(requests') : requests'[i] \in 1 .. sent'
    <3>1. /\ requests' \in Seq(Nat) /\ Len(requests') = Len(requests) - 1 /\ Len(requests) \in Nat \ {0}
          /\ \A i \in 1 .. Len(requests) - 1 : requests'[i] = requests[i + 1]
      BY <2>1, Requested
    <3> QED
      BY <1>1, <2>1, <3>1
  <2>5. /\ \/ UNCHANGED <<broken, added>>
           \/ broken' = broken + 1 /\ late + broken < MaxFaults /\ UNCHANGED added
           \/ broken' = broken + 1 /\ late + broken < MaxFaults /\ added' = added + 1 /\ added < MaxAdded
    BY <2>2 DEF Comes
  <2>6. /\ broken' \in Nat /\ late' + broken' <= MaxFaults
        /\ added' \in Nat /\ added' <= MaxAdded
    <3>1. /\ late \in Nat /\ broken \in Nat /\ late + broken <= MaxFaults
          /\ added \in Nat /\ added <= MaxAdded /\ late' = late
      BY ONLY <1>1, <2>1
    <3> QED
      BY ONLY <2>5, <3>1, Lengths
  <2> QED
    BY <1>1, <2>1, <2>3, <2>4, <2>6 DEF Types, TypeOK
<1>5. CASE getStructuredPacket
  <2> TypeOK
    BY DEF Types
  <2>1. /\ pc = "parse" /\ uart[1] \in Byte /\ uart' \in Seq(Byte)
        /\ UNCHANGED <<sent, requests, late, broken, added>>
        /\ Takes
        /\ Skips \/ Goes \/ Returns
    BY <1>5, ParseStep
  <2>2. type' \in Byte /\ code' \in Byte
    BY <1>1, <2>1 DEF Takes
  <2>3. CASE Skips \/ Goes
    <3>1. /\ idx' \in Nat /\ idx' <= Data - 10 /\ UNCHANGED <<pc, last, failed>>
          /\ (idx' = idx /\ idx = 0) \/ idx' = idx + 1
      BY <1>1, <2>3, Lengths DEF Skips, Goes
    <3>2. length' \in Nat /\ length' <= UINT16_MAX /\ (idx' = 8 => length' + 255 <= UINT16_MAX)
      <4>1. uart[1] \in Nat /\ uart[1] <= 255
        <5>1. \A b \in Byte : b \in Nat /\ b <= 255
          BY DEF Byte
        <5> QED
          BY <2>1, <5>1
      <4> DEFINE room == UINT16_MAX
      <4>5. \A n \in Nat : n <= 255 => n * 256 \in Nat /\ n * 256 + 255 <= room /\ n * 256 <= room
        BY DEF UINT16_MAX
      <4>6. \A m, n \in Nat : n <= 255 /\ m + 255 <= room => m + n \in Nat /\ m + n <= room
        BY DEF UINT16_MAX
      <4>2. CASE idx = 7
        <5>1. length' = uart[1] * 256
          BY <2>1, <4>2 DEF Takes
        <5>2. length' \in Nat /\ length' + 255 <= UINT16_MAX
          BY <4>1, <4>5, <5>1
        <5> QED
          BY <4>1, <4>5, <5>1, <5>2
      <4>3. CASE idx = 8
        <5>1. length' = length + uart[1] /\ length + 255 <= UINT16_MAX /\ idx' = 9
          BY <1>1, <2>1, <3>1, <4>3 DEF Takes
        <5>2. length' \in Nat /\ length' <= UINT16_MAX
          BY <1>1, <4>1, <4>6, <5>1
        <5> QED
          BY <4>1, <5>1, <5>2
      <4>4. CASE idx # 7 /\ idx # 8
        <5>1. length' = length /\ idx' # 8
          BY <1>1, <2>1, <3>1, <4>4 DEF Takes
        <5> QED
          BY <1>1, <5>1
      <4> QED
        BY <4>2, <4>3, <4>4
    <3> QED
      BY <1>1, <2>1, <2>2, <3>1, <3>2 DEF Types, TypeOK
  <2>4. CASE Returns
    <3>1. PICK kind \in Kinds, c \in Byte : Return(kind, c)
      BY <2>4 DEF Returns
    <3>2. last' \in Outcomes /\ failed' \in Nat /\ failed' <= sent'
      BY <2>1, <3>1, ReturnTypes
    <3>3. pc' = "idle" /\ idx' = idx /\ idx # 8 /\ idx # 7
      <4>1. pc' = "idle" /\ idx' = idx /\ (idx = 1 \/ idx + 10 >= Data \/ idx >= 9)
        BY <2>4 DEF Returns, Complete
      <4>2. idx \in Nat
        BY <1>1
      <4> QED
        BY ONLY <4>1, <4>2, Lengths
    <3>4. length' = length
      BY <2>1, <3>3 DEF Takes
    <3>5. length' \in Nat /\ length' <= UINT16_MAX /\ idx' \in Nat /\ idx' <= Data - 10 /\ idx' # 8
      BY <1>1, <3>3, <3>4
    <3>6. UNCHANGED <<sent, requests, late, broken, added>> /\ uart' \in Seq(Byte) /\ pc' = "idle"
      BY <2>1, <3>3
    <3>7. TypeOK'
      BY ONLY <1>1, <2>2, <3>2, <3>5, <3>6 DEF TypeOK
    <3> QED
      BY ONLY <3>5, <3>6, <3>7 DEF Types
  <2> QED
    BY <2>1, <2>3, <2>4
<1>6. CASE TimeOut
  <2>1. /\ pc = "parse" /\ Return("timeout", code)
        /\ UNCHANGED <<sent, requests, uart, idx, type, length, code, broken, added>>
        /\ late' = late \/ (late' = late + 1 /\ late + broken < MaxFaults)
    BY <1>6 DEF TimeOut
  <2>2. pc' = "idle" /\ last' \in Outcomes /\ failed' \in Nat /\ failed' <= sent'
    <3>1. code \in Byte /\ sent' = sent /\ "timeout" \in Kinds
      BY <1>1, <2>1 DEF Kinds
    <3> QED
      BY <2>1, <3>1, ReturnTypes
  <2>3. late' \in Nat /\ late' + broken' <= MaxFaults
    <3>1. /\ late \in Nat /\ broken \in Nat /\ late + broken <= MaxFaults /\ broken' = broken
      BY ONLY <1>1, <2>1
    <3> QED
      BY ONLY <2>1, <3>1, Lengths
  <2> QED
    BY <1>1, <2>1, <2>2, <2>3 DEF Types, TypeOK
<1> QED
  BY <1>2, <1>3, <1>4, <1>5, <1>6 DEF Next

\* The types hold at first.
LEMMA TypesInit == Init => Types
<1> SUFFICES ASSUME Init PROVE Types
  OBVIOUS
<1>1. <<>> \in Seq(Nat) /\ <<>> \in Seq(Byte) /\ Len(<<>>) = 0
  OBVIOUS
<1>2. last \in Outcomes
  BY DEF Init, Outcomes, Byte
<1> QED
  BY <1>1, <1>2, Lengths DEF Init, Types, TypeOK, Byte, UINT16_MAX

\* The variables keep their types: the bytes of packet->data are written within it and
\* the length of a packet keeps to 16 bits.
THEOREM TypeCorrect == Spec => []TypeOK
<1>1. Types => TypeOK
  BY DEF Types
<1> QED
  BY <1>1, TypesInit, TypesStep, PTL DEF Spec

-------------------------------------------------------------------------------
(* A damaged answer costs one command, as long as none is late. *)

High(i) == uart[i] = StartHigh

\* Fewer exchanges went wrong than answers were damaged.
Credit == failed < broken

\* Between exchanges, a start byte in the UART is the last byte there.
Over ==
  \A i \in 1 .. Len(uart) : High(i) => i = Len(uart) /\ Credit /\ added >= 1

\* The answer begins behind byte j of the UART (before it, when its first bytes have been
\* read), and is intact up to its byte e - 1; its byte e is one added to it, unless e is behind
\* its end.
Run(j, e) ==
  /\ \A i \in 1 .. e - 1 : j + i >= 1 => j + i <= Len(uart) /\ uart[j + i] = Answer(sent)[i]
  /\ \A i \in 1 .. Len(uart) : i > j + e => ~High(i)
  /\ e <= Length + 11 => Len(uart) >= j + e
  /\ e = Length + 12 => Len(uart) <= j + e
  /\ Len(uart) >= j + e => Credit /\ added >= 1

Places == 3 .. Length + 12

\* No byte of the answer has been read, and no byte before it starts a packet.
Skipping ==
  /\ idx = 0
  /\ \E j \in Nat, e \in Places : Run(j, e) /\ \A i \in 1 .. j : ~High(i)

\* What the parser knows of a packet that is the answer.
Parsed ==
  /\ idx >= 7 => type = Ack
  /\ idx = 8 => length = 0
  /\ idx >= 9 => length = Length + 2
  /\ idx >= 10 => code = Code(sent)

\* The answer has been read up to its byte idx.
Tracking ==
  \E e \in Places : idx \in 1 .. e - 1 /\ idx <= Length + 10 /\ Run(0 - idx, e) /\ Parsed

NoHigh == \A i \in 1 .. Len(uart) : ~High(i)
OneHigh == \E j \in 1 .. Len(uart) : \A i \in 1 .. Len(uart) : High(i) => i = j
TwoHigh == \E j \in 1 .. Len(uart) - 1 : \A i \in 1 .. Len(uart) : High(i) <=> i \in {j, j + 1}
FirstHigh == Len(uart) >= 1 /\ \A i \in 1 .. Len(uart) : High(i) <=> i = 1

\* The exchange may go wrong, but leaves no start byte.
Spoiled ==
  /\ Credit
  /\ NoHigh \/ (idx = 0 /\ (OneHigh \/ TwoHigh)) \/ (idx = 1 /\ FirstHigh)

Awaiting ==
  /\ requests = <<sent>>
  /\ (idx = 0 /\ Over) \/ (idx = 1 /\ uart = <<>> /\ Credit /\ added >= 1)

InTime ==
  /\ failed <= broken
  /\ pc = "idle" => requests = <<>> /\ Over
  /\ pc = "parse" => Awaiting \/ (requests = <<>> /\ (Skipping \/ Tracking \/ Spoiled))

Inv == late = 0 => InTime

\* What TypeOK says of what these are about.
LEMMA Typed ==
  ASSUME TypeOK
  PROVE  /\ uart \in Seq(Byte) /\ Len(uart) \in Nat /\ requests \in Seq(Nat)
         /\ sent \in Nat /\ idx \in Nat /\ failed \in Nat /\ broken \in Nat /\ added \in Nat
         /\ late \in Nat /\ added <= MaxAdded
<1>1. /\ uart \in Seq(Byte) /\ requests \in Seq(Nat)
      /\ sent \in Nat /\ idx \in Nat /\ failed \in Nat /\ broken \in Nat /\ added \in Nat
      /\ late \in Nat /\ added <= MaxAdded
  BY DEF TypeOK
<1>2. Len(uart) \in Nat
  BY <1>1
<1> QED
  BY <1>1, <1>2

\* Only the answer's first byte is a start byte.
LEMMA HighAnswer ==
  ASSUME NEW n \in 1 .. 100
  PROVE  \A i \in 1 .. Length + 11 : Answer(n)[i] = StartHigh <=> i = 1
<1>1. Answer(n)[1] = StartHigh
  BY AnswerBytes
<1>2. \A i \in 1 .. Length + 11 : i = 1 \/ i \in 2 .. Length + 11
  BY Lengths
<1> QED
  BY <1>1, <1>2, AnswerStart

\* A byte is read.
ReadOne ==
  /\ Len(uart) \in Nat \ {0} /\ Len(uart') = Len(uart) - 1
  /\ \A i \in 1 .. Len(uart) - 1 : uart'[i] = uart[i + 1]
  /\ UNCHANGED <<sent, broken, added>>

\* The start bytes move up by one.
LEMMA HighShifts ==
  ASSUME ReadOne
  PROVE  \A i \in 1 .. Len(uart') : i + 1 \in 1 .. Len(uart) /\ (High(i)' <=> High(i + 1))
BY DEF ReadOne, High

\* So does the answer that is in the UART.
LEMMA RunShifts ==
  ASSUME TypeOK, ReadOne, failed' = failed, NEW j \in Int, NEW e \in Places, Run(j, e)
  PROVE  Run(j - 1, e)'
<1>1. Length \in Nat /\ e \in Int
  BY Lengths DEF Places
<1>2. /\ Len(uart) \in Nat /\ Len(uart') = Len(uart) - 1
      /\ \A i \in 1 .. Len(uart) - 1 : uart'[i] = uart[i + 1]
  BY DEF ReadOne
<1> DEFINE m == Len(uart)
           m1 == Len(uart')
<1>3. ASSUME NEW i \in 1 .. e - 1, (j - 1) + i >= 1
      PROVE  (j - 1) + i <= m1 /\ uart'[(j - 1) + i] = Answer(sent)[i]
  <2>1. j + i <= m /\ uart[j + i] = Answer(sent)[i]
    BY <1>1, <1>3 DEF Run
  <2>2. (j - 1) + i \in 1 .. m - 1 /\ ((j - 1) + i) + 1 = j + i
    BY <1>1, <1>2, <1>3, <2>1
  <2> QED
    BY <1>2, <2>1, <2>2
<1>4. ASSUME NEW i \in 1 .. m1, i > (j - 1) + e PROVE ~High(i)'
  <2>1. i + 1 \in 1 .. m /\ i + 1 > j + e
    BY <1>1, <1>2, <1>4
  <2>2. ~High(i + 1)
    BY <2>1 DEF Run
  <2> QED
    BY <2>2, HighShifts
<1>5. (e <= Length + 11 => m1 >= (j - 1) + e) /\ (e = Length + 12 => m1 <= (j - 1) + e)
  BY <1>1, <1>2 DEF Run
<1>6. m1 >= (j - 1) + e => Credit /\ added >= 1
  BY <1>1, <1>2 DEF Run
<1>7. Credit => Credit'
  BY DEF Credit, ReadOne
<1> QED
  BY <1>3, <1>4, <1>5, <1>6, <1>7 DEF Run, ReadOne

-------------------------------------------------------------------------------
(* Every step keeps it. *)

\* The invariant holds at first.
LEMMA InTimeInit == Init => InTime
BY DEF Init, InTime, Over

\* A command is sent: what the UART holds is to be skipped.
LEMMA RequestInTime ==
  ASSUME TypeOK, InTime, Request
  PROVE  InTime'
<1>1. /\ pc = "idle" /\ sent' = sent + 1 /\ requests' = Append(requests, sent + 1)
      /\ pc' = "parse" /\ idx' = 0
      /\ UNCHANGED <<uart, broken, added, failed>>
  BY DEF Request
<1>2. requests = <<>> /\ Over /\ failed <= broken
  BY <1>1 DEF InTime
<1>3. requests' = <<sent'>>
  BY <1>1, <1>2, Typed
<1>4. Over'
  BY <1>1, <1>2 DEF Over, High, Credit
<1> QED
  BY <1>1, <1>2, <1>3, <1>4 DEF InTime, Awaiting

\* Without late answers, the limit passes only after the sensor has answered.
LEMMA TimeOutInTime ==
  ASSUME TypeOK, InTime, late' = 0, TimeOut
  PROVE  InTime'
<1>1. /\ pc = "parse" /\ uart = <<>> /\ Return("timeout", code)
      /\ UNCHANGED <<sent, requests, uart, idx, broken, added>>
      /\ requests = <<>>
  <2>1. late \in Nat
    BY Typed
  <2> QED
    BY <2>1 DEF TimeOut
<1>2. Len(uart) = 0
  BY <1>1
<1>3. ~Awaiting
  BY <1>1, Typed DEF Awaiting
<1>4. ~Skipping
  <2> SUFFICES ASSUME NEW j \in Nat, NEW e \in Places, Run(j, e) PROVE FALSE
    BY DEF Skipping
  <2>1. 1 \in 1 .. e - 1 /\ j + 1 >= 1
    BY Lengths DEF Places
  <2>2. j + 1 <= Len(uart)
    BY <2>1 DEF Run
  <2> QED
    BY <1>2, <2>2
<1>5. ~Tracking
  <2> SUFFICES ASSUME NEW e \in Places, idx \in 1 .. e - 1, idx <= Length + 10, Run(0 - idx, e)
               PROVE FALSE
    BY DEF Tracking
  <2>1. e \in Int /\ idx \in Nat /\ Length \in Nat
    BY Lengths, Typed DEF Places
  <2>2. CASE idx = e - 1
    <3>1. e <= Length + 11
      BY <2>1, <2>2
    <3>2. Len(uart) >= (0 - idx) + e
      BY <3>1 DEF Run
    <3> QED
      BY <1>2, <2>1, <2>2, <3>2
  <2>3. CASE idx # e - 1
    <3>1. idx + 1 \in 1 .. e - 1 /\ (0 - idx) + (idx + 1) = 1
      BY <2>1, <2>3
    <3>2. (0 - idx) + (idx + 1) <= Len(uart)
      BY <3>1 DEF Run
    <3> QED
      BY <1>2, <3>1, <3>2
  <2> QED
    BY <2>2, <2>3
<1>6. Credit
  BY <1>1, <1>3, <1>4, <1>5 DEF InTime, Spoiled
<1>7. pc' = "idle" /\ failed' \in {failed, failed + 1}
  BY <1>1 DEF Return
<1>8. failed' <= broken'
  BY <1>1, <1>6, <1>7, Typed DEF Credit
<1>9. Over'
  BY <1>1, <1>2 DEF Over
<1> QED
  BY <1>1, <1>7, <1>8, <1>9 DEF InTime

-------------------------------------------------------------------------------

\* The UART after bytes have come.
Appended(bytes) ==
  /\ Len(uart) \in Nat /\ Len(bytes) \in Nat /\ Len(uart') = Len(uart) + Len(bytes)
  /\ \A i \in 1 .. Len(uart) : uart'[i] = uart[i]
  /\ \A i \in 1 .. Len(bytes) : uart'[Len(uart) + i] = bytes[i]

Starts(bytes, i) == bytes[i] = StartHigh

\* The start bytes of bytes are among, or are exactly, the bytes of s.
Within(bytes, s) == \A i \in 1 .. Len(bytes) : Starts(bytes, i) => i \in s
Exactly(bytes, s) == \A i \in 1 .. Len(bytes) : Starts(bytes, i) <=> i \in s

\* A start byte was there before, or has come.
LEMMA HighAppended ==
  ASSUME NEW bytes, Appended(bytes), NEW i \in 1 .. Len(uart')
  PROVE  \/ i \in 1 .. Len(uart) /\ (High(i)' <=> High(i))
         \/ /\ i - Len(uart) \in 1 .. Len(bytes) /\ i > Len(uart)
            /\ (High(i)' <=> Starts(bytes, i - Len(uart)))
<1>1. CASE i <= Len(uart)
  BY <1>1 DEF Appended, High
<1>2. CASE i > Len(uart)
  <2>1. i - Len(uart) \in 1 .. Len(bytes) /\ Len(uart) + (i - Len(uart)) = i
    BY <1>2 DEF Appended
  <2>2. uart'[Len(uart) + (i - Len(uart))] = bytes[i - Len(uart)]
    BY <2>1 DEF Appended
  <2> QED
    BY <1>2, <2>1, <2>2 DEF High, Starts
<1> QED
  BY <1>1, <1>2 DEF Appended

\* Where the start bytes are then.
LEMMA NoneBefore ==
  ASSUME NEW bytes, Appended(bytes), NoHigh
  PROVE  /\ Within(bytes, {}) => NoHigh'
         /\ \A p \in 1 .. Len(bytes) : Within(bytes, {p}) => OneHigh'
         /\ \A p \in 1 .. Len(bytes) - 1 : Exactly(bytes, {p, p + 1}) => TwoHigh'
<1> DEFINE m == Len(uart)
           k == Len(bytes)
<1>1. m \in Nat /\ k \in Nat /\ Len(uart') = m + k
  BY DEF Appended
<1>2. \A i \in 1 .. m + k : High(i)' => i - m \in 1 .. k /\ Starts(bytes, i - m)
  BY <1>1, HighAppended DEF NoHigh
<1>3. \A i \in 1 .. m + k : i - m \in 1 .. k /\ Starts(bytes, i - m) => High(i)'
  BY <1>1, HighAppended
<1> HIDE DEF m, k
<1>4. ASSUME Within(bytes, {}) PROVE NoHigh'
  BY <1>1, <1>2, <1>4 DEF Within, NoHigh, k
<1>5. ASSUME NEW p \in 1 .. k, Within(bytes, {p}) PROVE OneHigh'
  <2>1. m + p \in 1 .. m + k
    BY <1>1
  <2>2. ASSUME NEW i \in 1 .. m + k, High(i)' PROVE i = m + p
    <3>1. i - m \in 1 .. k /\ i - m \in {p}
      BY <1>2, <1>5, <2>2 DEF Within, k
    <3> QED
      BY <1>1, <3>1
  <2> QED
    BY <1>1, <2>1, <2>2 DEF OneHigh
<1>6. ASSUME NEW p \in 1 .. k - 1, Exactly(bytes, {p, p + 1}) PROVE TwoHigh'
  <2>1. m + p \in 1 .. (m + k) - 1
    BY <1>1
  <2>2. ASSUME NEW i \in 1 .. m + k PROVE High(i)' <=> i \in {m + p, (m + p) + 1}
    <3>1. ASSUME High(i)' PROVE i \in {m + p, (m + p) + 1}
      <4>1. i - m \in 1 .. k /\ i - m \in {p, p + 1}
        BY <1>2, <1>6, <3>1 DEF Exactly, k
      <4> QED
        BY <1>1, <4>1
    <3>2. ASSUME i \in {m + p, (m + p) + 1} PROVE High(i)'
      <4>1. i - m \in 1 .. k /\ i - m \in {p, p + 1}
        BY <1>1, <3>2
      <4>2. Starts(bytes, i - m)
        BY <1>6, <4>1 DEF Exactly, k
      <4> QED
        BY <1>3, <4>1, <4>2
    <3> QED
      BY <3>1, <3>2
  <2> QED
    BY <1>1, <2>1, <2>2 DEF TwoHigh
<1> QED
  BY <1>4, <1>5, <1>6 DEF k

\* The same when the last byte there is a start byte,
LEMMA LastBefore ==
  ASSUME NEW bytes, Appended(bytes), Len(uart) >= 1, Len(bytes) >= 1,
         \A i \in 1 .. Len(uart) : High(i) <=> i = Len(uart)
  PROVE  /\ Within(bytes, {}) => OneHigh'
         /\ Exactly(bytes, {1}) => TwoHigh'
<1> DEFINE k == Len(bytes)
<1>0. PICK m \in Nat : m = Len(uart)
  BY DEF Appended
<1>1. m \in Nat /\ k \in Nat /\ Len(uart') = m + k /\ m >= 1 /\ k >= 1
  BY <1>0 DEF Appended
<1>2. \A i \in 1 .. m + k : High(i)' => i = m \/ (i - m \in 1 .. k /\ Starts(bytes, i - m))
  BY <1>0, <1>1, HighAppended
<1>3. \A i \in 1 .. m + k : i = m \/ (i - m \in 1 .. k /\ Starts(bytes, i - m)) => High(i)'
  <2>1. m \in 1 .. m /\ ~(m - m \in 1 .. k) /\ m \in 1 .. m + k
    BY <1>1
  <2>2. High(m)'
    <3>1. High(m) /\ m \in 1 .. Len(uart)
      BY <1>0, <2>1
    <3>2. uart'[m] = uart[m]
      BY <3>1 DEF Appended
    <3> QED
      BY <3>1, <3>2 DEF High
  <2> QED
    BY <1>0, <1>1, <2>2, HighAppended
<1> HIDE DEF k
<1>4. ASSUME Within(bytes, {}) PROVE OneHigh'
  <2>1. m \in 1 .. m + k
    BY <1>1
  <2>2. ASSUME NEW i \in 1 .. m + k, High(i)' PROVE i = m
    BY <1>2, <1>4, <2>2 DEF Within, k
  <2> QED
    BY <1>1, <2>1, <2>2 DEF OneHigh
<1>5. ASSUME Exactly(bytes, {1}) PROVE TwoHigh'
  <2>1. m \in 1 .. (m + k) - 1
    BY <1>1
  <2>2. ASSUME NEW i \in 1 .. m + k PROVE High(i)' <=> i \in {m, m + 1}
    <3>1. ASSUME High(i)', i # m PROVE i = m + 1
      <4>1. i - m \in 1 .. k /\ i - m \in {1}
        BY <1>2, <1>5, <3>1 DEF Exactly, k
      <4> QED
        BY <1>1, <4>1
    <3>2. ASSUME i = m + 1 PROVE High(i)'
      <4>1. i - m \in 1 .. k /\ i - m \in {1}
        BY <1>1, <3>2
      <4>2. Starts(bytes, i - m)
        BY <1>5, <4>1 DEF Exactly, k
      <4> QED
        BY <1>3, <4>1, <4>2
    <3> QED
      BY <1>3, <3>1, <3>2
  <2> QED
    BY <1>1, <2>1, <2>2 DEF TwoHigh
<1> QED
  BY <1>4, <1>5

\* and when there was nothing.
LEMMA NothingBefore ==
  ASSUME NEW bytes, Appended(bytes), Len(uart) = 0, Len(bytes) >= 1
  PROVE  /\ Within(bytes, {}) => NoHigh'
         /\ Exactly(bytes, {1}) => FirstHigh'
<1> DEFINE k == Len(bytes)
<1>1. k \in Nat /\ k >= 1 /\ Len(uart') = k
  BY DEF Appended
<1>2. \A i \in 1 .. k : uart'[0 + i] = bytes[i]
  BY DEF Appended
<1>3. \A i \in 1 .. k : High(i)' <=> Starts(bytes, i)
  BY <1>2 DEF High, Starts
<1>4. Within(bytes, {}) => NoHigh'
  BY <1>1, <1>3 DEF Within, NoHigh
<1>5. Exactly(bytes, {1}) => FirstHigh'
  BY <1>1, <1>3 DEF Exactly, FirstHigh
<1> QED
  BY <1>4, <1>5

\* The start bytes of what comes.
LEMMA WholeStarts ==
  ASSUME NEW n \in 1 .. 100, NEW bytes, Whole(bytes, n)
  PROVE  Exactly(bytes, {1}) /\ Len(bytes) = Length + 11
BY HighAnswer DEF Whole, Exactly, Starts

\* A lost byte leaves no start byte but the first.
LEMMA LostStarts ==
  ASSUME NEW n \in 1 .. 100, NEW bytes, NEW i \in 1 .. Length + 11, Lost(bytes, n, i)
  PROVE  (Exactly(bytes, {1}) \/ Within(bytes, {})) /\ Len(bytes) = Length + 10
<1>1. /\ Len(bytes) = Length + 10
      /\ \A j \in 1 .. i - 1 : bytes[j] = Answer(n)[j]
      /\ \A j \in i .. Length + 10 : bytes[j] = Answer(n)[j + 1]
  BY DEF Lost
<1>2. Length \in Nat
  BY Lengths
<1>3. ASSUME NEW j \in 1 .. Length + 10
      PROVE  Starts(bytes, j) <=> (j = 1 /\ i # 1)
  <2>1. CASE j < i
    <3>1. j \in 1 .. i - 1 /\ j \in 1 .. Length + 11 /\ i # 1
      BY <1>2, <2>1
    <3> QED
      BY <1>1, <3>1, HighAnswer DEF Starts
  <2>2. CASE ~(j < i)
    <3>1. j \in i .. Length + 10 /\ j + 1 \in 1 .. Length + 11 /\ j + 1 # 1 /\ ~(j = 1 /\ i # 1)
      BY <1>2, <2>2
    <3> QED
      BY <1>1, <3>1, HighAnswer DEF Starts
  <2> QED
    BY <2>1, <2>2
<1> QED
  BY <1>1, <1>3 DEF Exactly, Within

\* A byte added before the third of an answer.
LEMMA NoisyStarts ==
  ASSUME NEW n \in 1 .. 100, NEW bytes, NEW i \in 1 .. 2, Noisy(bytes, n, i)
  PROVE  /\ \/ Exactly(bytes, {1, 1 + 1})
            \/ Within(bytes, {1})
            \/ Within(bytes, {2})
         /\ Len(bytes) = Length + 12
<1>1. /\ Len(bytes) = Length + 12
      /\ \A j \in 1 .. i - 1 : bytes[j] = Answer(n)[j]
      /\ \A j \in i + 1 .. Length + 12 : bytes[j] = Answer(n)[j - 1]
  BY DEF Noisy
<1>2. Length \in Nat
  BY Lengths
<1>3. ASSUME NEW j \in 3 .. Length + 12 PROVE ~Starts(bytes, j)
  <2>1. j \in i + 1 .. Length + 12 /\ j - 1 \in 1 .. Length + 11 /\ j - 1 # 1
    BY <1>2
  <2> QED
    BY <1>1, <2>1, HighAnswer DEF Starts
<1>4. \A j \in 1 .. Length + 12 : j = 1 \/ j = 2 \/ j \in 3 .. Length + 12
  BY <1>2
<1>5. CASE Starts(bytes, 1) /\ Starts(bytes, 2)
  BY <1>1, <1>3, <1>4, <1>5 DEF Exactly
<1>6. CASE ~Starts(bytes, 1)
  BY <1>1, <1>3, <1>4, <1>6 DEF Within
<1>7. CASE ~Starts(bytes, 2)
  BY <1>1, <1>3, <1>4, <1>7 DEF Within
<1> QED
  BY <1>5, <1>6, <1>7

\* An answer whole, or with a byte added behind its second, is skipped to.
LEMMA SkippedTo ==
  ASSUME NEW bytes, Appended(bytes), NoHigh, requests' = <<>>, idx' = 0, sent' \in 1 .. 100,
         NEW e \in Places,
         \/ e = Length + 12 /\ Whole(bytes, sent')
         \/ Noisy(bytes, sent', e) /\ Credit' /\ added' >= 1
  PROVE  Skipping'
<1>0. PICK m \in Nat : m = Len(uart)
  BY DEF Appended
<1>1. PICK n \in 1 .. 100 : n = sent'
  OBVIOUS
<1>2. m \in Nat /\ Length \in Nat /\ e \in 3 .. Length + 12
  BY Lengths DEF Appended, Places
<1>3. Len(bytes) = Length + 11 \/ Len(bytes) = Length + 12
  BY DEF Whole, Noisy
<1>4. \A i \in 1 .. e - 1 : bytes[i] = Answer(n)[i]
  BY <1>1, <1>2 DEF Whole, Noisy
<1>5. ASSUME NEW i \in 1 .. Len(bytes), i > e PROVE ~Starts(bytes, i)
  <2>1. Noisy(bytes, n, e)
    BY <1>1, <1>2, <1>5 DEF Whole
  <2>2. Len(bytes) = Length + 12
    BY <2>1 DEF Noisy
  <2>3. i \in e + 1 .. Length + 12 /\ i - 1 \in 1 .. Length + 11 /\ i - 1 # 1
    BY <1>2, <1>5, <2>2
  <2>4. bytes[i] = Answer(n)[i - 1]
    BY <2>1, <2>3 DEF Noisy
  <2> QED
    BY <2>3, <2>4, HighAnswer DEF Starts
<1>6. Len(uart') = m + Len(bytes) /\ Len(bytes) \in Nat
  BY <1>0 DEF Appended
<1>7. Run(m, e)'
  <2>1. ASSUME NEW i \in 1 .. e - 1
        PROVE  m + i <= Len(uart') /\ uart'[m + i] = Answer(n)[i]
    <3>1. i \in 1 .. Len(bytes)
      BY <1>2, <1>3
    <3>2. uart'[m + i] = bytes[i]
      BY <1>0, <3>1 DEF Appended
    <3> QED
      BY <1>2, <1>4, <1>6, <3>1, <3>2
  <2>2. ASSUME NEW i \in 1 .. Len(uart'), i > m + e PROVE ~High(i)'
    <3>1. ~(i \in 1 .. m) /\ (i - m \in 1 .. Len(bytes) => i - m > e)
      BY <1>2, <1>6, <2>2
    <3> QED
      BY <1>0, <1>5, <3>1, HighAppended
  <2>3. CASE e = Length + 12 /\ Whole(bytes, n)
    <3>1. Len(uart') = m + (Length + 11)
      BY <1>6, <2>3 DEF Whole
    <3>2. Len(uart') < m + e /\ ~(e <= Length + 11)
      BY <1>2, <2>3, <3>1
    <3> QED
      BY <1>1, <1>2, <1>6, <2>1, <2>2, <3>2 DEF Run
  <2>4. CASE Noisy(bytes, n, e) /\ Credit' /\ added' >= 1
    <3>1. Len(uart') = m + (Length + 12)
      BY <1>6, <2>4 DEF Noisy
    <3>2. Len(uart') >= m + e /\ (e = Length + 12 => Len(uart') <= m + e)
      BY <1>2, <3>1
    <3> QED
      BY <1>1, <1>2, <1>6, <2>1, <2>2, <2>4, <3>2 DEF Run
  <2> QED
    BY <1>1, <2>3, <2>4
<1>8. ASSUME NEW i \in 1 .. m PROVE ~High(i)'
  <2>1. uart'[i] = uart[i] /\ ~High(i)
    BY <1>0 DEF Appended, NoHigh
  <2> QED
    BY <2>1 DEF High
<1> QED
  BY <1>2, <1>7, <1>8 DEF Skipping

\* An answer comes: it is whole, or one more is damaged.
LEMMA ArriveInTime ==
  ASSUME MaxAdded <= 1, TypeOK, InTime, Respond \/ RespondBroken
  PROVE  InTime'
<1>1. /\ requests # <<>> /\ requests' = Tail(requests)
      /\ UNCHANGED <<pc, sent, idx, failed>>
  BY Arrived
<1>2. PICK bytes \in Seq(Byte) : uart' = uart \o bytes /\ Comes(bytes)
  BY Arrived
<1>3. pc = "parse" /\ Awaiting /\ failed <= broken
  BY <1>1 DEF InTime, TypeOK
<1>4. Head(requests) = sent /\ requests' = <<>> /\ sent \in 1 .. 100
  <2>1. requests = <<sent>>
    BY <1>3 DEF Awaiting
  <2>2. Head(requests) \in 1 .. 100
    BY <1>1, Requested
  <2> QED
    BY <1>1, <2>1, <2>2
<1>5. Appended(bytes)
  <2>1. uart \in Seq(Byte)
    BY Typed
  <2> QED
    BY <1>2, <2>1, Joined DEF Appended
<1>6. Length \in Nat /\ Length >= 1
  BY Lengths
<1>7. /\ failed \in Nat /\ broken \in Nat /\ added \in Nat
  BY Typed
<1>8. ASSUME idx = 0, Over, ~NoHigh
      PROVE  /\ Len(uart) >= 1 /\ \A i \in 1 .. Len(uart) : High(i) <=> i = Len(uart)
             /\ Credit /\ added >= 1
  <2>1. PICK p \in 1 .. Len(uart) : High(p)
    BY <1>8 DEF NoHigh
  <2>2. p = Len(uart) /\ Credit /\ added >= 1 /\ Len(uart) \in Nat
    BY <1>8, <2>1, Typed DEF Over
  <2>3. \A i \in 1 .. Len(uart) : High(i) => i = Len(uart)
    BY <1>8 DEF Over
  <2> QED
    BY <2>1, <2>2, <2>3
<1>9. (idx = 0 /\ Over) \/ (idx = 1 /\ Len(uart) = 0 /\ Credit /\ added >= 1)
  <2>1. uart = <<>> => Len(uart) = 0
    OBVIOUS
  <2> QED
    BY <1>3, <2>1 DEF Awaiting
<1>10. CASE Whole(bytes, sent) /\ UNCHANGED <<broken, added>>
  <2>1. Exactly(bytes, {1}) /\ Len(bytes) = Length + 11
    BY <1>4, <1>10, WholeStarts
  <2>2. Len(bytes) >= 1 /\ failed' <= broken' /\ (Credit => Credit')
    BY <1>1, <1>3, <1>6, <1>10, <2>1 DEF Credit
  <2>3. CASE idx = 0 /\ Over /\ NoHigh
    <3>1. Length + 12 \in Places
      BY <1>6 DEF Places
    <3>2. Skipping'
      BY <1>1, <1>4, <1>5, <1>10, <2>3, <3>1, SkippedTo
    <3> QED
      BY <1>1, <1>3, <1>4, <2>2, <3>2 DEF InTime
  <2>4. CASE idx = 0 /\ Over /\ ~NoHigh
    <3>1. TwoHigh' /\ Credit
      BY <1>5, <1>8, <2>1, <2>2, <2>4, LastBefore
    <3> QED
      BY <1>1, <1>3, <1>4, <2>2, <2>4, <3>1 DEF InTime, Spoiled
  <2>5. CASE idx = 1 /\ Len(uart) = 0 /\ Credit
    <3>1. FirstHigh'
      BY <1>5, <2>1, <2>2, <2>5, NothingBefore
    <3> QED
      BY <1>1, <1>3, <1>4, <2>2, <2>5, <3>1 DEF InTime, Spoiled
  <2> QED
    BY <1>9, <2>3, <2>4, <2>5
<1>11. CASE broken' = broken + 1 /\ UNCHANGED added /\ \E i \in 1 .. Length + 11 : Lost(bytes, sent, i)
  <2>1. (Exactly(bytes, {1}) \/ Within(bytes, {})) /\ Len(bytes) = Length + 10
    BY <1>4, <1>11, LostStarts
  <2>2. Len(bytes) \in Nat /\ Len(bytes) >= 1 /\ failed' <= broken' /\ Credit'
    BY <1>1, <1>3, <1>6, <1>7, <1>11, <2>1 DEF Credit
  <2>3. CASE idx = 0 /\ Over /\ NoHigh
    <3>1. Exactly(bytes, {1}) => Within(bytes, {1})
      BY DEF Exactly, Within
    <3>2. 1 \in 1 .. Len(bytes)
      BY <2>2
    <3>3. NoHigh' \/ OneHigh'
      BY <1>5, <2>1, <2>3, <3>1, <3>2, NoneBefore
    <3> QED
      BY <1>1, <1>3, <1>4, <2>2, <2>3, <3>3 DEF InTime, Spoiled
  <2>4. CASE idx = 0 /\ Over /\ ~NoHigh
    <3>1. TwoHigh' \/ OneHigh'
      BY <1>5, <1>8, <2>1, <2>2, <2>4, LastBefore
    <3> QED
      BY <1>1, <1>3, <1>4, <2>2, <2>4, <3>1 DEF InTime, Spoiled
  <2>5. CASE idx = 1 /\ Len(uart) = 0
    <3>1. NoHigh' \/ FirstHigh'
      BY <1>5, <2>1, <2>2, <2>5, NothingBefore
    <3> QED
      BY <1>1, <1>3, <1>4, <2>2, <2>5, <3>1 DEF InTime, Spoiled
  <2> QED
    BY <1>9, <2>3, <2>4, <2>5
<1>12. CASE /\ broken' = broken + 1 /\ added' = added + 1 /\ added < MaxAdded
            /\ \E i \in 1 .. Length + 12 : Noisy(bytes, sent, i)
  <2>1. PICK i \in 1 .. Length + 12 : Noisy(bytes, sent, i)
    BY <1>12
  <2>2. added = 0 /\ added' >= 1
    BY <1>7, <1>12, Lengths
  <2>3. idx = 0 /\ NoHigh
    BY <1>8, <1>9, <2>2
  <2>4. failed' <= broken' /\ Credit'
    BY <1>1, <1>3, <1>7, <1>12 DEF Credit
  <2>5. CASE i \in 1 .. 2
    <3>1. /\ \/ Exactly(bytes, {1, 1 + 1})
             \/ Within(bytes, {1})
             \/ Within(bytes, {2})
          /\ Len(bytes) = Length + 12
      BY <1>4, <2>1, <2>5, NoisyStarts
    <3>2. 1 \in 1 .. Len(bytes) /\ 2 \in 1 .. Len(bytes) /\ 1 \in 1 .. Len(bytes) - 1
      BY <1>6, <3>1
    <3>3. OneHigh' \/ TwoHigh'
      BY <1>5, <2>3, <3>1, <3>2, NoneBefore
    <3> QED
      BY <1>1, <1>3, <1>4, <2>3, <2>4, <3>3 DEF InTime, Spoiled
  <2>6. CASE i \in Places
    <3>1. Skipping'
      BY <1>1, <1>4, <1>5, <2>1, <2>2, <2>3, <2>4, <2>6, SkippedTo
    <3> QED
      BY <1>1, <1>3, <1>4, <2>4, <3>1 DEF InTime
  <2>7. i \in 1 .. 2 \/ i \in Places
    BY <1>6 DEF Places
  <2> QED
    BY <2>5, <2>6, <2>7
<1> QED
  BY <1>2, <1>4, <1>10, <1>11, <1>12 DEF Comes

-------------------------------------------------------------------------------

\* A step of the parser, with what it leaves alone.
Parses ==
  /\ ReadOne /\ Takes /\ requests' = requests /\ uart[1] \in Byte /\ uart' \in Seq(Byte)
  /\ (Skips \/ Goes \/ Returns)

\* The parser reads a byte.
LEMMA ParsesOne ==
  ASSUME TypeOK, getStructuredPacket
  PROVE  Parses /\ pc = "parse" /\ late' = late
BY ParseStep DEF Parses, ReadOne

\* An exchange that ends goes wrong or not.
LEMMA ReturnCounts ==
  ASSUME TypeOK, Returns
  PROVE  pc' = "idle" /\ failed' \in {failed, failed + 1}
BY DEF Returns, Return

\* Without a start byte left, an exchange ends well enough.
LEMMA SpoiledStays ==
  ASSUME TypeOK, Parses, pc = "parse", requests = <<>>, Credit, NoHigh'
  PROVE  InTime'
<1>1. failed \in Nat /\ broken \in Nat /\ broken' = broken /\ requests' = <<>>
  BY Typed DEF Parses, ReadOne
<1>2. CASE Skips \/ Goes
  <2>1. pc' = "parse" /\ failed' = failed
    BY <1>2 DEF Skips, Goes
  <2>2. Credit' /\ failed' <= broken'
    BY <1>1, <2>1 DEF Credit
  <2> QED
    BY <1>1, <2>1, <2>2 DEF InTime, Spoiled
<1>3. CASE Returns
  <2>1. pc' = "idle" /\ failed' \in {failed, failed + 1}
    BY <1>3, ReturnCounts
  <2>2. failed' <= broken'
    BY <1>1, <2>1 DEF Credit
  <2>3. Over'
    BY DEF NoHigh, Over
  <2> QED
    BY <1>1, <2>1, <2>2, <2>3 DEF InTime
<1> QED
  BY <1>2, <1>3 DEF Parses

\* A start byte is waited for without limit.
LEMMA FirstByte ==
  ASSUME TypeOK, Parses, idx = 0
  PROVE  /\ UNCHANGED <<pc, failed>>
         /\ High(1) => idx' = 1
         /\ ~High(1) => idx' = 0
<1>1. ~Returns
  <2>1. ~(idx + 10 >= Data) /\ ~Complete
    BY Lengths DEF Complete
  <2> QED
    BY <2>1 DEF Returns
<1> QED
  BY <1>1 DEF Parses, Skips, Goes, High

\* A byte is read before the answer has come.
LEMMA AwaitingParsed ==
  ASSUME TypeOK, Parses, pc = "parse", failed <= broken, Awaiting
  PROVE  InTime'
<1>1. Len(uart) \in Nat \ {0} /\ Len(uart') = Len(uart) - 1 /\ UNCHANGED <<sent, broken, added, requests>>
  BY DEF Parses, ReadOne
<1>2. idx = 0 /\ Over /\ requests = <<sent>>
  <2>1. uart # <<>>
    BY <1>1
  <2> QED
    BY <2>1 DEF Awaiting
<1>3. pc' = "parse" /\ failed' = failed /\ (High(1) => idx' = 1) /\ (~High(1) => idx' = 0)
  BY <1>2, FirstByte
<1>4. failed' <= broken' /\ (Credit => Credit')
  BY <1>1, <1>3 DEF Credit
<1>5. CASE ~High(1)
  <2>1. ASSUME NEW i \in 1 .. Len(uart'), High(i)'
        PROVE  i = Len(uart') /\ Credit' /\ added' >= 1
    <3>1. i + 1 \in 1 .. Len(uart) /\ High(i + 1)
      BY <2>1, HighShifts DEF Parses
    <3>2. i + 1 = Len(uart) /\ Credit /\ added >= 1
      BY <1>2, <3>1 DEF Over
    <3> QED
      BY <1>1, <1>4, <3>2
  <2>2. Over'
    BY <2>1 DEF Over
  <2> QED
    BY <1>1, <1>2, <1>3, <1>4, <1>5, <2>2 DEF InTime, Awaiting
<1>6. CASE High(1)
  <2>1. 1 = Len(uart) /\ Credit /\ added >= 1
    BY <1>1, <1>2, <1>6 DEF Over
  <2>2. uart' = <<>>
    <3>1. uart' \in Seq(Byte) /\ Len(uart') = 0
      BY <1>1, <2>1 DEF Parses
    <3> QED
      BY <3>1, EmptySeq
  <2> QED
    BY <1>1, <1>2, <1>3, <1>4, <1>6, <2>1, <2>2 DEF InTime, Awaiting
<1> QED
  BY <1>5, <1>6

\* A command has been sent.
LEMMA InExchange ==
  ASSUME Types, pc = "parse"
  PROVE  sent \in 1 .. 100
<1>1. failed \in Nat /\ failed < sent /\ sent \in Nat /\ sent <= MaxCommands
  BY DEF Types, TypeOK
<1> QED
  BY <1>1, Lengths

\* A byte is read while what came before the answer is skipped.
LEMMA SkippingParsed ==
  ASSUME Types, Parses, pc = "parse", failed <= broken, requests = <<>>, Skipping
  PROVE  InTime'
<1> TypeOK
  BY DEF Types
<1>1. Len(uart) \in Nat \ {0} /\ UNCHANGED <<sent, broken, added>> /\ requests' = <<>> /\ ReadOne
  BY DEF Parses, ReadOne
<1>2. PICK j \in Nat, e \in Places : Run(j, e) /\ \A i \in 1 .. j : ~High(i)
  BY DEF Skipping
<1>3. idx = 0 /\ pc' = "parse" /\ failed' = failed /\ (High(1) => idx' = 1) /\ (~High(1) => idx' = 0)
  BY FirstByte DEF Skipping
<1>4. failed' <= broken'
  BY <1>1, <1>3
<1>5. Run(j - 1, e)'
  BY <1>1, <1>2, <1>3, RunShifts
<1>6. e \in Int /\ e >= 3 /\ Length \in Nat
  BY Lengths DEF Places
<1>7. CASE j = 0
  <2>1. uart[0 + 1] = Answer(sent)[1]
    <3>1. 1 \in 1 .. e - 1 /\ 0 + 1 >= 1
      BY <1>6
    <3> QED
      BY <1>2, <1>7, <3>1 DEF Run
  <2>2. sent \in 1 .. 100
    BY InExchange
  <2>3. High(1)
    <3>1. Answer(sent)[1] = StartHigh
      BY <2>2, AnswerBytes
    <3>2. 0 + 1 = 1
      OBVIOUS
    <3> QED
      BY <2>1, <3>1, <3>2 DEF High
  <2>4. idx' = 1 /\ Run(0 - idx, e)'
    <3>1. idx' = 1 /\ 0 - idx' = j - 1
      BY <1>3, <1>7, <2>3
    <3> QED
      BY <1>5, <3>1 DEF Run
  <2>5. idx' \in 1 .. e - 1 /\ idx' <= Length + 10 /\ Parsed'
    BY <1>6, <2>4 DEF Parsed
  <2>6. Tracking'
    BY <2>4, <2>5 DEF Tracking
  <2> QED
    BY <1>1, <1>3, <1>4, <2>6 DEF InTime
<1>8. CASE j >= 1
  <2>1. ~High(1) /\ idx' = 0
    BY <1>2, <1>3, <1>8
  <2>2. ASSUME NEW i \in 1 .. j - 1 PROVE ~High(i)'
    <3>1. 1 \in 1 .. e - 1 /\ j + 1 >= 1
      BY <1>6
    <3>2. j + 1 <= Len(uart)
      BY <1>2, <3>1 DEF Run
    <3>3. i \in 1 .. Len(uart') /\ i + 1 \in 1 .. j
      BY <1>1, <3>2 DEF ReadOne
    <3> QED
      BY <1>1, <1>2, <3>3, HighShifts
  <2>3. j - 1 \in Nat
    BY <1>8
  <2>4. Skipping'
    BY <1>5, <2>1, <2>2, <2>3 DEF Skipping
  <2> QED
    BY <1>1, <1>3, <1>4, <2>4 DEF InTime
<1> QED
  BY <1>7, <1>8

\* A byte of the answer is read.
LEMMA TrackingParsed ==
  ASSUME Types, Parses, pc = "parse", failed <= broken, requests = <<>>, Tracking
  PROVE  InTime'
<1> TypeOK
  BY DEF Types
<1>1. Len(uart) \in Nat \ {0} /\ Len(uart') = Len(uart) - 1 /\ UNCHANGED <<sent, broken, added>>
      /\ requests' = <<>> /\ ReadOne
  BY DEF Parses, ReadOne
<1>2. PICK e \in Places : idx \in 1 .. e - 1 /\ idx <= Length + 10 /\ Run(0 - idx, e) /\ Parsed
  BY DEF Tracking
<1>3. /\ e \in Int /\ e >= 3 /\ e <= Length + 12 /\ Length \in Nat /\ Length >= 1 /\ Data \in Nat
      /\ Data >= Length + 20 /\ idx \in Nat /\ sent \in 1 .. 100
  BY Lengths, InExchange, Typed DEF Places
\* The byte added is read in place of the answer's.
<1>4. CASE idx = e - 1
  <2>1. e <= Length + 11 /\ (0 - idx) + e = 1
    BY <1>2, <1>3, <1>4
  <2>2. Credit
    BY <1>1, <1>2, <2>1 DEF Run
  <2>3. ASSUME NEW i \in 1 .. Len(uart') PROVE ~High(i)'
    <3>1. i + 1 \in 1 .. Len(uart) /\ i + 1 > (0 - idx) + e
      BY <1>1, <2>1
    <3>2. ~High(i + 1)
      BY <1>2, <3>1 DEF Run
    <3> QED
      BY <1>1, <3>2, HighShifts
  <2> QED
    BY <2>2, <2>3, SpoiledStays DEF NoHigh
\* The next byte of the answer is read.
<1>5. CASE idx < e - 1
  <2>1. uart[1] = Answer(sent)[idx + 1]
    <3>1. idx + 1 \in 1 .. e - 1 /\ (0 - idx) + (idx + 1) = 1
      BY <1>2, <1>3, <1>5
    <3>2. uart[(0 - idx) + (idx + 1)] = Answer(sent)[idx + 1]
      BY <1>2, <3>1 DEF Run
    <3> QED
      BY <3>1, <3>2
  <2>2. Complete <=> idx = Length + 10
    <3>1. CASE idx >= 9
      <4>1. length = Length + 2
        BY <1>2, <3>1 DEF Parsed
      <4>2. idx - 8 = Length + 2 <=> idx = Length + 10
        BY <1>3
      <4> QED
        BY <3>1, <4>1, <4>2 DEF Complete
    <3>2. CASE ~(idx >= 9)
      BY <1>3, <3>2 DEF Complete
    <3> QED
      BY <3>1, <3>2
  <2>3. idx = 1 => uart[1] = StartLow
    <3>1. sent \in 1 .. 100
      BY <1>3
    <3>2. Answer(sent)[2] = StartLow
      BY ONLY <3>1, AnswerBytes
    <3>3. 1 + 1 = 2
      OBVIOUS
    <3> QED
      BY <2>1, <3>2, <3>3
  <2>4. ~Skips
    BY <1>2, <1>3 DEF Skips
  <2>5. CASE idx = Length + 10
    <3>1. Returns
      BY <2>2, <2>4, <2>5 DEF Parses, Goes
    <3>2. PICK kind \in Kinds, c \in Byte : Outcome(kind, c) /\ Return(kind, c)
      BY <3>1 DEF Returns
    <3>3. kind = "ok" /\ c = Code(sent)
      <4>1. type = Ack /\ code = Code(sent) /\ idx # 9 /\ Complete
        BY <1>2, <1>3, <2>2, <2>5 DEF Parsed
      <4> QED
        BY <3>2, <4>1 DEF Outcome
    <3>4. pc' = "idle" /\ failed' = failed
      BY <3>2, <3>3 DEF Return
    <3>5. Over'
      <4>1. e = Length + 12 /\ (0 - idx) + e = 2
        BY <1>3, <1>5, <2>5
      <4>2. Len(uart) <= 2 /\ (Len(uart) >= 2 => Credit /\ added >= 1)
        BY <1>2, <4>1 DEF Run
      <4>3. ASSUME NEW i \in 1 .. Len(uart') PROVE i = Len(uart') /\ Credit /\ added >= 1
        BY <1>1, <4>2
      <4>4. Credit => Credit'
        BY <1>1, <3>4 DEF Credit
      <4> QED
        BY <1>1, <4>3, <4>4 DEF Over
    <3> QED
      BY <1>1, <3>4, <3>5 DEF InTime
  <2>6. CASE idx < Length + 10
    <3>1. Goes
      <4>1. idx + 10 < Data /\ ~(idx + 10 >= Data)
        BY <1>3, <2>6
      <4>2. ~Complete
        BY <1>3, <2>2, <2>6
      <4> QED
        BY <2>3, <2>4, <4>1, <4>2 DEF Parses, Returns
    <3>2. idx' = idx + 1 /\ pc' = "parse" /\ failed' = failed
      BY <3>1 DEF Goes
    <3>3. Run(0 - idx, e)'
      <4>1. PICK k \in Nat : k = idx
        BY <1>3
      <4>2. Run(0 - k, e) /\ 0 - k \in Int
        BY <1>2, <4>1
      <4>3. Run((0 - k) - 1, e)'
        BY <1>1, <3>2, <4>2, RunShifts
      <4>4. 0 - idx' = (0 - k) - 1
        BY <3>2, <4>1
      <4> QED
        BY <4>3, <4>4 DEF Run
    <3>4. Parsed'
      <4> DEFINE b == uart[1]
      <4>1. /\ type' = IF idx = 6 THEN b ELSE type
            /\ length' = IF idx = 7 THEN b * 256 ELSE IF idx = 8 THEN length + b ELSE length
            /\ code' = IF idx = 9 THEN b ELSE code
        BY DEF Parses, Takes
      <4>2. /\ idx = 6 => b = Ack
            /\ idx = 7 => b = 0
            /\ idx = 8 => b = Length + 2
            /\ idx = 9 => b = Code(sent)
        <5>1. /\ Answer(sent)[7] = Ack /\ Answer(sent)[8] = 0 /\ Answer(sent)[9] = Length + 2
              /\ Answer(sent)[10] = Code(sent)
          BY <1>3, AnswerBytes
        <5>2. 6 + 1 = 7 /\ 7 + 1 = 8 /\ 8 + 1 = 9 /\ 9 + 1 = 10
          OBVIOUS
        <5> QED
          BY <2>1, <5>1, <5>2
      <4> HIDE DEF b
      <4>3. idx' >= 7 => type' = Ack
        BY <1>2, <1>3, <3>2, <4>1, <4>2 DEF Parsed
      <4>4. idx' = 8 => length' = 0
        BY <1>3, <3>2, <4>1, <4>2
      <4>5. idx' >= 9 => length' = Length + 2
        BY <1>2, <1>3, <3>2, <4>1, <4>2 DEF Parsed
      <4>6. idx' >= 10 => code' = Code(sent')
        BY <1>1, <1>2, <1>3, <3>2, <4>1, <4>2 DEF Parsed
      <4> QED
        BY <4>3, <4>4, <4>5, <4>6 DEF Parsed
    <3>5. idx' \in 1 .. e - 1 /\ idx' <= Length + 10
      BY <1>3, <1>5, <2>6, <3>2
    <3>6. Tracking'
      BY <3>3, <3>4, <3>5 DEF Tracking
    <3> QED
      BY <1>1, <3>2, <3>6 DEF InTime
  <2> QED
    BY <1>2, <1>3, <2>5, <2>6
<1> QED
  BY <1>2, <1>3, <1>4, <1>5

\* A byte is read when the exchange may go wrong.
LEMMA SpoiledParsed ==
  ASSUME Types, Parses, pc = "parse", failed <= broken, requests = <<>>, Spoiled
  PROVE  InTime'
<1> TypeOK
  BY DEF Types
<1>1. Len(uart) \in Nat \ {0} /\ Len(uart') = Len(uart) - 1 /\ UNCHANGED <<sent, broken, added>>
      /\ requests' = <<>> /\ ReadOne /\ Credit
  BY DEF Parses, ReadOne, Spoiled
<1>2. \A i \in 1 .. Len(uart') : i + 1 \in 1 .. Len(uart) /\ (High(i)' <=> High(i + 1))
  BY <1>1, HighShifts
<1>3. ASSUME UNCHANGED <<pc, failed>>, (idx' = 0 /\ (OneHigh' \/ TwoHigh')) \/ (idx' = 1 /\ FirstHigh')
      PROVE  InTime'
  BY <1>1, <1>3 DEF InTime, Spoiled, Credit
<1>4. CASE NoHigh
  <2>1. NoHigh'
    BY <1>2, <1>4 DEF NoHigh
  <2> QED
    BY <1>1, <2>1, SpoiledStays
<1>5. CASE idx = 0 /\ OneHigh
  <2>1. PICK j \in 1 .. Len(uart) : \A i \in 1 .. Len(uart) : High(i) => i = j
    BY <1>5 DEF OneHigh
  <2>2. CASE j = 1
    <3>1. NoHigh'
      BY <1>1, <1>2, <2>1, <2>2 DEF NoHigh
    <3> QED
      BY <1>1, <3>1, SpoiledStays
  <2>3. CASE j # 1
    <3>1. ~High(1)
      BY <1>1, <2>1, <2>3
    <3>2. UNCHANGED <<pc, failed>> /\ idx' = 0
      BY <1>5, <3>1, FirstByte
    <3>3. j - 1 \in 1 .. Len(uart')
      BY <1>1, <2>3
    <3>4. ASSUME NEW i \in 1 .. Len(uart'), High(i)' PROVE i = j - 1
      <4>1. i + 1 \in 1 .. Len(uart) /\ High(i + 1)
        BY <1>2, <3>4
      <4> QED
        BY <2>1, <4>1
    <3> QED
      BY <1>3, <3>2, <3>3, <3>4 DEF OneHigh
  <2> QED
    BY <2>2, <2>3
<1>6. CASE idx = 0 /\ TwoHigh
  <2>1. PICK j \in 1 .. Len(uart) - 1 : \A i \in 1 .. Len(uart) : High(i) <=> i \in {j, j + 1}
    BY <1>6 DEF TwoHigh
  <2>2. CASE j = 1
    <3>1. High(1) /\ Len(uart) >= 2
      BY <1>1, <2>1, <2>2
    <3>2. UNCHANGED <<pc, failed>> /\ idx' = 1
      BY <1>6, <3>1, FirstByte
    <3>3. Len(uart') >= 1 /\ \A i \in 1 .. Len(uart') : High(i)' <=> i = 1
      BY <1>1, <1>2, <2>1, <2>2, <3>1
    <3> QED
      BY <1>3, <3>2, <3>3 DEF FirstHigh
  <2>3. CASE j # 1
    <3>1. ~High(1)
      BY <1>1, <2>1, <2>3
    <3>2. UNCHANGED <<pc, failed>> /\ idx' = 0
      BY <1>6, <3>1, FirstByte
    <3>3. j - 1 \in 1 .. Len(uart') - 1
      BY <1>1, <2>3
    <3>4. ASSUME NEW i \in 1 .. Len(uart') PROVE High(i)' <=> i \in {j - 1, (j - 1) + 1}
      <4>1. i + 1 \in 1 .. Len(uart) /\ (High(i)' <=> High(i + 1))
        BY <1>2
      <4>2. High(i + 1) <=> i + 1 \in {j, j + 1}
        BY <2>1, <4>1
      <4>3. i + 1 \in {j, j + 1} <=> i \in {j - 1, (j - 1) + 1}
        OBVIOUS
      <4> QED
        BY <4>1, <4>2, <4>3
    <3> QED
      BY <1>3, <3>2, <3>3, <3>4 DEF TwoHigh
  <2> QED
    BY <2>2, <2>3
<1>7. CASE idx = 1 /\ FirstHigh
  <2>1. NoHigh'
    BY <1>1, <1>2, <1>7 DEF FirstHigh, NoHigh
  <2> QED
    BY <1>1, <2>1, SpoiledStays
<1> QED
  BY <1>4, <1>5, <1>6, <1>7 DEF Spoiled

\* Every step keeps the invariant.
LEMMA InTimeStep ==
  ASSUME MaxAdded <= 1, Types, Inv, [Next]_vars
  PROVE  Inv'
<1> SUFFICES ASSUME late' = 0 PROVE InTime'
  BY DEF Inv
<1> TypeOK
  BY DEF Types
<1>1. CASE UNCHANGED vars
  BY <1>1 DEF vars, Inv, InTime, Awaiting, Skipping, Tracking, Spoiled, Over, Run, Parsed, Credit, High,
              NoHigh, OneHigh, TwoHigh, FirstHigh
<1>2. CASE Request
  <2>1. late' = late
    BY <1>2 DEF Request
  <2> QED
    BY <1>2, <2>1, RequestInTime DEF Inv
<1>3. CASE Respond \/ RespondBroken
  <2>1. late' = late
    BY <1>3, Arrived
  <2> QED
    BY <1>3, <2>1, ArriveInTime DEF Inv
<1>4. CASE getStructuredPacket
  <2>1. Parses /\ pc = "parse" /\ late' = late
    BY <1>4, ParsesOne
  <2>2. InTime /\ failed <= broken
    BY <2>1 DEF Inv, InTime
  <2>3. Awaiting \/ (requests = <<>> /\ (Skipping \/ Tracking \/ Spoiled))
    BY <2>1, <2>2 DEF InTime
  <2> QED
    BY <2>1, <2>2, <2>3, AwaitingParsed, SkippingParsed, TrackingParsed, SpoiledParsed
<1>5. CASE TimeOut
  <2>1. late' \in {late, late + 1} /\ late \in Nat
    BY <1>5, Typed DEF TimeOut
  <2>2. late = 0
    BY <2>1
  <2> QED
    BY <1>5, <2>2, TimeOutInTime DEF Inv
<1> QED
  BY <1>1, <1>2, <1>3, <1>4, <1>5 DEF Next

\* As long as every answer comes in time, a damaged one costs one command: what is left of it
\* is skipped by the next exchange.  Of one byte added: with two, TLC finds the contrary.
THEOREM DamageCostsOne ==
  ASSUME MaxAdded <= 1
  PROVE  Spec => []FaultCostsOne
<1>1. Init => Inv
  BY InTimeInit DEF Inv
<1>2. Types /\ Inv /\ [Next]_vars => Inv'
  BY InTimeStep
<1>3. Inv => FaultCostsOne
  BY DEF Inv, InTime, FaultCostsOne
<1> QED
  BY <1>1, <1>2, <1>3, TypesInit, TypesStep, PTL DEF Spec

-------------------------------------------------------------------------------
(* An answer is not taken for a later one than by as many commands as answers were late. *)

\* of[i]: the command byte i of the UART answers.
LastOf(of, i) == i = Len(uart) \/ of[i + 1] > of[i]

\* The sensor answers in order, and a code is in the answer to its own command.
Tags(of) ==
  /\ Len(of) = Len(uart)
  /\ \A i \in 1 .. Len(uart) : of[i] >= 1 /\ of[i] <= sent - Len(requests)
  /\ \A i, j \in 1 .. Len(uart) : i <= j => of[i] <= of[j]
  /\ \A i \in 1 .. Len(uart), k \in 1 .. 100 : uart[i] = Code(k) => of[i] = k
  /\ \A i \in 1 .. Len(requests) : requests[i] = (sent - Len(requests)) + i

\* A start byte at the end of an answer has been added to it; the next answer is then not
\* damaged by one.
Ends(of) ==
  \A i \in 1 .. Len(uart) : High(i) /\ LastOf(of, i) =>
    /\ added >= 1
    /\ \A l \in 1 .. Len(uart) : l >= i + 2 /\ of[l] = of[i + 1] => ~High(l)

\* Of two start bytes in one answer, one has been added to it: beside the first, at the end,
\* or behind bytes that are intact.
Intact(of, i, j) == \A l \in i .. j - 1 : uart[l] = Answer(of[i])[l - i + 1]

Pairs(of) ==
  \A i, j \in 1 .. Len(uart) : i < j /\ High(i) /\ High(j) /\ of[i] = of[j] =>
    /\ added >= 1
    /\ j = i + 1 \/ LastOf(of, j) \/ (j - i <= Length + 10 /\ Intact(of, i, j))
    /\ \A l \in 1 .. Len(uart) : l > j /\ High(l) => of[l] > of[i]

\* The fields of a packet that is an answer, to whichever command.
ParsedAny ==
  /\ idx >= 7 => type = Ack
  /\ idx = 8 => length = 0
  /\ idx >= 9 => length = Length + 2

\* Byte i has been added to the answer being read, which is intact up to it.
Tracked(of, i) ==
  /\ idx + i <= Length + 11 /\ of[i] = of[1] /\ ParsedAny
  /\ \A l \in 1 .. i - 1 : uart[l] = Answer(of[1])[idx + l]

\* Byte i does not lead into the answer to command b or to an earlier one.
Fresh(of, i, b) == of[i] > b \/ (of[i] = b /\ LastOf(of, i))

IdleLag(of) ==
  /\ Len(requests) <= late
  /\ \A i \in 1 .. Len(uart) : High(i) => Fresh(of, i, sent - late)

SeekLag(of) ==
  /\ Len(requests) <= late + 1
  /\ \A i \in 1 .. Len(uart) : High(i) => Fresh(of, i, (sent - late) - 1)

ReadLag(of) ==
  /\ \/ Len(requests) <= late
     \/ idx = 1 /\ Len(uart) = 0 /\ added >= 1 /\ Len(requests) <= late + 1
  /\ \A i \in 1 .. Len(uart) : of[i] >= sent - late
  /\ \A i \in 1 .. Len(uart) : High(i) =>
       Fresh(of, i, sent - late) \/ (idx = 1 /\ i = 1) \/ Tracked(of, i)
  /\ idx >= 10 => \A k \in 1 .. 100 : code = Code(k) => k >= sent - late

Lag(of) ==
  /\ pc = "idle" => IdleLag(of)
  /\ pc = "parse" /\ idx = 0 => SeekLag(of)
  /\ pc = "parse" /\ idx > 0 => ReadLag(of)

LagInv(of) == of \in Seq(Nat) /\ Tags(of) /\ Ends(of) /\ Pairs(of) /\ Lag(of) /\ LagBounded

-------------------------------------------------------------------------------
(* The bytes that come. *)

Coded(bytes, n) == \A i \in 1 .. Len(bytes), c \in 1 .. 100 : bytes[i] = Code(c) => c = n
Plain(bytes) == \A i \in 1 .. Len(bytes) : Starts(bytes, i) => i = 1
Paired(bytes, n) ==
  \A i, j \in 1 .. Len(bytes) : i < j /\ Starts(bytes, i) /\ Starts(bytes, j) =>
    /\ \/ j = i + 1
       \/ j = Len(bytes)
       \/ j - i <= Length + 10 /\ \A l \in i .. j - 1 : bytes[l] = Answer(n)[l - i + 1]
    /\ \A l \in 1 .. Len(bytes) : l > j => ~Starts(bytes, l)

\* An answer holds no code but its own.
LEMMA CodeAnswer ==
  ASSUME Length < 99, NEW n \in 1 .. 100, NEW i \in 1 .. Length + 11, NEW c \in 1 .. 100,
         Answer(n)[i] = Code(c)
  PROVE  c = n
<1>1. i = 1 \/ i = 2 \/ i \in 3 .. 6 \/ i = 7 \/ i = 8 \/ i = 9 \/ i = 10 \/ i \in 11 .. Length + 10
        \/ i = Length + 11
  BY Lengths
<1>2. /\ StartHigh # Code(c) /\ StartLow # Code(c) /\ Address # Code(c) /\ Ack # Code(c)
      /\ 0 # Code(c) /\ Length + 2 # Code(c)
  BY Lengths DEF StartHigh, StartLow, Address, Ack, Code
<1>3. Code(n) = Code(c) => c = n
  BY DEF Code
<1>4. /\ Answer(n)[1] = StartHigh /\ Answer(n)[2] = StartLow
      /\ \A j \in 3 .. 6 : Answer(n)[j] = Address
      /\ Answer(n)[7] = Ack /\ Answer(n)[8] = 0 /\ Answer(n)[9] = Length + 2
      /\ Answer(n)[10] = Code(n)
      /\ \A j \in 11 .. Length + 10 : Answer(n)[j] = 0
      /\ Answer(n)[Length + 11] = Code(n)
  BY AnswerBytes
<1> DEFINE a == Answer(n)
           d == Code(n)
           e == Code(c)
<1>5. a[i] = e
  OBVIOUS
<1> HIDE DEF a, d, e
<1> QED
  BY ONLY <1>1, <1>2, <1>3, <1>4, <1>5 DEF a, d, e

\* Nor is a byte that is added a code.
LEMMA NoiseCode ==
  ASSUME NEW b \in NoiseBytes, NEW c \in 1 .. 100
  PROVE  b # Code(c)
BY DEF NoiseBytes, StartHigh, StartLow, Code

\* The start bytes of an answer that a byte has been added to.
LEMMA NoisyPaired ==
  ASSUME NEW n \in 1 .. 100, NEW bytes, NEW p \in 1 .. Length + 12, Noisy(bytes, n, p)
  PROVE  Paired(bytes, n)
<1>1. /\ Len(bytes) = Length + 12 /\ Length \in Nat
      /\ \A j \in 1 .. p - 1 : bytes[j] = Answer(n)[j]
      /\ \A j \in p + 1 .. Length + 12 : bytes[j] = Answer(n)[j - 1]
  BY Lengths DEF Noisy
<1>2. ASSUME NEW i \in 1 .. Length + 12, Starts(bytes, i)
      PROVE  (i = 1 /\ p >= 2) \/ i = p \/ (i = 2 /\ p = 1)
  <2>1. CASE i < p
    <3>1. i \in 1 .. p - 1 /\ i \in 1 .. Length + 11 /\ p >= 2
      BY <1>1, <2>1
    <3> QED
      BY <1>1, <1>2, <3>1, HighAnswer DEF Starts
  <2>2. CASE i > p
    <3>1. i \in p + 1 .. Length + 12 /\ i - 1 \in 1 .. Length + 11
      BY <1>1, <2>2
    <3>2. i - 1 = 1
      BY <1>1, <1>2, <3>1, HighAnswer DEF Starts
    <3> QED
      BY <2>2, <3>2
  <2> QED
    BY <2>1, <2>2
<1>3. ASSUME NEW i \in 1 .. Length + 12, NEW j \in 1 .. Length + 12,
             i < j, Starts(bytes, i), Starts(bytes, j)
      PROVE  /\ \/ j = i + 1
                \/ j = Length + 12
                \/ j - i <= Length + 10 /\ \A l \in i .. j - 1 : bytes[l] = Answer(n)[l - i + 1]
             /\ \A l \in 1 .. Length + 12 : l > j => ~Starts(bytes, l)
  <2>1. /\ (i = 1 /\ p >= 2) \/ i = p \/ (i = 2 /\ p = 1)
        /\ (j = 1 /\ p >= 2) \/ j = p \/ (j = 2 /\ p = 1)
    BY <1>2, <1>3
  <2>2. (p = 1 /\ i = 1 /\ j = 2) \/ (p >= 2 /\ i = 1 /\ j = p)
    BY <1>3, <2>1
  <2>3. \A l \in 1 .. Length + 12 : l > j => ~Starts(bytes, l)
    BY <1>2, <2>2
  <2>4. CASE p = 1
    BY <2>2, <2>3, <2>4
  <2>5. CASE p >= 2
    <3>1. \A l \in i .. j - 1 : l \in 1 .. p - 1 /\ l - i + 1 = l
      BY <2>2, <2>5
    <3>2. j - i <= Length + 10 \/ j = Length + 12
      BY <1>1, <2>2, <2>5
    <3> QED
      BY <1>1, <2>3, <3>1, <3>2
  <2> QED
    BY <2>2, <2>4, <2>5
<1> QED
  BY <1>1, <1>3 DEF Paired

\* Every answer that comes holds its own code, and a second start byte only when
\* a byte has been added.
LEMMA ComesPlain ==
  ASSUME Length < 99, TypeOK, requests # <<>>, NEW bytes \in Seq(Byte), Comes(bytes),
         NEW n, n = Head(requests)
  PROVE  /\ Len(bytes) \in Nat /\ Len(bytes) >= 2
         /\ Coded(bytes, n) /\ Paired(bytes, n)
         /\ \/ Plain(bytes) /\ added' = added
            \/ added' = added + 1 /\ added < MaxAdded
<1>1. n \in 1 .. 100 /\ Length \in Nat /\ Length >= 1
  BY Requested, Lengths
<1>2. Plain(bytes) => Paired(bytes, n)
  <2> SUFFICES ASSUME Plain(bytes), NEW i \in 1 .. Len(bytes), NEW j \in 1 .. Len(bytes), i < j,
                      Starts(bytes, i), Starts(bytes, j)
               PROVE  FALSE
    BY DEF Paired
  <2>1. i = 1 /\ j = 1
    BY DEF Plain
  <2> QED
    BY <2>1
<1>3. CASE Whole(bytes, n) /\ UNCHANGED <<broken, added>>
  <2>1. Plain(bytes) /\ Len(bytes) = Length + 11
    <3>1. Exactly(bytes, {1}) /\ Len(bytes) = Length + 11
      BY <1>1, <1>3, WholeStarts
    <3> QED
      BY <3>1 DEF Exactly, Plain
  <2>2. \A j \in 1 .. Length + 11 : bytes[j] = Answer(n)[j]
    BY <1>3 DEF Whole
  <2>3. Coded(bytes, n)
    <3>1. ASSUME NEW j \in 1 .. Length + 11, NEW c \in 1 .. 100, bytes[j] = Code(c) PROVE c = n
      <4>1. Answer(n)[j] = Code(c)
        BY <2>2, <3>1
      <4> QED
        BY <1>1, <4>1, CodeAnswer
    <3> QED
      BY <2>1, <3>1 DEF Coded
  <2> QED
    BY <1>1, <1>2, <1>3, <2>1, <2>3
<1>4. CASE UNCHANGED added /\ \E i \in 1 .. Length + 11 : Lost(bytes, n, i)
  <2>1. PICK i \in 1 .. Length + 11 : Lost(bytes, n, i)
    BY <1>4
  <2>2. Plain(bytes) /\ Len(bytes) = Length + 10
    BY <1>1, <2>1, LostStarts DEF Exactly, Within, Plain
  <2>3. ASSUME NEW j \in 1 .. Length + 10
        PROVE  \E l \in 1 .. Length + 11 : bytes[j] = Answer(n)[l]
    <3>1. CASE j < i
      <4>1. j \in 1 .. i - 1 /\ j \in 1 .. Length + 11
        BY <1>1, <3>1
      <4> QED
        BY <2>1, <4>1 DEF Lost
    <3>2. CASE ~(j < i)
      <4>1. j \in i .. Length + 10 /\ j + 1 \in 1 .. Length + 11
        BY <1>1, <3>2
      <4> QED
        BY <2>1, <4>1 DEF Lost
    <3> QED
      BY <3>1, <3>2
  <2>4. Coded(bytes, n)
    <3>1. ASSUME NEW j \in 1 .. Length + 10, NEW c \in 1 .. 100, bytes[j] = Code(c) PROVE c = n
      <4>1. PICK l \in 1 .. Length + 11 : bytes[j] = Answer(n)[l]
        BY <2>3
      <4>2. Answer(n)[l] = Code(c)
        BY <3>1, <4>1
      <4> QED
        BY <1>1, <4>2, CodeAnswer
    <3> QED
      BY <2>2, <3>1 DEF Coded
  <2> QED
    BY <1>1, <1>2, <1>4, <2>2, <2>4
<1>5. CASE /\ added' = added + 1 /\ added < MaxAdded
           /\ \E i \in 1 .. Length + 12 : Noisy(bytes, n, i)
  <2>1. PICK i \in 1 .. Length + 12 : Noisy(bytes, n, i)
    BY <1>5
  <2>2. Paired(bytes, n) /\ Len(bytes) = Length + 12
    BY <1>1, <2>1, NoisyPaired DEF Noisy
  <2>3. ASSUME NEW j \in 1 .. Length + 12
        PROVE  bytes[j] \in NoiseBytes \/ \E l \in 1 .. Length + 11 : bytes[j] = Answer(n)[l]
    <3>1. CASE j < i
      <4>1. j \in 1 .. i - 1 /\ j \in 1 .. Length + 11
        BY <1>1, <3>1
      <4> QED
        BY <2>1, <4>1 DEF Noisy
    <3>2. CASE j > i
      <4>1. j \in i + 1 .. Length + 12 /\ j - 1 \in 1 .. Length + 11
        BY <1>1, <3>2
      <4> QED
        BY <2>1, <4>1 DEF Noisy
    <3>3. CASE j = i
      BY <2>1, <3>3 DEF Noisy
    <3> QED
      BY <3>1, <3>2, <3>3
  <2>4. Coded(bytes, n)
    <3>1. ASSUME NEW j \in 1 .. Length + 12, NEW c \in 1 .. 100, bytes[j] = Code(c) PROVE c = n
      <4>1. bytes[j] \notin NoiseBytes
        BY <3>1, NoiseCode
      <4>2. PICK l \in 1 .. Length + 11 : bytes[j] = Answer(n)[l]
        BY <2>3, <4>1
      <4>3. Answer(n)[l] = Code(c)
        BY <3>1, <4>2
      <4> QED
        BY <1>1, <4>3, CodeAnswer
    <3> QED
      BY <2>2, <3>1 DEF Coded
  <2> QED
    BY <1>1, <1>5, <2>2, <2>4
<1> QED
  BY <1>3, <1>4, <1>5 DEF Comes

-------------------------------------------------------------------------------

\* The invariant holds at first, of no bytes.
LEMMA LagInit == Init => LagInv(<<>>)
<1> SUFFICES ASSUME Init PROVE LagInv(<<>>)
  OBVIOUS
<1>1. /\ pc = "idle" /\ sent = 0 /\ uart = <<>> /\ late = 0 /\ requests = <<>>
      /\ last = [kind |-> "none", code |-> 0]
  BY DEF Init
<1>2. <<>> \in Seq(Nat) /\ Len(uart) = 0 /\ Len(requests) = 0 /\ Len(<<>>) = 0
  BY <1>1
<1>3. Tags(<<>>) /\ Ends(<<>>) /\ Pairs(<<>>)
  BY <1>2 DEF Tags, Ends, Pairs
<1>4. Lag(<<>>)
  BY <1>1, <1>2 DEF Lag, IdleLag
<1>5. LagBounded
  BY <1>1 DEF LagBounded, Answered
<1> QED
  BY <1>2, <1>3, <1>4, <1>5 DEF LagInv

\* A command is sent: the limit moves by one, and so does what is due.
LEMMA RequestLag ==
  ASSUME TypeOK, NEW of, LagInv(of), Request
  PROVE  LagInv(of)'
<1>1. /\ pc = "idle" /\ sent' = sent + 1 /\ requests' = Append(requests, sent + 1)
      /\ pc' = "parse" /\ idx' = 0
      /\ UNCHANGED <<uart, late, added>>
  BY DEF Request
<1>2. /\ sent \in Nat /\ requests \in Seq(Nat) /\ Len(requests) \in Nat /\ Len(uart) \in Nat
      /\ late \in Nat
  BY Typed
<1>3. /\ Len(requests') = Len(requests) + 1
      /\ \A i \in 1 .. Len(requests) : requests'[i] = requests[i]
      /\ requests'[Len(requests) + 1] = sent + 1
  BY <1>1, <1>2, AppendProperties
<1>4. sent' - Len(requests') = sent - Len(requests)
  BY <1>1, <1>2, <1>3
<1>5. Tags(of)'
  <2>1. Tags(of)
    BY DEF LagInv
  <2>2. ASSUME NEW i \in 1 .. Len(requests')
        PROVE  requests'[i] = (sent' - Len(requests')) + i
    <3>1. CASE i <= Len(requests)
      <4>1. i \in 1 .. Len(requests)
        BY <1>2, <3>1
      <4>2. requests[i] = (sent - Len(requests)) + i
        BY <2>1, <4>1 DEF Tags
      <4> QED
        BY <1>3, <1>4, <4>1, <4>2
    <3>2. CASE ~(i <= Len(requests))
      <4>1. i = Len(requests) + 1
        BY <1>2, <1>3, <3>2
      <4> QED
        BY <1>2, <1>3, <1>4, <4>1
    <3> QED
      BY <3>1, <3>2
  <2> QED
    BY <1>1, <1>4, <2>1, <2>2 DEF Tags
<1>6. Ends(of)' /\ Pairs(of)'
  BY <1>1 DEF LagInv, Ends, Pairs, High, LastOf, Intact
<1>7. Lag(of)'
  <2>1. IdleLag(of)
    BY <1>1 DEF LagInv, Lag
  <2>2. Len(requests') <= late' + 1
    BY <1>1, <1>2, <1>3, <2>1 DEF IdleLag
  <2>3. (sent' - late') - 1 = sent - late
    BY <1>1, <1>2
  <2>4. ASSUME NEW i \in 1 .. Len(uart'), High(i)' PROVE Fresh(of, i, (sent - late) - 1)'
    BY <1>1, <2>1, <2>3, <2>4 DEF IdleLag, Fresh, LastOf, High
  <2>5. SeekLag(of)'
    BY <2>2, <2>4 DEF SeekLag
  <2> QED
    BY <1>1, <2>5 DEF Lag
<1>8. LagBounded'
  BY <1>1 DEF LagBounded, Answered
<1> QED
  BY <1>5, <1>6, <1>7, <1>8 DEF LagInv

\* The limit passes: of a command that is not answered, the answer is late.
LEMMA TimeOutLag ==
  ASSUME TypeOK, NEW of, LagInv(of), TimeOut
  PROVE  LagInv(of)'
<1>1. /\ pc = "parse" /\ uart = <<>> /\ Return("timeout", code)
      /\ UNCHANGED <<sent, requests, uart, idx, added>>
      /\ (requests = <<>> /\ late' = late) \/ late' = late + 1
  BY DEF TimeOut
<1>2. /\ sent \in Nat /\ requests \in Seq(Nat) /\ Len(requests) \in Nat /\ Len(uart) = 0
      /\ late \in Nat /\ idx \in Nat
  BY <1>1, Typed
<1>3. Tags(of)' /\ Ends(of)' /\ Pairs(of)'
  BY <1>1 DEF LagInv, Tags, Ends, Pairs, High, LastOf, Intact
<1>4. Len(requests) <= late'
  <2>1. CASE requests = <<>> /\ late' = late
    <3>1. Len(requests) = 0
      BY <2>1
    <3> QED
      BY <1>2, <2>1, <3>1
  <2>2. CASE late' = late + 1
    <3>1. Len(requests) <= late + 1
      BY <1>1, <1>2 DEF LagInv, Lag, SeekLag, ReadLag
    <3> QED
      BY <2>2, <3>1
  <2> QED
    BY <1>1, <2>1, <2>2
<1>5. pc' = "idle" /\ last' = [kind |-> "timeout", code |-> code]
  BY <1>1 DEF Return
<1>6. Lag(of)'
  <2>1. IdleLag(of)'
    BY <1>1, <1>2, <1>4 DEF IdleLag
  <2> QED
    BY <1>5, <2>1 DEF Lag
<1>7. LagBounded'
  BY <1>5 DEF LagBounded, Answered
<1> QED
  BY <1>3, <1>6, <1>7 DEF LagInv

-------------------------------------------------------------------------------

\* The tags when bytes have come that answer command n.
Tagged(bytes, of, new, n) ==
  /\ Appended(bytes) /\ new \in Seq(Nat)
  /\ Len(of) = Len(uart) /\ Len(new) = Len(uart')
  /\ \A i \in 1 .. Len(uart) : new[i] = of[i]
  /\ \A i \in 1 .. Len(uart') : i > Len(uart) => new[i] = n

\* They are later than all before.
Later(of, n) == n \in Nat /\ \A i \in 1 .. Len(uart) : of[i] \in Nat /\ of[i] < n

\* Where the answers end is as it was, and where the new one ends.
LEMMA LastAppended ==
  ASSUME NEW bytes, NEW of, NEW new, NEW n, Tagged(bytes, of, new, n), Later(of, n),
         Len(bytes) >= 2
  PROVE  /\ \A i \in 1 .. Len(uart) : LastOf(new, i)' <=> LastOf(of, i)
         /\ \A i \in 1 .. Len(uart') : i > Len(uart) => (LastOf(new, i)' <=> i = Len(uart'))
<1>1. PICK m \in Nat, k \in Nat : m = Len(uart) /\ k = Len(bytes) /\ k >= 2 /\ Len(uart') = m + k
  BY DEF Tagged, Appended
<1>2. /\ \A i \in 1 .. m : new[i] = of[i] /\ of[i] \in Nat /\ of[i] < n
      /\ \A i \in 1 .. m + k : i > m => new[i] = n
      /\ n \in Nat
  BY <1>1 DEF Tagged, Later
<1>3. ASSUME NEW i \in 1 .. m PROVE LastOf(new, i)' <=> LastOf(of, i)
  <2>1. i # m + k
    BY <1>1
  <2>2. CASE i = m
    <3>1. new[i + 1] > new[i]
      <4>1. i + 1 \in 1 .. m + k /\ i + 1 > m
        BY <1>1, <2>2
      <4>2. new[i + 1] = n /\ new[i] = of[i] /\ of[i] < n /\ of[i] \in Nat
        BY <1>2, <4>1
      <4> QED
        BY <1>2, <4>2
    <3> QED
      BY <1>1, <2>2, <3>1 DEF LastOf
  <2>3. CASE i # m
    <3>1. i + 1 \in 1 .. m
      BY <1>1, <2>3
    <3>2. new[i + 1] = of[i + 1] /\ new[i] = of[i]
      BY <1>2, <3>1
    <3> QED
      BY <1>1, <2>1, <2>3, <3>2 DEF LastOf
  <2> QED
    BY <2>2, <2>3
<1>4. ASSUME NEW i \in 1 .. m + k, i > m PROVE LastOf(new, i)' <=> i = m + k
  <2>1. CASE i = m + k
    BY <1>1, <2>1 DEF LastOf
  <2>2. CASE i # m + k
    <3>1. i + 1 \in 1 .. m + k /\ i + 1 > m
      BY <1>1, <1>4, <2>2
    <3>2. new[i + 1] = n /\ new[i] = n
      BY <1>2, <1>4, <3>1
    <3>3. ~(new[i + 1] > new[i])
      BY <1>2, <3>2
    <3> QED
      BY <1>1, <2>2, <3>3 DEF LastOf
  <2> QED
    BY <2>1, <2>2
<1> QED
  BY <1>1, <1>3, <1>4

\* The sensor answers the next command.
LEMMA TagsAppended ==
  ASSUME TypeOK, requests # <<>>, requests' = Tail(requests), sent' = sent,
         NEW bytes, NEW of, NEW new, NEW n, n = Head(requests),
         of \in Seq(Nat), Tags(of), Tagged(bytes, of, new, n), Coded(bytes, n)
  PROVE  Tags(new)' /\ Later(of, n) /\ n = (sent - Len(requests)) + 1
<1>1. PICK m \in Nat, k \in Nat : m = Len(uart) /\ k = Len(bytes) /\ Len(uart') = m + k
  BY DEF Tagged, Appended
<1> DEFINE a == sent - Len(requests)
           r == Len(requests)
<1>2. r \in Nat /\ a \in Int /\ r = Len(requests) /\ a = sent - Len(requests) /\ r >= 1
  <2>1. Len(requests) \in Nat \ {0}
    BY Requested
  <2>2. sent \in Nat
    BY Typed
  <2> QED
    BY <2>1, <2>2
<1> HIDE DEF a, r
<1>3. Len(requests') = r - 1 /\ \A i \in 1 .. r - 1 : requests'[i] = requests[i + 1]
  BY <1>2, Requested
<1>4. n = a + 1 /\ n >= 1 /\ n \in Nat /\ n \in 1 .. 100
  <2>1. n = requests[1] /\ n \in 1 .. 100
    BY Requested
  <2>2. requests[1] = a + 1
    <3>1. 1 \in 1 .. Len(requests)
      BY <1>2
    <3>2. \A i \in 1 .. Len(requests) : requests[i] = (sent - Len(requests)) + i
      BY DEF Tags
    <3>3. requests[1] = (sent - Len(requests)) + 1
      BY <3>1, <3>2
    <3> QED
      BY <1>2, <3>3
  <2> QED
    BY ONLY <2>1, <2>2
<1>5. sent' - Len(requests') = n
  <2>1. sent \in Nat
    BY Typed
  <2> QED
    BY <1>2, <1>3, <1>4, <2>1
<1>6. \A i \in 1 .. m : of[i] \in Nat /\ of[i] >= 1 /\ of[i] <= a
  <2>1. \A i \in 1 .. m : of[i] \in Nat
    BY <1>1, ElementOfSeq DEF Tags
  <2> QED
    BY <1>1, <1>2, <2>1 DEF Tags
<1>7. Later(of, n)
  BY <1>1, <1>2, <1>4, <1>6 DEF Later
<1>8. /\ \A i \in 1 .. m : new[i] = of[i]
      /\ \A i \in 1 .. m + k : i > m => new[i] = n
      /\ Len(new) = Len(uart')
  BY <1>1 DEF Tagged
<1>9. \A i \in 1 .. m + k : i \in 1 .. m \/ i > m
  BY <1>1
<1>10. ASSUME NEW i \in 1 .. m + k PROVE new[i] \in Nat /\ new[i] >= 1 /\ new[i] <= n
  <2>1. CASE i \in 1 .. m
    <3>1. new[i] = of[i] /\ of[i] \in Nat /\ of[i] >= 1 /\ of[i] <= a
      BY <1>6, <1>8, <2>1
    <3>2. a \in Int /\ n = a + 1
      BY <1>2, <1>4
    <3> QED
      BY ONLY <3>1, <3>2
  <2>2. CASE i > m
    <3>1. new[i] = n
      BY <1>8, <2>2
    <3> QED
      BY <1>4, <3>1
  <2> QED
    BY <1>9, <2>1, <2>2
<1>11. ASSUME NEW i \in 1 .. m + k, NEW j \in 1 .. m + k, i <= j PROVE new[i] <= new[j]
  <2>1. CASE j > m
    BY <1>8, <1>10, <2>1
  <2>2. CASE ~(j > m)
    <3>1. i \in 1 .. m /\ j \in 1 .. m
      BY <1>1, <1>11, <2>2
    <3>2. of[i] <= of[j]
      BY <1>1, <1>11, <3>1 DEF Tags
    <3> QED
      BY <1>8, <3>1, <3>2
  <2> QED
    BY <2>1, <2>2
<1>12. ASSUME NEW i \in 1 .. m + k, NEW c \in 1 .. 100, uart'[i] = Code(c) PROVE new[i] = c
  <2>1. CASE i \in 1 .. m
    <3>1. uart[i] = Code(c)
      BY <1>1, <1>12, <2>1 DEF Tagged, Appended
    <3>2. of[i] = c
      BY <1>1, <2>1, <3>1 DEF Tags
    <3> QED
      BY <1>8, <2>1, <3>2
  <2>2. CASE i > m
    <3>1. i - m \in 1 .. k /\ m + (i - m) = i
      BY <1>1, <2>2
    <3>2. bytes[i - m] = Code(c)
      BY <1>1, <1>12, <3>1 DEF Tagged, Appended
    <3>3. c = n
      BY <1>1, <3>1, <3>2 DEF Coded
    <3> QED
      BY <1>8, <2>2, <3>3
  <2> QED
    BY <1>9, <2>1, <2>2
<1>13. ASSUME NEW i \in 1 .. Len(requests') PROVE requests'[i] = n + i
  <2>1. i + 1 \in 1 .. r /\ i \in 1 .. r - 1
    BY <1>2, <1>3
  <2>2. requests[i + 1] = a + (i + 1)
    BY <1>2, <2>1 DEF Tags
  <2>3. a \in Int /\ i \in Int
    BY <1>2, <1>3
  <2> QED
    BY <1>3, <1>4, <2>1, <2>2, <2>3
<1>14. Tags(new)'
  BY <1>1, <1>5, <1>8, <1>10, <1>11, <1>12, <1>13 DEF Tags
<1> QED
  BY <1>2, <1>4, <1>7, <1>14

\* The bytes before are as they were, those behind are what came.
Split(bytes, of, new, n, m, k) ==
  /\ m = Len(uart) /\ k = Len(bytes) /\ Len(uart') = m + k
  /\ \A i \in 1 .. m : (High(i)' <=> High(i)) /\ new[i] = of[i] /\ uart'[i] = uart[i]
  /\ \A i \in 1 .. m + k : i > m =>
       /\ (High(i)' <=> Starts(bytes, i - m)) /\ new[i] = n /\ i - m \in 1 .. k
       /\ uart'[i] = bytes[i - m]

\* What has come, byte by byte.
LEMMA TaggedBytes ==
  ASSUME NEW bytes, NEW of, NEW new, NEW n, Tagged(bytes, of, new, n)
  PROVE  \E m \in Nat, k \in Nat : Split(bytes, of, new, n, m, k)
<1>1. PICK m \in Nat, k \in Nat : m = Len(uart) /\ k = Len(bytes) /\ Len(uart') = m + k
  BY DEF Tagged, Appended
<1>2. ASSUME NEW i \in 1 .. m
      PROVE  (High(i)' <=> High(i)) /\ new[i] = of[i] /\ uart'[i] = uart[i]
  BY <1>1 DEF Tagged, Appended, High
<1>3. ASSUME NEW i \in 1 .. m + k, i > m
      PROVE  /\ (High(i)' <=> Starts(bytes, i - m)) /\ new[i] = n /\ i - m \in 1 .. k
             /\ uart'[i] = bytes[i - m]
  <2>1. i - m \in 1 .. k /\ m + (i - m) = i
    BY <1>1, <1>3
  <2>2. uart'[m + (i - m)] = bytes[i - m]
    BY <1>1, <2>1 DEF Tagged, Appended
  <2>3. new[i] = n
    BY <1>1, <1>3 DEF Tagged
  <2> QED
    BY <2>1, <2>2, <2>3 DEF High, Starts
<1> QED
  BY <1>1, <1>2, <1>3 DEF Split

\* A start byte at the end of an answer has still been added,
LEMMA EndsAppended ==
  ASSUME MaxAdded <= 1, TypeOK, NEW bytes, NEW of, NEW new, NEW n,
         Tagged(bytes, of, new, n), Later(of, n), Len(bytes) >= 2, Ends(of),
         (Plain(bytes) /\ added' = added) \/ (added' = added + 1 /\ added < MaxAdded)
  PROVE  Ends(new)'
<1>0. PICK m \in Nat, k \in Nat : Split(bytes, of, new, n, m, k)
  BY TaggedBytes
<1>1. /\ m \in Nat /\ k \in Nat
      /\ m = Len(uart) /\ k = Len(bytes) /\ Len(uart') = m + k
      /\ \A i \in 1 .. m : (High(i)' <=> High(i)) /\ new[i] = of[i] /\ uart'[i] = uart[i]
      /\ \A i \in 1 .. m + k : i > m =>
           /\ (High(i)' <=> Starts(bytes, i - m)) /\ new[i] = n /\ i - m \in 1 .. k
           /\ uart'[i] = bytes[i - m]
  BY <1>0 DEF Split
<1>2. added \in Nat /\ MaxAdded \in Nat
  BY Typed, Lengths
<1>3. n \in Nat /\ \A i \in 1 .. m : of[i] \in Nat /\ of[i] < n
  BY <1>1 DEF Later
<1> SUFFICES ASSUME NEW i \in 1 .. m + k, High(i)', LastOf(new, i)'
             PROVE  /\ added' >= 1
                    /\ \A l \in 1 .. m + k : l >= i + 2 /\ new[l] = new[i + 1] => ~High(l)'
  BY <1>1 DEF Ends
<1>4. CASE i \in 1 .. m
  <2>1. High(i) /\ LastOf(of, i)
    BY <1>1, <1>4, LastAppended
  <2>2. added >= 1 /\ \A l \in 1 .. m : l >= i + 2 /\ of[l] = of[i + 1] => ~High(l)
    BY <1>1, <1>4, <2>1 DEF Ends
  <2>3. Plain(bytes) /\ added' = added
    BY <1>2, <2>2
  <2>4. ASSUME NEW l \in 1 .. m + k, l >= i + 2, new[l] = new[i + 1] PROVE ~High(l)'
    <3>1. CASE l \in 1 .. m
      <4>1. i + 1 \in 1 .. m
        BY <1>1, <1>4, <2>4, <3>1
      <4>2. of[l] = of[i + 1]
        BY <1>1, <2>4, <3>1, <4>1
      <4> QED
        BY <1>1, <2>2, <2>4, <3>1, <4>2
    <3>2. CASE l > m
      <4>1. new[l] = n
        BY <1>1, <3>2
      <4>2. ~(i + 1 \in 1 .. m)
        <5> SUFFICES ASSUME i + 1 \in 1 .. m PROVE FALSE
          OBVIOUS
        <5>1. new[i + 1] = of[i + 1] /\ of[i + 1] \in Nat /\ of[i + 1] < n
          BY <1>1, <1>3
        <5>2. of[i + 1] = n
          BY <2>4, <4>1, <5>1
        <5>3. n < n /\ n \in Nat
          BY <1>3, <5>1, <5>2
        <5> QED
          BY ONLY <5>3
      <4>3. l - m \in 1 .. k /\ l - m # 1
        BY <1>1, <1>4, <2>4, <3>2, <4>2
      <4>4. ~Starts(bytes, l - m)
        BY <1>1, <2>3, <4>3 DEF Plain
      <4> QED
        BY <1>1, <3>2, <4>4
    <3> QED
      BY <1>1, <3>1, <3>2
  <2> QED
    BY <2>2, <2>3, <2>4
<1>5. CASE i > m
  <2>1. i = m + k
    BY <1>1, <1>5, LastAppended
  <2>2. Starts(bytes, k)
    BY <1>1, <1>5, <2>1
  <2>3. ~Plain(bytes)
    BY <1>1, <2>2 DEF Plain
  <2>4. added' >= 1
    BY <1>2, <2>3
  <2>5. \A l \in 1 .. m + k : ~(l >= i + 2)
    BY <1>1, <2>1
  <2> QED
    BY <2>4, <2>5
<1> QED
  BY <1>1, <1>4, <1>5

\* and so has one of two in an answer.
LEMMA PairsAppended ==
  ASSUME TypeOK, NEW bytes, NEW of, NEW new, NEW n,
         Tagged(bytes, of, new, n), Later(of, n), Len(bytes) >= 2, Pairs(of), Paired(bytes, n),
         (Plain(bytes) /\ added' = added) \/ (added' = added + 1 /\ added < MaxAdded)
  PROVE  Pairs(new)'
<1>0. PICK m \in Nat, k \in Nat : Split(bytes, of, new, n, m, k)
  BY TaggedBytes
<1>1. /\ m \in Nat /\ k \in Nat
      /\ m = Len(uart) /\ k = Len(bytes) /\ Len(uart') = m + k
      /\ \A i \in 1 .. m : (High(i)' <=> High(i)) /\ new[i] = of[i] /\ uart'[i] = uart[i]
      /\ \A i \in 1 .. m + k : i > m =>
           /\ (High(i)' <=> Starts(bytes, i - m)) /\ new[i] = n /\ i - m \in 1 .. k
           /\ uart'[i] = bytes[i - m]
  BY <1>0 DEF Split
<1>2. added \in Nat /\ added' \in {added, added + 1}
  BY Typed
<1>3. n \in Nat /\ \A i \in 1 .. m : of[i] \in Nat /\ of[i] < n
  BY <1>1 DEF Later
<1> SUFFICES ASSUME NEW i \in 1 .. m + k, NEW j \in 1 .. m + k, i < j, High(i)', High(j)',
                    new[i] = new[j]
             PROVE  /\ added' >= 1
                    /\ \/ j = i + 1
                       \/ LastOf(new, j)'
                       \/ j - i <= Length + 10 /\ Intact(new, i, j)'
                    /\ \A l \in 1 .. m + k : l > j /\ High(l)' => new[l] > new[i]
  BY <1>1 DEF Pairs
<1>4. CASE j \in 1 .. m
  <2>1. i \in 1 .. m
    BY <1>1, <1>4
  <2>2. High(i) /\ High(j) /\ of[i] = of[j]
    BY <1>1, <1>4, <2>1
  <2>3. /\ added >= 1
        /\ j = i + 1 \/ LastOf(of, j) \/ (j - i <= Length + 10 /\ Intact(of, i, j))
        /\ \A l \in 1 .. m : l > j /\ High(l) => of[l] > of[i]
    BY <1>1, <1>4, <2>1, <2>2 DEF Pairs
  <2>4. LastOf(of, j) => LastOf(new, j)'
    BY <1>1, <1>4, LastAppended
  <2>5. Intact(of, i, j) => Intact(new, i, j)'
    <3> SUFFICES ASSUME Intact(of, i, j), NEW l \in i .. j - 1
                 PROVE  uart'[l] = Answer(new[i])[l - i + 1]
      BY DEF Intact
    <3>1. l \in 1 .. m
      BY <1>1, <1>4
    <3>2. uart[l] = Answer(of[i])[l - i + 1]
      BY DEF Intact
    <3> QED
      BY <1>1, <2>1, <3>1, <3>2
  <2>6. ASSUME NEW l \in 1 .. m + k, l > j, High(l)' PROVE new[l] > new[i]
    <3>1. CASE l \in 1 .. m
      BY <1>1, <2>1, <2>3, <2>6, <3>1
    <3>2. CASE l > m
      <4>1. new[l] = n /\ new[i] = of[i] /\ of[i] < n /\ of[i] \in Nat
        BY <1>1, <1>3, <2>1, <3>2
      <4> QED
        BY <1>3, <4>1
    <3> QED
      BY <1>1, <3>1, <3>2
  <2> QED
    BY <1>2, <2>3, <2>4, <2>5, <2>6
<1>5. CASE j > m
  <2>1. new[j] = n /\ j - m \in 1 .. k
    BY <1>1, <1>5
  <2>2. i > m
    <3>1. ~(i \in 1 .. m)
      BY <1>1, <1>3, <2>1
    <3> QED
      BY <1>1, <3>1
  <2>3. i - m \in 1 .. k /\ new[i] = n /\ i - m < j - m
    BY <1>1, <2>2
  <2>4. Starts(bytes, i - m) /\ Starts(bytes, j - m)
    BY <1>1, <1>5, <2>2
  <2>5. /\ \/ j - m = (i - m) + 1
           \/ j - m = k
           \/ /\ (j - m) - (i - m) <= Length + 10
              /\ \A l \in i - m .. (j - m) - 1 : bytes[l] = Answer(n)[l - (i - m) + 1]
        /\ \A l \in 1 .. k : l > j - m => ~Starts(bytes, l)
    BY <1>1, <2>1, <2>3, <2>4 DEF Paired
  <2>6. added' >= 1
    <3>1. ~Plain(bytes)
      <4>1. j - m # 1
        BY <1>1, <2>3
      <4> QED
        BY <1>1, <2>1, <2>4, <4>1 DEF Plain
    <3> QED
      BY <1>2, <3>1
  <2>7. j - m = k => LastOf(new, j)'
    <3>1. j - m = k => j = Len(uart')
      BY <1>1
    <3> QED
      BY <1>1, <1>5, <3>1, LastAppended
  <2>8. ASSUME \A l \in i - m .. (j - m) - 1 : bytes[l] = Answer(n)[l - (i - m) + 1]
        PROVE  Intact(new, i, j)'
    <3> SUFFICES ASSUME NEW l \in i .. j - 1 PROVE uart'[l] = Answer(new[i])[l - i + 1]
      BY DEF Intact
    <3>1. l \in 1 .. m + k /\ l > m /\ l - m \in i - m .. (j - m) - 1
          /\ (l - m) - (i - m) + 1 = l - i + 1
      BY <1>1, <2>2
    <3>2. uart'[l] = bytes[l - m]
      BY <1>1, <3>1
    <3>3. bytes[l - m] = Answer(n)[(l - m) - (i - m) + 1]
      BY <2>8, <3>1
    <3> QED
      BY <2>3, <3>1, <3>2, <3>3
  <2>9. ASSUME NEW l \in 1 .. m + k, l > j, High(l)' PROVE FALSE
    <3>1. l > m /\ l - m > j - m
      BY <1>1, <1>5, <2>9
    <3>2. l - m \in 1 .. k /\ Starts(bytes, l - m)
      BY <1>1, <2>9, <3>1
    <3> QED
      BY <2>5, <3>1, <3>2
  <2>10. (j - m = (i - m) + 1 => j = i + 1) /\ (j - m) - (i - m) = j - i
    BY <1>1
  <2> QED
    BY <2>5, <2>6, <2>7, <2>8, <2>9, <2>10
<1> QED
  BY <1>1, <1>4, <1>5

\* What comes is for a later command than all before.
LEMMA LagAppended ==
  ASSUME MaxAdded <= 1, TypeOK, requests # <<>>, requests' = Tail(requests),
         UNCHANGED <<pc, sent, idx, type, length, code, last, late>>,
         NEW bytes, NEW of, NEW new, NEW n, n = (sent - Len(requests)) + 1,
         Tagged(bytes, of, new, n), Later(of, n), Len(bytes) >= 2, Lag(of),
         (Plain(bytes) /\ added' = added) \/ (added' = added + 1 /\ added < MaxAdded)
  PROVE  Lag(new)'
<1>0. PICK m \in Nat, k \in Nat : Split(bytes, of, new, n, m, k)
  BY TaggedBytes
<1>1. /\ m \in Nat /\ k \in Nat
      /\ m = Len(uart) /\ k = Len(bytes) /\ Len(uart') = m + k
      /\ \A i \in 1 .. m : (High(i)' <=> High(i)) /\ new[i] = of[i] /\ uart'[i] = uart[i]
      /\ \A i \in 1 .. m + k : i > m =>
           /\ (High(i)' <=> Starts(bytes, i - m)) /\ new[i] = n /\ i - m \in 1 .. k
           /\ uart'[i] = bytes[i - m]
  BY <1>0 DEF Split
<1>2. added \in Nat /\ added' \in {added, added + 1} /\ sent \in Nat /\ late \in Nat /\ idx \in Nat
  BY Typed
<1>3. n \in Nat /\ \A i \in 1 .. m : of[i] \in Nat /\ of[i] < n
  BY <1>1 DEF Later
<1> DEFINE r == Len(requests)
           b == sent - late
<1>4. r \in Nat /\ r >= 1 /\ Len(requests') = r - 1 /\ n = (sent - r) + 1 /\ b \in Int
  <2>1. Len(requests) \in Nat \ {0} /\ Len(Tail(requests)) = Len(requests) - 1
    BY Requested
  <2> QED
    BY <1>2, <2>1
<1>5. sent' - late' = b
  OBVIOUS
<1>6. ASSUME NEW i \in 1 .. m, NEW c, Fresh(of, i, c) PROVE new[i] > c \/ (new[i] = c /\ LastOf(new, i)')
  <2>1. new[i] = of[i] /\ (LastOf(new, i)' <=> LastOf(of, i))
    BY <1>1, LastAppended
  <2> QED
    BY <1>6, <2>1 DEF Fresh
<1>7. \A i \in 1 .. m + k : i \in 1 .. m \/ i > m
  BY <1>1
<1>8. CASE pc = "idle"
  <2>1. /\ r <= late
        /\ \A i \in 1 .. m : High(i) => Fresh(of, i, b)
    BY <1>1, <1>8 DEF Lag, IdleLag
  <2>2. n > b
    BY <1>2, <1>4, <2>1
  <2>3. ASSUME NEW i \in 1 .. m + k, High(i)' PROVE new[i] > b \/ (new[i] = b /\ LastOf(new, i)')
    <3>1. CASE i \in 1 .. m
      BY <1>1, <1>6, <2>1, <2>3, <3>1
    <3>2. CASE i > m
      BY <1>1, <2>2, <3>2
    <3> QED
      BY <1>7, <3>1, <3>2
  <2>4. IdleLag(new)'
    <3>1. Len(requests') <= late'
      BY <1>2, <1>4, <2>1
    <3> QED
      BY <1>1, <2>3, <3>1 DEF IdleLag, Fresh
  <2> QED
    BY <1>8, <2>4 DEF Lag
<1>9. CASE pc = "parse" /\ idx = 0
  <2>1. /\ r <= late + 1
        /\ \A i \in 1 .. m : High(i) => Fresh(of, i, b - 1)
    BY <1>1, <1>9 DEF Lag, SeekLag
  <2>2. n > b - 1
    BY <1>2, <1>4, <2>1
  <2>3. ASSUME NEW i \in 1 .. m + k, High(i)'
        PROVE  new[i] > b - 1 \/ (new[i] = b - 1 /\ LastOf(new, i)')
    <3>1. CASE i \in 1 .. m
      BY <1>1, <1>6, <2>1, <2>3, <3>1
    <3>2. CASE i > m
      BY <1>1, <2>2, <3>2
    <3> QED
      BY <1>7, <3>1, <3>2
  <2>4. SeekLag(new)'
    <3>1. Len(requests') <= late' + 1
      BY <1>2, <1>4, <2>1
    <3> QED
      BY <1>1, <2>3, <3>1 DEF SeekLag, Fresh
  <2> QED
    BY <1>9, <2>4 DEF Lag
<1>10. CASE pc = "parse" /\ idx > 0
  <2>1. ReadLag(of)
    BY <1>10 DEF Lag
  <2>2. /\ r <= late \/ (idx = 1 /\ m = 0 /\ added >= 1 /\ r <= late + 1)
        /\ \A i \in 1 .. m : of[i] >= b
        /\ \A i \in 1 .. m : High(i) => Fresh(of, i, b) \/ (idx = 1 /\ i = 1) \/ Tracked(of, i)
        /\ idx >= 10 => \A c \in 1 .. 100 : code = Code(c) => c >= b
    BY <1>1, <2>1 DEF ReadLag
  <2>3. Len(requests') <= late'
    BY <1>2, <1>4, <2>2
  <2>4. n >= b
    BY <1>2, <1>4, <2>2
  <2>5. ASSUME NEW i \in 1 .. m + k PROVE new[i] >= b
    <3>1. CASE i \in 1 .. m
      <4>1. new[i] = of[i] /\ of[i] >= b
        BY <1>1, <2>2, <3>1
      <4> QED
        BY <4>1
    <3>2. CASE i > m
      <4>1. new[i] = n
        BY <1>1, <3>2
      <4> QED
        BY <2>4, <4>1
    <3> QED
      BY <1>7, <3>1, <3>2
  <2>6. ASSUME NEW i \in 1 .. m + k, High(i)'
        PROVE  \/ new[i] > b \/ (new[i] = b /\ LastOf(new, i)')
               \/ (idx' = 1 /\ i = 1)
               \/ Tracked(new, i)'
    <3>1. CASE i \in 1 .. m
      <4>1. High(i)
        BY <1>1, <2>6, <3>1
      <4>2. CASE Fresh(of, i, b)
        BY <1>6, <3>1, <4>2
      <4>3. CASE idx = 1 /\ i = 1
        BY <4>3
      <4>4. CASE Tracked(of, i)
        <5>1. 1 \in 1 .. m /\ new[i] = of[i] /\ new[1] = of[1]
          BY <1>1, <3>1
        <5>2. ASSUME NEW l \in 1 .. i - 1 PROVE uart'[l] = Answer(new[1])[idx' + l]
          <6>1. l \in 1 .. m
            BY <1>1, <3>1
          <6>2. uart'[l] = uart[l]
            BY <1>1, <6>1
          <6> QED
            BY <4>4, <5>1, <6>2 DEF Tracked
        <5>3. ParsedAny'
          BY <4>4 DEF Tracked, ParsedAny
        <5> QED
          BY <4>4, <5>1, <5>2, <5>3 DEF Tracked
      <4> QED
        BY <2>2, <3>1, <4>1, <4>2, <4>3, <4>4
    <3>2. CASE i > m
      <4>1. new[i] = n /\ Starts(bytes, i - m) /\ i - m \in 1 .. k
        BY <1>1, <2>6, <3>2
      <4>2. CASE r <= late
        <5>1. n > b
          BY <1>2, <1>4, <4>2
        <5> QED
          BY <4>1, <5>1
      <4>3. CASE idx = 1 /\ m = 0 /\ added >= 1
        <5>1. Plain(bytes)
          BY <1>2, <4>3, Lengths
        <5>2. i - m = 1
          BY <1>1, <4>1, <5>1 DEF Plain
        <5> QED
          BY <1>1, <4>3, <5>2
      <4> QED
        BY <2>2, <4>2, <4>3
    <3> QED
      BY <1>7, <3>1, <3>2
  <2>7. ReadLag(new)'
    BY <1>1, <2>2, <2>3, <2>5, <2>6 DEF ReadLag, Fresh
  <2> QED
    BY <1>10, <2>7 DEF Lag
<1> QED
  BY <1>2, <1>8, <1>9, <1>10 DEF Lag

\* An answer comes.
LEMMA ArriveLag ==
  ASSUME MaxAdded <= 1, Length < 99, TypeOK, NEW of, LagInv(of), Respond \/ RespondBroken
  PROVE  \E new : LagInv(new)'
<1>1. /\ requests # <<>> /\ requests' = Tail(requests)
      /\ UNCHANGED <<pc, sent, idx, type, length, code, last, late, failed>>
  BY Arrived
<1>2. PICK bytes \in Seq(Byte) : uart' = uart \o bytes /\ Comes(bytes)
  BY Arrived
<1>3. PICK n \in Nat : n = Head(requests)
  BY <1>1, Requested
<1>4. /\ Len(bytes) \in Nat /\ Len(bytes) >= 2
      /\ Coded(bytes, n) /\ Paired(bytes, n)
      /\ \/ Plain(bytes) /\ added' = added
         \/ added' = added + 1 /\ added < MaxAdded
  BY <1>1, <1>2, <1>3, ComesPlain
<1>5. of \in Seq(Nat) /\ Tags(of) /\ Ends(of) /\ Pairs(of) /\ Lag(of) /\ LagBounded
  BY DEF LagInv
<1> DEFINE tag(i) == n
           tags == [i \in 1 .. Len(bytes) |-> tag(i)]
           new == of \o tags
<1>6. tags \in Seq(Nat) /\ Len(tags) = Len(bytes) /\ \A i \in 1 .. Len(bytes) : tags[i] = n
  <2>1. \A i \in 1 .. Len(bytes) : tag(i) \in Nat
    OBVIOUS
  <2>2. tags \in Seq(Nat)
    BY <1>4, <2>1, IsASeq
  <2>3. Len(tags) = Len(bytes)
    BY <1>4
  <2> QED
    BY <2>2, <2>3
<1> HIDE DEF tags
<1>7. Tagged(bytes, of, new, n)
  <2>1. uart \in Seq(Byte)
    BY Typed
  <2>2. Appended(bytes)
    BY <1>2, <2>1, Joined DEF Appended
  <2>3. /\ new \in Seq(Nat) /\ Len(new) = Len(of) + Len(tags)
        /\ \A i \in 1 .. Len(of) + Len(tags) :
             new[i] = IF i <= Len(of) THEN of[i] ELSE tags[i - Len(of)]
    BY <1>5, <1>6, ConcatProperties
  <2>4. Len(of) = Len(uart) /\ Len(of) \in Nat
    BY <1>5 DEF Tags
  <2> HIDE DEF new
  <2>5. Len(new) = Len(uart')
    BY <1>6, <2>2, <2>3, <2>4 DEF Appended
  <2>6. ASSUME NEW i \in 1 .. Len(uart) PROVE new[i] = of[i]
    <3>1. i \in 1 .. Len(of) + Len(tags) /\ i <= Len(of)
      BY <1>4, <1>6, <2>4
    <3> QED
      BY <2>3, <3>1
  <2>7. ASSUME NEW i \in 1 .. Len(uart'), i > Len(uart) PROVE new[i] = n
    <3>1. /\ i \in 1 .. Len(of) + Len(tags) /\ ~(i <= Len(of))
          /\ i - Len(of) \in 1 .. Len(bytes)
      BY <1>4, <1>6, <2>2, <2>4, <2>7 DEF Appended
    <3> QED
      BY <1>6, <2>3, <3>1
  <2> QED
    BY <2>2, <2>3, <2>4, <2>5, <2>6, <2>7 DEF Tagged
<1>8. new \in Seq(Nat)
  BY <1>7 DEF Tagged
<1> HIDE DEF new
<1>9. Tags(new)' /\ Later(of, n) /\ n = (sent - Len(requests)) + 1
  BY <1>1, <1>3, <1>4, <1>5, <1>7, TagsAppended
<1>10. Ends(new)'
  BY <1>4, <1>5, <1>7, <1>9, EndsAppended
<1>11. Pairs(new)'
  BY <1>4, <1>5, <1>7, <1>9, PairsAppended
<1>12. Lag(new)'
  BY <1>1, <1>4, <1>5, <1>7, <1>9, LagAppended
<1>13. LagBounded'
  BY <1>1, <1>5 DEF LagBounded, Answered
<1>14. LagInv(new)'
  BY <1>8, <1>9, <1>10, <1>11, <1>12, <1>13 DEF LagInv
<1> QED
  BY <1>14

-------------------------------------------------------------------------------

\* The tags when a byte has been read.
Shifted(of, new, m) ==
  /\ m = Len(uart') /\ Len(uart) = m + 1 /\ Len(new) = m
  /\ \A i \in 1 .. m : /\ i + 1 \in 1 .. m + 1 /\ new[i] = of[i + 1]
                       /\ uart'[i] = uart[i + 1]
                       /\ (High(i)' <=> High(i + 1))
                       /\ (LastOf(new, i)' <=> LastOf(of, i + 1))

\* All moves up by one.
LEMMA TagsShifted ==
  ASSUME ReadOne, NEW of \in Seq(Nat), Tags(of)
  PROVE  /\ Tail(of) \in Seq(Nat)
         /\ \E m \in Nat : Shifted(of, Tail(of), m)
         /\ \A i \in 1 .. Len(uart) : of[i] \in Nat
<1>1. PICK m \in Nat : m = Len(uart') /\ Len(uart) = m + 1
  BY DEF ReadOne
<1>2. Len(of) = m + 1 /\ of # <<>>
  <2>1. Len(of) = m + 1
    BY <1>1 DEF Tags
  <2> QED
    BY <1>1, <2>1, EmptySeq
<1> DEFINE new == Tail(of)
<1>3. new \in Seq(Nat) /\ Len(new) = m /\ \A i \in 1 .. m : new[i] = of[i + 1]
  <2>1. new \in Seq(Nat) /\ Len(new) = Len(of) - 1 /\ \A i \in 1 .. Len(new) : new[i] = of[i + 1]
    BY <1>2, HeadTailProperties
  <2> HIDE DEF new
  <2> QED
    BY <1>1, <1>2, <2>1
<1> HIDE DEF new
<1>4. ASSUME NEW i \in 1 .. m
      PROVE  /\ i + 1 \in 1 .. m + 1 /\ uart'[i] = uart[i + 1] /\ (High(i)' <=> High(i + 1))
             /\ (LastOf(new, i)' <=> LastOf(of, i + 1))
  <2>1. i \in 1 .. Len(uart) - 1 /\ i + 1 \in 1 .. m + 1
    BY <1>1
  <2>2. uart'[i] = uart[i + 1]
    BY <2>1 DEF ReadOne
  <2>3. LastOf(new, i)' <=> LastOf(of, i + 1)
    <3>1. CASE i = m
      BY <1>1, <3>1 DEF LastOf
    <3>2. CASE i # m
      <4>1. i + 1 \in 1 .. m /\ i + 1 # m + 1
        BY <1>1, <3>2
      <4>2. new[i] = of[i + 1] /\ new[i + 1] = of[(i + 1) + 1]
        BY <1>3, <4>1
      <4> QED
        BY <1>1, <3>2, <4>1, <4>2 DEF LastOf
    <3> QED
      BY <3>1, <3>2
  <2> QED
    BY <2>1, <2>2, <2>3 DEF High
<1>5. Shifted(of, new, m)
  BY <1>1, <1>3, <1>4 DEF Shifted
<1>6. \A i \in 1 .. Len(uart) : of[i] \in Nat
  BY <1>1, <1>2, ElementOfSeq
<1> QED
  BY <1>3, <1>5, <1>6 DEF new

\* The tags of what is left,
LEMMA ReadTags ==
  ASSUME NEW of, NEW new, NEW m \in Nat, Shifted(of, new, m), Tags(of),
         sent' = sent, requests' = requests
  PROVE  Tags(new)'
<1>1. /\ m = Len(uart') /\ Len(uart) = m + 1 /\ Len(new) = m
      /\ \A i \in 1 .. m : i + 1 \in 1 .. m + 1 /\ new[i] = of[i + 1] /\ uart'[i] = uart[i + 1]
  BY DEF Shifted
<1>2. ASSUME NEW i \in 1 .. m PROVE new[i] >= 1 /\ new[i] <= sent' - Len(requests')
  <2>1. /\ i + 1 \in 1 .. Len(uart) /\ new[i] = of[i + 1]
        /\ sent' - Len(requests') = sent - Len(requests)
    BY <1>1
  <2>2. of[i + 1] >= 1 /\ of[i + 1] <= sent - Len(requests)
    BY <2>1 DEF Tags
  <2> QED
    BY <2>1, <2>2
<1>3. ASSUME NEW i \in 1 .. m, NEW j \in 1 .. m, i <= j PROVE new[i] <= new[j]
  <2>1. i + 1 \in 1 .. Len(uart) /\ j + 1 \in 1 .. Len(uart) /\ i + 1 <= j + 1
    BY <1>1, <1>3
  <2>2. of[i + 1] <= of[j + 1]
    BY <2>1 DEF Tags
  <2> QED
    BY <1>1, <2>2
<1>4. ASSUME NEW i \in 1 .. m, NEW k \in 1 .. 100, uart'[i] = Code(k) PROVE new[i] = k
  BY <1>1, <1>4 DEF Tags
<1>5. \A i \in 1 .. Len(requests') : requests'[i] = (sent' - Len(requests')) + i
  BY DEF Tags
<1> QED
  BY <1>1, <1>2, <1>3, <1>4, <1>5 DEF Tags

\* the start bytes at the end of answers,
LEMMA ReadEnds ==
  ASSUME NEW of, NEW new, NEW m \in Nat, Shifted(of, new, m), Ends(of), added' = added
  PROVE  Ends(new)'
<1>1. /\ m = Len(uart') /\ Len(uart) = m + 1
      /\ \A i \in 1 .. m : /\ i + 1 \in 1 .. m + 1 /\ new[i] = of[i + 1]
                           /\ (High(i)' <=> High(i + 1))
                           /\ (LastOf(new, i)' <=> LastOf(of, i + 1))
  BY DEF Shifted
<1> SUFFICES ASSUME NEW i \in 1 .. m, High(i)', LastOf(new, i)'
             PROVE  /\ added' >= 1
                    /\ \A l \in 1 .. m : l >= i + 2 /\ new[l] = new[i + 1] => ~High(l)'
  BY <1>1 DEF Ends
<1>2. i + 1 \in 1 .. m + 1 /\ High(i + 1) /\ LastOf(of, i + 1)
  BY <1>1
<1>3. /\ added >= 1
      /\ \A l \in 1 .. m + 1 : l >= (i + 1) + 2 /\ of[l] = of[(i + 1) + 1] => ~High(l)
  BY <1>1, <1>2 DEF Ends
<1>4. ASSUME NEW l \in 1 .. m, l >= i + 2, new[l] = new[i + 1] PROVE ~High(l)'
  <2>1. i + 1 \in 1 .. m /\ l + 1 >= (i + 1) + 2
    BY <1>4
  <2>2. of[l + 1] = of[(i + 1) + 1] /\ l + 1 \in 1 .. m + 1
    BY <1>1, <1>4, <2>1
  <2> QED
    BY <1>1, <1>3, <2>1, <2>2
<1> QED
  BY <1>3, <1>4

\* two of them in an answer,
LEMMA ReadPairs ==
  ASSUME NEW of, NEW new, NEW m \in Nat, Shifted(of, new, m), Pairs(of), added' = added
  PROVE  Pairs(new)'
<1>1. /\ m = Len(uart') /\ Len(uart) = m + 1
      /\ \A i \in 1 .. m : /\ i + 1 \in 1 .. m + 1 /\ new[i] = of[i + 1]
                           /\ uart'[i] = uart[i + 1]
                           /\ (High(i)' <=> High(i + 1))
                           /\ (LastOf(new, i)' <=> LastOf(of, i + 1))
  BY DEF Shifted
<1> SUFFICES ASSUME NEW i \in 1 .. m, NEW j \in 1 .. m, i < j, High(i)', High(j)',
                    new[i] = new[j]
             PROVE  /\ added' >= 1
                    /\ \/ j = i + 1
                       \/ LastOf(new, j)'
                       \/ j - i <= Length + 10 /\ Intact(new, i, j)'
                    /\ \A l \in 1 .. m : l > j /\ High(l)' => new[l] > new[i]
  BY <1>1 DEF Pairs
<1> DEFINE p == i + 1
           q == j + 1
<1>2. /\ p \in 1 .. m + 1 /\ q \in 1 .. m + 1 /\ p < q /\ High(p) /\ High(q) /\ of[p] = of[q]
      /\ q - p = j - i /\ (q = p + 1 <=> j = i + 1)
  BY <1>1
<1>3. p = i + 1 /\ q = j + 1
  OBVIOUS
<1> HIDE DEF p, q
<1>4. /\ added >= 1
      /\ q = p + 1 \/ LastOf(of, q) \/ (q - p <= Length + 10 /\ Intact(of, p, q))
      /\ \A l \in 1 .. m + 1 : l > q /\ High(l) => of[l] > of[p]
  BY <1>1, <1>2 DEF Pairs
<1>5. LastOf(of, q) => LastOf(new, j)'
  BY <1>1, <1>3
<1>6. Intact(of, p, q) => Intact(new, i, j)'
  <2> SUFFICES ASSUME Intact(of, p, q), NEW l \in i .. j - 1
               PROVE  uart'[l] = Answer(new[i])[l - i + 1]
    BY DEF Intact
  <2>1. l \in 1 .. m /\ l + 1 \in p .. q - 1 /\ (l + 1) - p + 1 = l - i + 1
    BY <1>3
  <2>2. uart[l + 1] = Answer(of[p])[(l + 1) - p + 1]
    BY <2>1 DEF Intact
  <2> QED
    BY <1>1, <1>3, <2>1, <2>2
<1>7. ASSUME NEW l \in 1 .. m, l > j, High(l)' PROVE new[l] > new[i]
  <2>1. l + 1 \in 1 .. m + 1 /\ l + 1 > q /\ High(l + 1)
    BY <1>1, <1>3, <1>7
  <2> QED
    BY <1>1, <1>3, <1>4, <2>1
<1> QED
  BY <1>2, <1>4, <1>5, <1>6, <1>7

\* and what does not lead into an old answer.
LEMMA FreshShifts ==
  ASSUME NEW of, NEW new, NEW m \in Nat, Shifted(of, new, m), NEW i \in 1 .. m, NEW b
  PROVE  Fresh(new, i, b)' <=> Fresh(of, i + 1, b)
<1>1. new[i] = of[i + 1] /\ (LastOf(new, i)' <=> LastOf(of, i + 1))
  BY DEF Shifted
<1> QED
  BY <1>1 DEF Fresh

\* What the parser knows of an answer, one byte on.
LEMMA ParsedOn ==
  ASSUME TypeOK, Takes, Goes, ParsedAny, NEW k \in 1 .. 100, idx >= 1, idx <= Length + 9,
         uart[1] = Answer(k)[idx + 1]
  PROVE  ParsedAny'
<1> DEFINE b == uart[1]
<1>1. /\ type' = IF idx = 6 THEN b ELSE type
      /\ length' = IF idx = 7 THEN b * 256 ELSE IF idx = 8 THEN length + b ELSE length
  BY DEF Takes
<1>2. /\ idx = 6 => b = Ack
      /\ idx = 7 => b = 0
      /\ idx = 8 => b = Length + 2
  <2>1. Answer(k)[7] = Ack /\ Answer(k)[8] = 0 /\ Answer(k)[9] = Length + 2
    BY AnswerBytes
  <2>2. 6 + 1 = 7 /\ 7 + 1 = 8 /\ 8 + 1 = 9
    OBVIOUS
  <2> QED
    BY <2>1, <2>2
<1> HIDE DEF b
<1>3. idx \in Nat /\ idx' = idx + 1 /\ Length \in Nat
  BY Lengths, Typed DEF Goes
<1>4. idx' >= 7 => type' = Ack
  BY <1>1, <1>2, <1>3 DEF ParsedAny
<1>5. idx' = 8 => length' = 0
  BY <1>1, <1>2, <1>3
<1>6. idx' >= 9 => length' = Length + 2
  BY <1>1, <1>2, <1>3 DEF ParsedAny
<1> QED
  BY <1>4, <1>5, <1>6 DEF ParsedAny

\* A byte of an answer that is being read does not end the exchange.
LEMMA TrackedGoes ==
  ASSUME TypeOK, Parses, idx >= 1, NEW of, NEW i \in 2 .. Len(uart), Tracked(of, i),
         of[1] \in 1 .. 100
  PROVE  Goes /\ uart[1] = Answer(of[1])[idx + 1] /\ idx <= Length + 9
<1>1. idx \in Nat /\ Length \in Nat /\ Length >= 1 /\ Data \in Nat /\ Length + 20 <= Data
      /\ Len(uart) \in Nat
  BY Lengths, Typed
<1>2. idx <= Length + 9 /\ ParsedAny
  BY <1>1 DEF Tracked
<1>3. uart[1] = Answer(of[1])[idx + 1]
  <2>1. 1 \in 1 .. i - 1
    OBVIOUS
  <2> QED
    BY <2>1 DEF Tracked
<1>4. ~Complete
  BY <1>1, <1>2 DEF ParsedAny, Complete
<1>5. idx = 1 => uart[1] = StartLow
  <2>1. Answer(of[1])[2] = StartLow
    BY AnswerBytes
  <2>2. 1 + 1 = 2
    OBVIOUS
  <2> QED
    BY <1>3, <2>1, <2>2
<1>6. ~(idx + 10 >= Data)
  BY <1>1, <1>2
<1>7. ~Returns /\ ~Skips
  BY <1>1, <1>4, <1>5, <1>6 DEF Returns, Skips
<1> QED
  BY <1>2, <1>3, <1>7 DEF Parses

\* A byte is read while a start byte is looked for.
LEMMA SeekLagParsed ==
  ASSUME TypeOK, Parses, late' = late, pc = "parse", idx = 0,
         NEW of, NEW new, NEW m \in Nat, Shifted(of, new, m),
         \A i \in 1 .. Len(uart) : of[i] \in Nat,
         Tags(of), Ends(of), Pairs(of), SeekLag(of)
  PROVE  Lag(new)'
<1>1. /\ m = Len(uart') /\ Len(uart) = m + 1
      /\ \A i \in 1 .. m : /\ i + 1 \in 1 .. m + 1 /\ new[i] = of[i + 1]
                           /\ uart'[i] = uart[i + 1]
                           /\ (High(i)' <=> High(i + 1))
                           /\ (LastOf(new, i)' <=> LastOf(of, i + 1))
  BY DEF Shifted
<1>2. /\ pc' = "parse" /\ (High(1) => idx' = 1) /\ (~High(1) => idx' = 0)
      /\ sent' = sent /\ added' = added /\ requests' = requests /\ uart' \in Seq(Byte)
  BY FirstByte DEF Parses, ReadOne
<1> DEFINE s == sent - late
           q == Len(requests)
<1>3. PICK b \in Int, r \in Nat : b = s /\ r = q
  BY Typed
<1>4. /\ sent' - late' = b /\ Len(requests') = r /\ sent - Len(requests) = (b + late) - r
      /\ late \in Nat /\ added \in Nat
  BY <1>2, <1>3, Typed
<1>5. /\ r <= late + 1
      /\ \A i \in 1 .. m + 1 : High(i) => of[i] > b - 1 \/ (of[i] = b - 1 /\ LastOf(of, i))
  BY <1>1, <1>3 DEF SeekLag, Fresh
<1>6. ASSUME NEW i \in 1 .. m + 1 PROVE of[i] \in Nat /\ of[i] <= (b + late) - r
  BY <1>1, <1>4 DEF Tags
<1>7. ASSUME NEW i \in 1 .. m + 1, NEW j \in 1 .. m + 1, i <= j PROVE of[i] <= of[j]
  BY <1>1, <1>7 DEF Tags
<1>8. CASE ~High(1)
  <2>1. idx' = 0
    BY <1>2, <1>8
  <2>2. ASSUME NEW i \in 1 .. m, High(i)' PROVE Fresh(new, i, b - 1)'
    <3>1. of[i + 1] > b - 1 \/ (of[i + 1] = b - 1 /\ LastOf(of, i + 1))
      BY <1>1, <1>5, <2>2
    <3> QED
      BY <1>1, <3>1 DEF Fresh
  <2>3. SeekLag(new)'
    BY <1>1, <1>2, <1>4, <1>5, <2>2 DEF SeekLag
  <2> QED
    BY <1>2, <2>1, <2>3 DEF Lag
<1>9. CASE High(1)
  <2>1. idx' = 1
    BY <1>2, <1>9
  <2>2. of[1] \in Nat /\ (of[1] >= b \/ (of[1] = b - 1 /\ LastOf(of, 1)))
    BY <1>5, <1>6, <1>9
  <2>3. \/ r <= late
        \/ m = 0 /\ added >= 1 /\ r <= late + 1
    <3>1. CASE of[1] >= b
      BY <1>4, <1>6, <3>1
    <3>2. CASE of[1] = b - 1 /\ LastOf(of, 1)
      <4>1. CASE m = 0
        <5>1. added >= 1
          BY <1>1, <1>9, <3>2 DEF Ends
        <5> QED
          BY <1>5, <4>1, <5>1
      <4>2. CASE m # 0
        <5>1. of[2] > of[1] /\ 2 \in 1 .. m + 1
          BY <1>1, <3>2, <4>2 DEF LastOf
        <5>2. of[2] >= b
          BY <1>6, <3>2, <5>1
        <5> QED
          BY <1>4, <1>6, <5>1, <5>2
      <4> QED
        BY <4>1, <4>2
    <3> QED
      BY <2>2, <3>1, <3>2
  <2>4. ASSUME NEW i \in 1 .. m PROVE of[i + 1] >= b /\ of[2] >= b /\ i + 1 \in 1 .. m + 1 /\ 2 \in 1 .. m + 1
    <3>1. i + 1 \in 1 .. m + 1 /\ 2 \in 1 .. m + 1 /\ 2 <= i + 1 /\ 1 <= 2 /\ 1 \in 1 .. m + 1
      BY <1>1
    <3>2. of[1] <= of[2] /\ of[2] <= of[i + 1] /\ of[2] \in Nat /\ of[i + 1] \in Nat
      BY <1>6, <1>7, <3>1
    <3>3. of[2] >= b
      <4>1. CASE of[1] >= b
        BY <2>2, <3>2, <4>1
      <4>2. CASE of[1] = b - 1 /\ LastOf(of, 1)
        <5>1. of[2] > of[1]
          BY <1>1, <4>2 DEF LastOf
        <5> QED
          BY <2>2, <3>2, <4>2, <5>1
      <4> QED
        BY <2>2, <4>1, <4>2
    <3> QED
      BY <3>1, <3>2, <3>3
  <2>5. ASSUME NEW i \in 1 .. m, High(i)'
        PROVE  Fresh(new, i, b)' \/ (idx' = 1 /\ i = 1) \/ Tracked(new, i)'
    <3>1. High(i + 1) /\ of[i + 1] \in Nat /\ of[i + 1] >= b /\ i + 1 \in 1 .. m + 1
      BY <1>1, <1>6, <2>4, <2>5
    <3>2. CASE of[i + 1] > b
      BY <1>1, <3>2 DEF Fresh
    <3>3. CASE of[i + 1] = b /\ of[1] >= b
      <4>1. of[1] = b
        <5>1. of[1] <= of[i + 1]
          BY <1>7, <3>1
        <5> QED
          BY <2>2, <3>3, <5>1
      <4>2. \/ i + 1 = 2 \/ LastOf(of, i + 1)
            \/ (i + 1) - 1 <= Length + 10 /\ Intact(of, 1, i + 1)
        <5>1. 1 \in 1 .. Len(uart) /\ i + 1 \in 1 .. Len(uart) /\ 1 < i + 1 /\ 1 + 1 = 2
          BY <1>1, <3>1
        <5> QED
          BY <1>9, <3>1, <3>3, <4>1, <5>1 DEF Pairs
      <4>3. CASE i + 1 = 2
        BY <2>1, <4>3
      <4>4. CASE LastOf(of, i + 1)
        BY <1>1, <3>3, <4>4 DEF Fresh
      <4>5. CASE (i + 1) - 1 <= Length + 10 /\ Intact(of, 1, i + 1)
        <5>1. idx' + i <= Length + 11
          BY <2>1, <4>5, Lengths
        <5>2. of[2] = of[1]
          <6>1. 2 \in 1 .. m + 1 /\ 2 <= i + 1 /\ 1 <= 2 /\ 1 \in 1 .. m + 1
            BY <1>1
          <6>2. of[1] <= of[2] /\ of[2] <= of[i + 1] /\ of[2] \in Nat
            BY <1>6, <1>7, <3>1, <6>1
          <6> QED
            BY <2>2, <3>3, <4>1, <6>2
        <5>3. new[1] = of[1] /\ new[i] = new[1]
          BY <1>1, <3>3, <4>1, <5>2
        <5>4. ParsedAny'
          BY <2>1 DEF ParsedAny
        <5>5. ASSUME NEW l \in 1 .. i - 1 PROVE uart'[l] = Answer(new[1])[idx' + l]
          <6>1. l + 1 \in 1 .. (i + 1) - 1 /\ (l + 1) - 1 + 1 = 1 + l /\ l \in 1 .. m
            OBVIOUS
          <6>2. uart[l + 1] = Answer(of[1])[(l + 1) - 1 + 1]
            BY <4>5, <6>1 DEF Intact
          <6> QED
            BY <1>1, <2>1, <5>3, <6>1, <6>2
        <5> QED
          BY <5>1, <5>3, <5>4, <5>5 DEF Tracked
      <4> QED
        BY <4>2, <4>3, <4>4, <4>5
    <3>4. CASE of[i + 1] = b /\ of[1] = b - 1 /\ LastOf(of, 1)
      <4>1. of[2] = b
        <5>1. of[2] <= of[i + 1] /\ of[2] >= b /\ of[2] \in Nat
          <6>1. 2 \in 1 .. m + 1 /\ 2 <= i + 1
            BY <2>4
          <6> QED
            BY <1>6, <1>7, <2>4, <3>1, <6>1
        <5> QED
          BY <3>4, <5>1
      <4>2. \A l \in 1 .. Len(uart) : l >= 1 + 2 /\ of[l] = of[1 + 1] => ~High(l)
        <5>1. 1 \in 1 .. Len(uart)
          BY <1>1
        <5> QED
          BY <1>9, <3>4, <5>1 DEF Ends
      <4>3. ~(i + 1 >= 1 + 2)
        <5>1. 1 + 1 = 2
          OBVIOUS
        <5> QED
          BY <1>1, <3>1, <3>4, <4>1, <4>2, <5>1
      <4>4. i = 1
        BY <4>3
      <4> QED
        BY <2>1, <4>4
    <3> QED
      BY <2>2, <3>1, <3>2, <3>3, <3>4
  <2>6. ReadLag(new)'
    <3>1. \A i \in 1 .. m : new[i] >= b
      BY <1>1, <2>4
    <3>2. \/ Len(requests') <= late'
          \/ idx' = 1 /\ Len(uart') = 0 /\ added' >= 1 /\ Len(requests') <= late' + 1
      BY <1>1, <1>2, <1>4, <2>1, <2>3
    <3>3. ~(idx' >= 10)
      BY <2>1
    <3> QED
      BY <1>1, <1>4, <2>5, <3>1, <3>2, <3>3 DEF ReadLag
  <2> QED
    BY <1>2, <2>1, <2>6 DEF Lag
<1> QED
  BY <1>8, <1>9

\* Numbers of commands.
LEMMA Commands ==
  /\ \A x \in Nat : x >= 1 /\ x <= 100 => x \in 1 .. 100
  /\ \A x \in 1 .. 100 : x \in Nat
OBVIOUS

\* A byte is read of a packet that has begun.
LEMMA ReadLagParsed ==
  ASSUME Length < 99, TypeOK, Parses, late' = late, pc = "parse", idx > 0,
         NEW of, NEW new, NEW m \in Nat, Shifted(of, new, m),
         \A i \in 1 .. Len(uart) : of[i] \in Nat,
         Tags(of), ReadLag(of)
  PROVE  Lag(new)' /\ LagBounded'
<1>1. /\ m = Len(uart') /\ Len(uart) = m + 1
      /\ \A i \in 1 .. m : /\ i + 1 \in 1 .. m + 1 /\ new[i] = of[i + 1]
                           /\ uart'[i] = uart[i + 1]
                           /\ (High(i)' <=> High(i + 1))
                           /\ (LastOf(new, i)' <=> LastOf(of, i + 1))
  BY DEF Shifted
<1>2. /\ sent' = sent /\ added' = added /\ requests' = requests /\ uart' \in Seq(Byte)
      /\ Takes /\ (Goes \/ Returns)
  BY DEF Parses, ReadOne, Skips
<1> DEFINE s == sent - late
           q == Len(requests)
<1>3. PICK b \in Int, r \in Nat : b = s /\ r = q
  BY Typed
<1>4. /\ sent' - late' = b /\ Len(requests') = r
      /\ late \in Nat /\ sent \in Nat /\ sent <= 100 /\ b = sent - late /\ idx \in Nat
  <2>1. sent <= MaxCommands
    BY DEF TypeOK
  <2> QED
    BY <1>2, <1>3, <2>1, Typed, Lengths, SMTT(20)
<1>5. /\ r <= late
      /\ \A i \in 1 .. m + 1 : of[i] >= b
      /\ \A i \in 1 .. m + 1 : High(i) =>
           Fresh(of, i, b) \/ (idx = 1 /\ i = 1) \/ Tracked(of, i)
      /\ idx >= 10 => \A k \in 1 .. 100 : code = Code(k) => k >= b
  <2>1. Len(uart) # 0
    BY <1>1
  <2> QED
    BY <1>1, <1>3, <2>1 DEF ReadLag
<1>6. \A i \in 1 .. m + 1 : of[i] \in 1 .. 100
  <2>1. ASSUME NEW i \in 1 .. m + 1 PROVE of[i] \in 1 .. 100
    <3>1. of[i] \in Nat /\ of[i] >= 1 /\ of[i] <= sent - Len(requests)
      BY <1>1 DEF Tags
    <3>2. sent - Len(requests) <= 100 /\ sent - Len(requests) \in Int
      BY <1>3, <1>4
    <3>3. of[i] <= 100
      BY ONLY <3>1, <3>2
    <3> QED
      BY ONLY <3>1, <3>3, Commands, Zenon
  <2> QED
    BY <2>1
<1>7. ASSUME NEW i \in 1 .. m + 1, NEW j \in 1 .. m + 1, i <= j PROVE of[i] <= of[j]
  BY <1>1, <1>7 DEF Tags
\* A code that is read is not older.
<1>8. ASSUME NEW k \in 1 .. 100, uart[1] = Code(k) PROVE k >= b
  <2>1. 1 \in 1 .. Len(uart) /\ 1 \in 1 .. m + 1
    BY <1>1
  <2>2. of[1] = k
    BY <1>8, <2>1 DEF Tags
  <2> QED
    BY <1>5, <2>1, <2>2
<1>9. ASSUME NEW i \in 1 .. m, High(i)'
      PROVE  Fresh(new, i, b)' \/ (Goes /\ Tracked(new, i)')
  <2>1. High(i + 1) /\ i + 1 \in 1 .. m + 1 /\ i + 1 # 1
    BY <1>1, <1>9
  <2>2. CASE Fresh(of, i + 1, b)
    BY <2>2, FreshShifts
  <2>3. CASE Tracked(of, i + 1)
    <3>1. i + 1 \in 2 .. Len(uart) /\ of[1] \in 1 .. 100 /\ idx >= 1
      BY <1>1, <1>4, <1>6, <2>1
    <3>2. Goes /\ uart[1] = Answer(of[1])[idx + 1] /\ idx <= Length + 9
      BY <2>3, <3>1, TrackedGoes
    <3>3. ParsedAny'
      <4>1. ParsedAny
        BY <2>3 DEF Tracked
      <4> QED
        BY <1>2, <3>1, <3>2, <4>1, ParsedOn
    <3>4. idx' = idx + 1 /\ idx' + i <= Length + 11
      <4>1. idx' = idx + 1
        BY <3>2 DEF Goes
      <4>2. idx + (i + 1) <= Length + 11
        BY <2>3 DEF Tracked
      <4> QED
        BY <1>4, <4>1, <4>2, Lengths
    <3>5. of[i + 1] = of[1] /\ of[2] = of[1]
      <4>1. of[i + 1] = of[1]
        BY <2>3 DEF Tracked
      <4>2. 1 \in 1 .. m + 1 /\ 2 \in 1 .. m + 1 /\ 1 <= 2 /\ 2 <= i + 1
        BY <1>1
      <4>3. of[1] <= of[2] /\ of[2] <= of[i + 1] /\ of[2] \in 1 .. 100
        BY <1>6, <1>7, <2>1, <4>2
      <4>4. of[1] \in Nat /\ of[2] \in Nat
        BY ONLY <3>1, <4>3, Commands, Zenon
      <4> QED
        BY ONLY <4>1, <4>3, <4>4
    <3>6. new[i] = new[1] /\ new[1] = of[1]
      <4>1. 1 \in 1 .. m /\ 1 + 1 = 2
        BY <1>1
      <4> QED
        BY <1>1, <3>5, <4>1
    <3>7. ASSUME NEW l \in 1 .. i - 1 PROVE uart'[l] = Answer(new[1])[idx' + l]
      <4>1. l \in 1 .. m /\ l + 1 \in 1 .. (i + 1) - 1 /\ idx + (l + 1) = idx' + l
        BY <1>4, <3>4
      <4>2. uart[l + 1] = Answer(of[1])[idx + (l + 1)]
        BY <2>3, <4>1 DEF Tracked
      <4> QED
        BY <1>1, <3>6, <4>1, <4>2
    <3>8. Tracked(new, i)'
      BY <3>3, <3>4, <3>6, <3>7 DEF Tracked
    <3> QED
      BY <3>2, <3>8
  <2> QED
    BY <1>5, <2>1, <2>2, <2>3
<1>10. ASSUME idx >= 10, NEW k \in 1 .. 100, code = Code(k) PROVE k >= b
  BY <1>5, <1>10
<1>11. CASE Goes
  <2>1. idx' = idx + 1 /\ UNCHANGED <<pc, last>>
    BY <1>11 DEF Goes
  <2>2. \A i \in 1 .. m : new[i] >= b
    BY <1>1, <1>5
  <2>3. idx' >= 10 => \A k \in 1 .. 100 : code' = Code(k) => k >= b
    <3>1. CASE idx = 9
      <4>1. code' = uart[1]
        BY <1>2, <3>1 DEF Takes
      <4> QED
        BY <1>8, <4>1
    <3>2. CASE idx # 9
      <4>1. code' = code
        BY <1>2, <3>2 DEF Takes
      <4>2. idx' >= 10 => idx >= 10
        BY <1>4, <2>1, <3>2
      <4> QED
        BY ONLY <1>10, <4>1, <4>2, Zenon
    <3> QED
      BY <3>1, <3>2
  <2>4. ReadLag(new)'
    <3>1. Len(requests') <= late'
      BY <1>4, <1>5
    <3> QED
      BY <1>1, <1>4, <1>9, <2>2, <2>3, <3>1 DEF ReadLag
  <2>5. Lag(new)'
    <3>1. pc' = "parse" /\ idx' # 0 /\ pc' # "idle"
      BY <1>4, <2>1
    <3> QED
      BY <2>4, <3>1 DEF Lag
  <2>6. LagBounded'
    <3>1. pc' # "idle"
      BY <2>1
    <3> QED
      BY <3>1 DEF LagBounded, Answered
  <2> QED
    BY <2>5, <2>6
<1>12. CASE Returns
  <2>1. PICK kind \in Kinds, c \in Byte : Outcome(kind, c) /\ Return(kind, c)
    BY <1>12 DEF Returns
  <2>2. pc' = "idle" /\ last' = [kind |-> kind, code |-> c] /\ ~Goes
    <3>1. pc' = "idle" /\ last' = [kind |-> kind, code |-> c]
      BY <2>1 DEF Return
    <3> QED
      BY <3>1 DEF Goes
  <2>3. \A i \in 1 .. m : High(i)' => Fresh(new, i, b)'
    BY <1>9, <2>2
  <2>4. Lag(new)'
    <3>1. IdleLag(new)'
      <4>1. Len(requests') <= late'
        BY <1>4, <1>5
      <4> QED
        BY <1>1, <1>4, <2>3, <4>1 DEF IdleLag
    <3>2. pc' # "parse"
      BY <2>2
    <3> QED
      BY <3>1, <3>2 DEF Lag
  <2>5. LagBounded'
    <3> SUFFICES ASSUME last'.kind = "ok", NEW k \in 1 .. sent', last'.code = Code(k)
                 PROVE  sent' - k <= late'
      BY DEF LagBounded, Answered
    <3>1. kind = "ok" /\ c = Code(k) /\ k \in 1 .. 100
      BY <1>2, <1>4, <2>2
    <3>2. idx >= 9 /\ c = IF idx = 9 THEN uart[1] ELSE code
      BY <2>1, <3>1 DEF Outcome, Complete
    <3>3. k >= b
      <4>1. CASE idx = 9
        BY <1>8, <3>1, <3>2, <4>1
      <4>2. CASE idx # 9
        <5>1. idx >= 10 /\ code = Code(k)
          BY <1>4, <3>1, <3>2, <4>2
        <5> QED
          BY ONLY <1>10, <3>1, <5>1, Zenon
      <4> QED
        BY <4>1, <4>2
    <3> QED
      BY <1>2, <1>4, <3>3
  <2> QED
    BY <2>4, <2>5
<1> QED
  BY <1>2, <1>11, <1>12

\* The parser reads a byte: one case before the start byte, one behind it.
LEMMA ParseLag ==
  ASSUME Length < 99, TypeOK, NEW of, LagInv(of), getStructuredPacket
  PROVE  \E new : LagInv(new)'
<1>1. Parses /\ pc = "parse" /\ late' = late
  BY ParsesOne
<1>2. of \in Seq(Nat) /\ Tags(of) /\ Ends(of) /\ Pairs(of) /\ Lag(of)
  BY DEF LagInv
<1>3. ReadOne /\ UNCHANGED <<sent, added, requests>>
  BY <1>1 DEF Parses, ReadOne
<1> DEFINE new == Tail(of)
<1>4. new \in Seq(Nat) /\ \A i \in 1 .. Len(uart) : of[i] \in Nat
  BY <1>2, <1>3, TagsShifted
<1>5. PICK m \in Nat : Shifted(of, new, m)
  BY <1>2, <1>3, TagsShifted
<1> HIDE DEF new
<1>6. Tags(new)' /\ Ends(new)' /\ Pairs(new)'
  <2>1. Tags(new)'
    BY <1>2, <1>3, <1>5, ReadTags
  <2>2. Ends(new)'
    BY <1>2, <1>3, <1>5, ReadEnds
  <2>3. Pairs(new)'
    BY <1>2, <1>3, <1>5, ReadPairs
  <2> QED
    BY <2>1, <2>2, <2>3
<1>7. Lag(new)' /\ LagBounded'
  <2>1. idx \in Nat
    BY Typed
  <2>2. CASE idx = 0
    <3>1. SeekLag(of)
      BY <1>1, <1>2, <2>2 DEF Lag
    <3>2. Lag(new)'
      BY <1>1, <1>2, <1>4, <1>5, <2>2, <3>1, SeekLagParsed
    <3>3. pc' # "idle"
      BY <1>1, <2>2, FirstByte
    <3> QED
      BY <3>2, <3>3 DEF LagBounded, Answered
  <2>3. CASE idx > 0
    <3>1. ReadLag(of)
      BY <1>1, <1>2, <2>3 DEF Lag
    <3> QED
      BY <1>1, <1>2, <1>4, <1>5, <2>3, <3>1, ReadLagParsed
  <2> QED
    BY <2>1, <2>2, <2>3
<1>8. LagInv(new)'
  BY <1>4, <1>6, <1>7 DEF LagInv
<1> QED
  BY <1>8

\* The invariant.
Lags == \E of : LagInv(of)

\* Every step keeps the invariant.
LEMMA LagsStep ==
  ASSUME MaxAdded <= 1, Length < 99, TypeOK, Lags, [Next]_vars
  PROVE  Lags'
<1>1. PICK of : LagInv(of)
  BY DEF Lags
<1>2. CASE UNCHANGED vars
  <2>1. LagInv(of)'
    BY <1>1, <1>2 DEF vars, LagInv, Tags, Ends, Pairs, Lag, LagBounded, Answered, High, LastOf, Intact,
                      ParsedAny, Tracked, Fresh, IdleLag, SeekLag, ReadLag
  <2> QED
    BY <2>1 DEF Lags
<1>3. CASE Request
  <2>1. LagInv(of)'
    BY <1>1, <1>3, RequestLag
  <2> QED
    BY <2>1 DEF Lags
<1>4. CASE Respond \/ RespondBroken
  BY <1>1, <1>4, ArriveLag DEF Lags
<1>5. CASE getStructuredPacket
  BY <1>1, <1>5, ParseLag DEF Lags
<1>6. CASE TimeOut
  <2>1. LagInv(of)'
    BY <1>1, <1>6, TimeOutLag
  <2> QED
    BY <2>1 DEF Lags
<1> QED
  BY <1>2, <1>3, <1>4, <1>5, <1>6 DEF Next

\* A code that is taken for the answer to a later command is not older than by as many
\* commands as answers were late; when none was, it is the command's own.  Of one byte
\* added at most.  The length of a packet must not look like a code.
THEOREM LagKept ==
  ASSUME MaxAdded <= 1, Length < 99
  PROVE  Spec => []LagBounded
<1>1. Init => Lags
  BY LagInit DEF Lags
<1>2. TypeOK /\ Lags /\ [Next]_vars => Lags'
  BY LagsStep
<1>3. Lags => LagBounded
  BY DEF Lags, LagInv
<1> QED
  BY <1>1, <1>2, <1>3, TypeCorrect, PTL DEF Spec

-------------------------------------------------------------------------------
(* The promise of Exchange. *)

\* A code is that of one command.
LEMMA CodeOnce ==
  ASSUME NEW m \in Nat, NEW c, c = Code(m)
  PROVE  /\ c - Code(0) = m
         /\ \A k \in Nat : c = Code(k) => k = m
BY DEF Code

\* The answer that an exchange ends with is not that of a later command.
LEMMA AnsweredSent ==
  ASSUME sent' \in Nat
  PROVE  \E n \in Nat : /\ answered' = n /\ n <= sent'
                        /\ n # 0 => Answered' /\ last'.code = Code(n)
<1>1. CASE Answered' /\ \E m \in 1 .. sent' : last'.code = Code(m)
  <2>1. PICK m \in 1 .. sent' : last'.code = Code(m)
    BY <1>1
  <2>2. answered' = last'.code - Code(0) /\ m \in Nat /\ m <= sent'
    BY <1>1 DEF answered
  <2>3. answered' = m
    BY <2>1, <2>2, CodeOnce
  <2> QED
    BY <1>1, <2>1, <2>2, <2>3
<1>2. CASE ~(Answered' /\ \E m \in 1 .. sent' : last'.code = Code(m))
  <2>1. answered' = 0
    BY <1>2 DEF answered
  <2> QED
    BY <2>1
<1> QED
  BY <1>1, <1>2

\* An exchange ends with its own answer, or is paid for.
LEMMA EndKept ==
  ASSUME TypeOK, TypeOK', FaultCostsOne', LagBounded', pc = "parse", sent >= 1,
         UNCHANGED <<sent, late, broken>>, NEW kind \in Kinds, NEW c \in Byte, Return(kind, c)
  PROVE  Promise!Right \/ Promise!Wrong
<1>1. /\ pc' = "idle" /\ last' = [kind |-> kind, code |-> c]
      /\ failed' = IF kind = "ok" /\ c = Code(sent) THEN failed ELSE failed + 1
  BY DEF Return
<1>2. sent \in Nat /\ late \in Nat /\ failed \in Nat /\ broken \in Nat
  BY Typed
<1>3. CASE kind = "ok" /\ c = Code(sent)
  <2>1. answered' = sent
    <3>1. Answered' /\ sent' = sent /\ last'.code = Code(sent) /\ sent \in 1 .. sent
      BY <1>1, <1>2, <1>3 DEF Answered
    <3>2. answered' = last'.code - Code(0)
      BY <3>1 DEF answered
    <3> QED
      BY <1>2, <3>1, <3>2, CodeOnce
  <2> QED
    BY <1>1, <1>3, <2>1 DEF Promise!Right, Promise!End
<1>4. CASE ~(kind = "ok" /\ c = Code(sent))
  <2>1. failed' = failed + 1
    BY <1>1, <1>4
  <2>2. late > 0 \/ failed < broken
    BY <1>2, <2>1 DEF FaultCostsOne
  <2>3. PICK n \in Nat : /\ answered' = n /\ n <= sent
                         /\ n # 0 => Answered' /\ last'.code = Code(n)
    BY <1>2, AnsweredSent
  <2>4. n # sent
    BY <1>1, <1>4, <2>3 DEF Answered
  <2>5. ASSUME n # 0 PROVE sent - n <= late
    <3>1. Answered' /\ n \in 1 .. sent' /\ last'.code = Code(n)
      BY <1>2, <2>3, <2>5
    <3> QED
      BY <3>1 DEF LagBounded
  <2>6. n \in 0 .. sent - 1 /\ (n = 0 \/ sent - n <= late)
    BY <1>2, <2>3, <2>4, <2>5
  <2> QED
    BY <1>1, <2>1, <2>2, <2>3, <2>6 DEF Promise!Wrong, Promise!End
<1> QED
  BY <1>3, <1>4

LEMMA PromiseKept ==
  ASSUME Types, TypeOK', FaultCostsOne', LagBounded', [Next]_vars
  PROVE  [Promise!Next]_Promise!vars
<1> USE DEF Promise!Next, Promise!vars
<1> TypeOK
  BY DEF Types
<1>1. sent \in Nat /\ requests \in Seq(Nat) /\ late \in Nat /\ code \in Byte
  BY Typed DEF TypeOK
<1>2. CASE UNCHANGED vars
  BY <1>2 DEF vars, answered, Answered
<1>3. CASE Request
  <2>1. pc = "idle" /\ pc' = "parse" /\ sent' = sent + 1 /\ UNCHANGED <<late, broken, failed>>
    BY <1>3 DEF Request
  <2>2. answered' = 0
    BY <2>1 DEF answered, Answered
  <2>3. Promise!Ask
    BY <2>1, <2>2 DEF Promise!Ask
  <2> QED
    BY <2>3
<1>4. CASE Respond \/ RespondBroken
  <2>1. UNCHANGED <<pc, sent, last, late, failed>>
    BY <1>4, Arrived
  <2>2. answered' = answered
    BY <2>1 DEF answered, Answered
  <2>3. broken' = broken \/ broken' = broken + 1
    BY <1>4 DEF Respond, RespondBroken
  <2>4. CASE broken' = broken
    BY <2>1, <2>2, <2>4
  <2>5. CASE broken' = broken + 1
    <3>1. Promise!Damage
      BY <2>1, <2>2, <2>5 DEF Promise!Damage
    <3> QED
      BY <3>1
  <2> QED
    BY <2>3, <2>4, <2>5
<1>5. CASE getStructuredPacket
  <2>1. Parses /\ pc = "parse" /\ UNCHANGED <<sent, late, broken>>
    BY <1>5, ParsesOne DEF Parses, ReadOne
  <2>2. CASE Skips \/ Goes
    <3>1. UNCHANGED <<pc, last, failed>>
      BY <2>2 DEF Skips, Goes
    <3>2. answered' = answered
      BY <2>1, <3>1 DEF answered, Answered
    <3> QED
      BY <2>1, <3>1, <3>2
  <2>3. CASE Returns
    <3>1. PICK kind \in Kinds, c \in Byte : Return(kind, c)
      BY <2>3 DEF Returns
    <3>2. sent >= 1
      BY <2>1, InExchange
    <3> QED
      BY <2>1, <3>1, <3>2, EndKept
  <2> QED
    BY <2>1, <2>2, <2>3 DEF Parses
<1>6. CASE TimeOut
  <2>1. /\ pc = "parse" /\ Return("timeout", code) /\ UNCHANGED <<sent, broken>>
        /\ late' = late \/ late' = late + 1
    BY <1>6 DEF TimeOut
  <2>2. sent >= 1 /\ "timeout" \in Kinds
    BY <2>1, InExchange DEF Kinds
  <2>3. CASE late' = late
    BY <1>1, <2>1, <2>2, <2>3, EndKept
  <2>4. CASE late' = late + 1
    <3>1. pc' = "idle" /\ last' = [kind |-> "timeout", code |-> code] /\ failed' = failed + 1
      BY <2>1 DEF Return
    <3>2. answered' = 0
      BY <3>1 DEF answered, Answered
    <3>3. Promise!TooLate
      BY <2>1, <2>4, <3>1, <3>2 DEF Promise!TooLate, Promise!End
    <3> QED
      BY <3>3
  <2> QED
    BY <2>1, <2>3, <2>4
<1> QED
  BY <1>2, <1>3, <1>4, <1>5, <1>6 DEF Next

\* The parser and its time limit implement Exchange: what FingerStore takes for granted of
\* a link in step follows from how bytes are read.
THEOREM ExchangeImplemented ==
  ASSUME MaxAdded <= 1, Length < 99
  PROVE  Spec => ImplementsExchange
<1>1. Init => Promise!Init
  BY DEF Init, Promise!Init, answered, Answered
<1>2. Types /\ TypeOK' /\ FaultCostsOne' /\ LagBounded' /\ [Next]_vars => [Promise!Next]_Promise!vars
  BY PromiseKept
<1>3. Types => TypeOK
  BY DEF Types
<1>4. Spec => []FaultCostsOne
  BY DamageCostsOne
<1>5. Spec => []LagBounded
  BY LagKept
<1> QED
  BY <1>1, <1>2, <1>3, <1>4, <1>5, TypesInit, TypesStep, PTL DEF Spec, ImplementsExchange, Promise!Spec

===============================================================================
