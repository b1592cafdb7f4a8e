-------------------------- MODULE BleSessionProofs --------------------------
(***************************************************************************)
(* Proofs about BleSession.                                                *)
(***************************************************************************)
EXTENDS BleSession, TLAPS, SequenceTheorems

\* What the callbacks have still to learn is exactly what has happened on the
\* air, and nobody connects while something is left to deliver.
Delivered ==
  \/ events = <<>> /\ link = deviceConnected
  \/ events = <<"connect">> /\ link = TRUE /\ deviceConnected = FALSE
  \/ events = <<"disconnect">> /\ link = FALSE /\ deviceConnected = TRUE
  \/ events = <<"connect", "disconnect">> /\ link = FALSE /\ deviceConnected = FALSE

OnAir ==
  /\ advertising => events = <<>> /\ ~link
  /\ hold >= 0 => deviceConnected

\* The timer belongs to what task_ble waits for; it pauses only after a client.
Waits ==
  /\ poll \in {"check", "advertised", "connecting"} => timer = 0
  /\ poll = "sleep" => timer <= Poll
  /\ poll = "pause" => timer <= Pause
  /\ poll \in {"pause", "advertised"} => oldDeviceConnected
  /\ poll = "pause" => ~deviceConnected
  /\ late <= worst

\* A client task_ble has not seen, or may forget, has not been there for longer
\* than task_ble has slept and been kept waiting since.
Held ==
  deviceConnected /\ (oldDeviceConnected => poll = "advertised") =>
    /\ hold >= 0 => ConnectDelay + timer <= hold + Poll + late
    /\ hold = -1 => ConnectDelay + timer <= Poll + late

\* A client that has gone is not followed by another before task_ble has
\* restarted advertising.
Gone ==
  ~deviceConnected /\ oldDeviceConnected /\ poll # "advertised" =>
    /\ events = <<>> /\ ~link /\ ~advertising

\* When nobody is connected and nothing is on the air, task_ble knows, or it has
\* been kept waiting too long.
Known ==
  events = <<>> /\ ~link /\ ~advertising /\ (oldDeviceConnected => poll = "advertised") =>
    worst >= ConnectDelay - Poll

\* How long it has been silent, by what has happened since.
Quiet ==
  /\ link \/ advertising \/ events = <<"connect", "disconnect">> => silence = 0
  /\ events = <<"disconnect">> => silence <= ConnectDelay
  /\ events = <<"disconnect">> /\ hold >= 0 => silence + hold <= ConnectDelay
  /\ Lost => silence <= ConnectDelay + worst
  /\ events = <<>> /\ ~Lost /\ poll \in {"connecting", "advertised"}
       => silence <= ConnectDelay + late
  /\ events = <<>> /\ poll = "check" => silence <= ConnectDelay + Poll + worst + late
  /\ events = <<>> /\ poll = "sleep" => silence + timer <= ConnectDelay + Poll + worst + late
  /\ poll = "pause" => silence + timer <= ConnectDelay + Poll + Pause + worst + late

IInv == TypeOK /\ Delivered /\ OnAir /\ Waits /\ Held /\ Gone /\ Known /\ Quiet

LEMMA InitIInv == Init => IInv
<1> SUFFICES ASSUME Init PROVE IInv
  OBVIOUS
<1>1. TypeOK
  <2>1. link \in BOOLEAN /\ advertising \in BOOLEAN /\ deviceConnected \in BOOLEAN
        /\ oldDeviceConnected \in BOOLEAN
    BY DEF Init
  <2>2. /\ events \in {<<>>, <<"connect">>, <<"disconnect">>, <<"connect", "disconnect">>}
        /\ hold \in -1..ConnectDelay /\ timer \in Nat /\ late \in Nat /\ worst \in Nat
        /\ poll \in {"check", "pause", "advertised", "connecting", "sleep"} /\ silence \in Nat
    BY SessionAssumption DEF Init
  <2> QED
    BY <2>1, <2>2 DEF TypeOK
<1>2. Delivered
  BY DEF Init, Delivered
<1>3. OnAir
  BY DEF Init, OnAir
<1>4. Waits
  BY DEF Init, Waits
<1>5. Held /\ Gone /\ Known
  BY DEF Init, Held, Gone, Known
<1>6. Quiet
  BY SessionAssumption DEF Init, Quiet, Lost
<1> QED
  BY <1>1, <1>2, <1>3, <1>4, <1>5, <1>6 DEF IInv

\* A sequence of one and one more.
LEMMA AppendPair ==
  ASSUME NEW S, NEW a \in S, NEW b \in S
  PROVE  Append(<<a>>, b) = <<a, b>>
<1>1. PICK s : s = <<a>>
  OBVIOUS
<1>2. s \in Seq(S) /\ Len(s) = 1 /\ s[1] = a
  BY <1>1
<1>3. PICK t : t = Append(s, b)
  OBVIOUS
<1>4. t \in Seq(S) /\ Len(t) = 2
  BY <1>2, <1>3
<1>5. t[1] = a
  BY <1>2, <1>3
<1>6. t[Len(s) + 1] = b
  BY <1>2, <1>3, AppendProperties
<1>7. t[2] = b
  BY <1>2, <1>6
<1>8. PICK u : u = <<a, b>>
  OBVIOUS
<1>9. u \in Seq(S) /\ Len(u) = 2 /\ u[1] = a /\ u[2] = b
  BY <1>8
<1>10. \A i \in 1..2 : t[i] = u[i]
  BY <1>5, <1>7, <1>9
<1> QED
  BY <1>1, <1>3, <1>4, <1>8, <1>9, <1>10, SeqEqual

\* What the queue of events holds after a step.
LEMMA EventFacts ==
  /\ Append(<<>>, "connect") = <<"connect">>
  /\ Append(<<>>, "disconnect") = <<"disconnect">>
  /\ Append(<<"connect">>, "disconnect") = <<"connect", "disconnect">>
  /\ Head(<<"connect">>) = "connect" /\ Head(<<"disconnect">>) = "disconnect"
  /\ Head(<<"connect", "disconnect">>) = "connect"
  /\ Tail(<<"connect">>) = <<>> /\ Tail(<<"disconnect">>) = <<>>
  /\ Tail(<<"connect", "disconnect">>) = <<"disconnect">>
  /\ <<"connect">> # <<>> /\ <<"disconnect">> # <<>> /\ <<"connect", "disconnect">> # <<>>
<1>1. PICK S : "connect" \in S /\ "disconnect" \in S
  BY "connect" \in {"connect", "disconnect"}, "disconnect" \in {"connect", "disconnect"}
<1>2. Append(<<"connect">>, "disconnect") = <<"connect", "disconnect">>
  BY <1>1, AppendPair
<1> QED
  BY <1>2

LEMMA NextIInv ==
  ASSUME IInv, [Next]_vars
  PROVE  IInv'
<1> USE SessionAssumption, EventFacts
        DEF IInv, TypeOK, Delivered, OnAir, Waits, Held, Gone, Known, StackFree, radio, loop,
            Aged
<1>1. CASE Connect
  <2>1. TypeOK'
    BY <1>1 DEF Connect
  <2>2. Delivered'
    BY <1>1 DEF Connect
  <2>3. OnAir'
    BY <1>1 DEF Connect
  <2>4. Waits'
    BY <1>1 DEF Connect
  <2>5. Held'
    BY <1>1 DEF Connect
  <2>6. Gone'
    BY <1>1 DEF Connect
  <2>7. Known'
    BY <1>1 DEF Connect
  <2>8. Quiet'
    BY <1>1 DEF Connect, Quiet, Lost
  <2> QED
    BY <2>1, <2>2, <2>3, <2>4, <2>5, <2>6, <2>7, <2>8 DEF IInv
<1>2. CASE Disconnect
  <2>1. TypeOK'
    BY <1>2 DEF Disconnect
  <2>2. Delivered'
    BY <1>2 DEF Disconnect
  <2>3. OnAir'
    BY <1>2 DEF Disconnect
  <2>4. Waits'
    BY <1>2 DEF Disconnect
  <2>5. Held'
    BY <1>2 DEF Disconnect
  <2>6. Gone'
    BY <1>2 DEF Disconnect
  <2>7. Known'
    BY <1>2 DEF Disconnect
  <2>8. Quiet'
    BY <1>2 DEF Disconnect, Quiet, Lost
  <2> QED
    BY <2>1, <2>2, <2>3, <2>4, <2>5, <2>6, <2>7, <2>8 DEF IInv
<1>3. CASE onConnect
  <2>1. TypeOK'
    <3>1. events' \in {<<>>, <<"connect">>, <<"disconnect">>, <<"connect", "disconnect">>}
      BY <1>3 DEF onConnect
    <3>2. deviceConnected' \in BOOLEAN
      BY <1>3 DEF onConnect
    <3>3. hold' \in -1..ConnectDelay
      BY <1>3 DEF onConnect
    <3> QED
      BY <1>3, <3>1, <3>2, <3>3 DEF onConnect
  <2>2. Delivered'
    BY <1>3 DEF onConnect
  <2>3. OnAir'
    BY <1>3 DEF onConnect
  <2>4. Waits'
    BY <1>3 DEF onConnect
  <2>5. Held'
    BY <1>3 DEF onConnect
  <2>6. Gone'
    BY <1>3 DEF onConnect
  <2>7. Known'
    BY <1>3 DEF onConnect
  <2>8. Quiet'
    BY <1>3 DEF onConnect, Quiet, Lost
  <2> QED
    BY <2>1, <2>2, <2>3, <2>4, <2>5, <2>6, <2>7, <2>8 DEF IInv
<1>4. CASE ConnectReturns
  <2>1. TypeOK'
    BY <1>4 DEF ConnectReturns
  <2>2. Delivered'
    BY <1>4 DEF ConnectReturns
  <2>3. OnAir'
    BY <1>4 DEF ConnectReturns
  <2>4. Waits'
    BY <1>4 DEF ConnectReturns
  <2>5. Held'
    BY <1>4 DEF ConnectReturns
  <2>6. Gone'
    BY <1>4 DEF ConnectReturns
  <2>7. Known'
    BY <1>4 DEF ConnectReturns
  <2>8. Quiet'
    BY <1>4 DEF ConnectReturns, Quiet, Lost
  <2> QED
    BY <2>1, <2>2, <2>3, <2>4, <2>5, <2>6, <2>7, <2>8 DEF IInv
<1>5. CASE onDisconnect
  <2>1. TypeOK'
    BY <1>5 DEF onDisconnect
  <2>2. Delivered'
    BY <1>5 DEF onDisconnect
  <2>3. OnAir'
    BY <1>5 DEF onDisconnect
  <2>4. Waits'
    BY <1>5 DEF onDisconnect
  <2>5. Held'
    BY <1>5 DEF onDisconnect
  <2>6. Gone'
    BY <1>5 DEF onDisconnect
  <2>7. Known'
    BY <1>5 DEF onDisconnect
  <2>8. Quiet'
    <3>1. /\ events = <<"disconnect">> /\ events' = <<>> /\ poll # "pause"
          /\ ~link /\ ~advertising
      BY <1>5 DEF onDisconnect
    <3>2. /\ silence <= ConnectDelay
          /\ UNCHANGED <<link, advertising, poll, timer, late, worst, silence>>
      BY <1>5, <3>1 DEF onDisconnect, Quiet
    <3> QED
      BY <3>1, <3>2 DEF Quiet, Lost
  <2> QED
    BY <2>1, <2>2, <2>3, <2>4, <2>5, <2>6, <2>7, <2>8 DEF IInv
<1>6. CASE LoopGone
  <2>1. TypeOK'
    BY <1>6 DEF LoopGone
  <2>2. Delivered'
    BY <1>6 DEF LoopGone
  <2>3. OnAir'
    BY <1>6 DEF LoopGone
  <2>4. Waits'
    BY <1>6 DEF LoopGone
  <2>5. Held'
    BY <1>6 DEF LoopGone
  <2>6. Gone'
    BY <1>6 DEF LoopGone
  <2>7. Known'
    BY <1>6 DEF LoopGone
  <2>8. Quiet'
    BY <1>6 DEF LoopGone, Quiet, Lost
  <2> QED
    BY <2>1, <2>2, <2>3, <2>4, <2>5, <2>6, <2>7, <2>8 DEF IInv
<1>7. CASE LoopElse
  <2>1. TypeOK'
    BY <1>7 DEF LoopElse
  <2>2. Delivered'
    BY <1>7 DEF LoopElse
  <2>3. OnAir'
    BY <1>7 DEF LoopElse
  <2>4. Waits'
    BY <1>7 DEF LoopElse
  <2>5. Held'
    BY <1>7 DEF LoopElse
  <2>6. Gone'
    BY <1>7 DEF LoopElse
  <2>7. Known'
    BY <1>7 DEF LoopElse
  <2>8. Quiet'
    BY <1>7 DEF LoopElse, Quiet, Lost
  <2> QED
    BY <2>1, <2>2, <2>3, <2>4, <2>5, <2>6, <2>7, <2>8 DEF IInv
<1>8. CASE startAdvertising
  <2>1. TypeOK'
    BY <1>8 DEF startAdvertising
  <2>2. Delivered'
    BY <1>8 DEF startAdvertising
  <2>3. OnAir'
    <3>1. events = <<>> /\ ~link
      BY <1>8 DEF startAdvertising
    <3> QED
      BY <1>8, <3>1 DEF startAdvertising
  <2>4. Waits'
    BY <1>8 DEF startAdvertising
  <2>5. Held'
    BY <1>8 DEF startAdvertising
  <2>6. Gone'
    BY <1>8 DEF startAdvertising
  <2>7. Known'
    BY <1>8 DEF startAdvertising
  <2>8. Quiet'
    BY <1>8 DEF startAdvertising, Quiet, Lost
  <2> QED
    BY <2>1, <2>2, <2>3, <2>4, <2>5, <2>6, <2>7, <2>8 DEF IInv
<1>9. CASE KeepFlag
  <2>1. TypeOK'
    BY <1>9 DEF KeepFlag
  <2>2. Delivered'
    BY <1>9 DEF KeepFlag
  <2>3. OnAir'
    BY <1>9 DEF KeepFlag
  <2>4. Waits'
    BY <1>9 DEF KeepFlag
  <2>5. Held'
    BY <1>9 DEF KeepFlag
  <2>6. Gone'
    BY <1>9 DEF KeepFlag
  <2>7. Known'
    BY <1>9 DEF KeepFlag
  <2>8. Quiet'
    BY <1>9 DEF KeepFlag, Quiet, Lost
  <2> QED
    BY <2>1, <2>2, <2>3, <2>4, <2>5, <2>6, <2>7, <2>8 DEF IInv
<1>10. CASE WakeUp
  <2>1. TypeOK'
    BY <1>10 DEF WakeUp
  <2>2. Delivered'
    BY <1>10 DEF WakeUp
  <2>3. OnAir'
    BY <1>10 DEF WakeUp
  <2>4. Waits'
    BY <1>10 DEF WakeUp
  <2>5. Held'
    BY <1>10 DEF WakeUp
  <2>6. Gone'
    BY <1>10 DEF WakeUp
  <2>7. Known'
    BY <1>10 DEF WakeUp
  <2>8. Quiet'
    BY <1>10 DEF WakeUp, Quiet, Lost
  <2> QED
    BY <2>1, <2>2, <2>3, <2>4, <2>5, <2>6, <2>7, <2>8 DEF IInv
<1>11. CASE Tick
  <2>1. TypeOK'
    BY <1>11 DEF Tick
  <2>2. Delivered'
    BY <1>11 DEF Tick
  <2>3. OnAir'
    BY <1>11 DEF Tick
  <2>4. Waits'
    BY <1>11 DEF Tick
  <2>5. Held'
    BY <1>11 DEF Tick
  <2>6. Gone'
    BY <1>11 DEF Tick
  <2>7. Known'
    BY <1>11 DEF Tick
  <2>8. Quiet'
    BY <1>11 DEF Tick, Quiet, Lost
  <2> QED
    BY <2>1, <2>2, <2>3, <2>4, <2>5, <2>6, <2>7, <2>8 DEF IInv
<1>13. CASE LoopConnecting
  <2>1. TypeOK'
    BY <1>13 DEF LoopConnecting
  <2>2. Delivered'
    BY <1>13 DEF LoopConnecting
  <2>3. OnAir'
    BY <1>13 DEF LoopConnecting
  <2>4. Waits'
    BY <1>13 DEF LoopConnecting
  <2>5. Held'
    BY <1>13 DEF LoopConnecting
  <2>6. Gone'
    BY <1>13 DEF LoopConnecting
  <2>7. Known'
    BY <1>13 DEF LoopConnecting
  <2>8. Quiet'
    BY <1>13 DEF LoopConnecting, Quiet, Lost
  <2> QED
    BY <2>1, <2>2, <2>3, <2>4, <2>5, <2>6, <2>7, <2>8 DEF IInv
<1>12. CASE UNCHANGED vars
  BY <1>12 DEF vars, Quiet, Lost
<1> QED
  BY <1>1, <1>2, <1>3, <1>4, <1>5, <1>6, <1>7, <1>8, <1>9, <1>10, <1>11, <1>12, <1>13
     DEF Next, Device

LEMMA IInvHolds == Spec => []IInv
<1>1. Init => IInv
  BY InitIInv
<1>2. IInv /\ [Next]_vars => IInv'
  BY NextIInv
<1> QED
  BY <1>1, <1>2, PTL DEF Spec

\* The type invariant; the queue of events included, which never holds a second
\* connection (BLEServer.cpp 170-178 and 210-213 deliver them in order).
THEOREM TypeCorrect == Spec => []TypeOK
<1>1. IInv => TypeOK
  BY DEF IInv
<1> QED
  BY <1>1, IInvHolds, PTL

\* Whatever the delays: a device that is lost to its clients has had a pass of
\* task_ble kept waiting for at least the second of onConnect less the sleep of
\* task_ble (app_ble.cpp 164 against 873).
THEOREM LostOnlyIfStarvedHolds == Spec => []LostOnlyIfStarved
<1>1. IInv => LostOnlyIfStarved
  BY DEF IInv, Known, Lost, LostOnlyIfStarved
<1> QED
  BY <1>1, IInvHolds, PTL

\* Whatever the delays, and however long task_ble is kept waiting: a device that
\* is not lost is silent for no longer than the waits on the way to
\* ble_task_loop's startAdvertising add up to (app_ble.cpp 164, 873, 849).
THEOREM SilenceBoundedHolds == Spec => []SilenceBounded
<1>1. IInv => SilenceBounded
  BY SessionAssumption DEF IInv, TypeOK, Delivered, Waits, Quiet, SilenceBounded, MaxSilence
<1> QED
  BY <1>1, IInvHolds, PTL

\* The server keeps the safety part of Session's promise, however long task_ble is
\* kept waiting: a client connects only while it advertises, it advertises again
\* only when the client has gone, and once it is lost it stays so.
THEOREM SessionImplemented == Spec => ImplementsSafe
<1>1. Init => Promise!Init
  BY DEF Init, Promise!Init, linkPhase
<1>2. IInv /\ [Next]_vars => [Promise!Next]_linkPhase
  <2> SUFFICES ASSUME IInv, [Next]_vars PROVE [Promise!Next]_linkPhase
    OBVIOUS
  <2> USE DEF linkPhase, radio, loop
  <2>1. CASE Connect
    <3>1. Promise!Connect
      BY <2>1 DEF Connect, IInv, OnAir, Promise!Connect
    <3> QED
      BY <3>1 DEF Promise!Next
  <2>2. CASE Disconnect
    <3>1. events' # <<>>
      BY <2>2, EventFacts DEF Disconnect, IInv, Delivered
    <3>2. Promise!Disconnect
      BY <2>2, <3>1 DEF Disconnect, IInv, OnAir, Lost, Promise!Disconnect
    <3> QED
      BY <3>2 DEF Promise!Next
  <2>3. CASE startAdvertising
    <3>1. Promise!Advertise
      BY <2>3 DEF startAdvertising, IInv, Waits, Gone, Lost, Promise!Advertise
    <3> QED
      BY <3>1 DEF Promise!Next
  <2>4. CASE onDisconnect
    <3>1. ~Lost /\ link' = link /\ advertising' = advertising
      BY <2>4 DEF onDisconnect, Lost
    <3>2. CASE linkPhase = "silent" /\ Lost'
      BY <2>4, <3>1, <3>2 DEF Lost, Promise!Lose, Promise!Next
    <3>3. CASE linkPhase # "silent" \/ ~Lost'
      BY <3>1, <3>3
    <3> QED
      BY <3>2, <3>3
  <2>5. CASE KeepFlag
    <3>1. ~Lost /\ link' = link /\ advertising' = advertising
      BY <2>5 DEF KeepFlag, IInv, Waits, Lost
    <3>2. CASE linkPhase = "silent" /\ Lost'
      BY <2>5, <3>1, <3>2 DEF Lost, Promise!Lose, Promise!Next
    <3>3. CASE linkPhase # "silent" \/ ~Lost'
      BY <3>1, <3>3
    <3> QED
      BY <3>2, <3>3
  <2>6. CASE onConnect
    <3>1. ~Lost /\ ~Lost' /\ link' = link /\ advertising' = advertising
      BY <2>6 DEF onConnect, Lost
    <3> QED
      BY <3>1
  <2>7. CASE LoopConnecting
    <3>1. link' = link /\ advertising' = advertising
      BY <2>7 DEF LoopConnecting
    <3>2. ~link /\ ~advertising => (Lost' <=> Lost)
      BY <2>7, EventFacts DEF LoopConnecting, IInv, Delivered, Lost
    <3> QED
      BY <3>1, <3>2
  <2>8. CASE ConnectReturns \/ LoopGone \/ LoopElse \/ WakeUp \/ Tick \/ UNCHANGED vars
    <3>1. UNCHANGED <<link, advertising, events, deviceConnected, oldDeviceConnected>>
      BY <2>8 DEF ConnectReturns, LoopGone, LoopElse, WakeUp, Tick, vars
    <3> QED
      BY <3>1 DEF Lost
  <2> QED
    BY <2>1, <2>2, <2>3, <2>4, <2>5, <2>6, <2>7, <2>8 DEF Next, Device
<1> QED
  BY <1>1, <1>2, IInvHolds, PTL DEF Spec, ImplementsSafe, Promise!Safe
=============================================================================
