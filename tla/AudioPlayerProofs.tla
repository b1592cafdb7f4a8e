--------------------------- MODULE AudioPlayerProofs ---------------------------
(***************************************************************************)
(* Proofs about AudioPlayer and about AudioApp, the firmware's use of it,  *)
(* for any files, any queue length and any number of attempts and requests. *)
(* AudioPlayer: the types; that a player that is created once loses no file *)
(* and closes none twice (the invariant adds that the task has a file      *)
(* exactly between taking a request and closing the file, and that nothing *)
(* is accepted before there is a queue); and that a delete does not take   *)
(* the queue from under the task (the invariant follows the two requests of *)
(* an attempt through the queue and charges a failed attempt to a request). *)
(* AudioApp: that it implements AudioPlayer, and the amplifier.            *)
(***************************************************************************)
EXTENDS AudioApp, SequenceTheorems, TLAPS

\* What a new request and the receiving of one do to the queue.
LEMMA Sent ==
  ASSUME event_queue \in Seq(Requests), NEW e \in Requests
  PROVE  /\ Append(event_queue, e) \in Seq(Requests)
         /\ Len(Append(event_queue, e)) = Len(event_queue) + 1
         /\ \A i \in 1 .. Len(event_queue) : Append(event_queue, e)[i] = event_queue[i]
         /\ Append(event_queue, e)[Len(event_queue) + 1] = e
BY AppendProperties

LEMMA Received ==
  ASSUME event_queue \in Seq(Requests), event_queue # <<>>
  PROVE  /\ Tail(event_queue) \in Seq(Requests)
         /\ Len(event_queue) \in Nat \ {0}
         /\ Len(Tail(event_queue)) = Len(event_queue) - 1
         /\ \A i \in 1 .. Len(event_queue) - 1 : Tail(event_queue)[i] = event_queue[i + 1]
         /\ Head(event_queue) = event_queue[1] /\ Head(event_queue) \in Requests
BY HeadTailProperties, EmptySeq, LenProperties

\* Only a request to play names a file.
LEMMA RequestType ==
  /\ \A r \in Requests : /\ r.type = "PLAY" => r.fp \in Files
                         /\ r.type # "PLAY" => r.fp = NoFile
                         /\ r.fp \in Files \cup {NoFile}
                         /\ r.type \in Controls \cup {"PLAY"}
  /\ \A type \in Controls : Control(type) \in Requests
  /\ \A f \in Files : Request("PLAY", f) \in Requests
BY DEF Requests, Controls, Control, Request

\* A delete that goes on has an attempt left.
Attempts == deleter \in {"stop", "shutdown", "delay"} => retries > 0

LEMMA NextAttempts == TypeOK /\ Attempts /\ [Next]_vars => Attempts'
<1> SUFFICES ASSUME TypeOK, Attempts, [Next]_vars PROVE Attempts'
  OBVIOUS
<1>1. retries \in Nat /\ MaxRetries \in Nat \ {0}
  BY AudioAssumption DEF TypeOK
<1>2. CASE UNCHANGED <<deleter, retries>>
  BY <1>2 DEF Attempts
<1>3. CASE DeleteCall
  BY <1>1, <1>3 DEF DeleteCall, Attempts
<1>4. CASE DeleteStop \/ DeleteShutdown
  BY <1>4 DEF DeleteStop, DeleteShutdown, Attempts
<1>5. CASE DeleteDelay \/ DeleteCleanup
  BY <1>1, <1>5 DEF DeleteDelay, DeleteCleanup, Attempts
<1> QED
  BY <1>2, <1>3, <1>4, <1>5
     DEF Next, TaskStep, Client, audio_player_new, audio_player_callback_register,
         audio_player_play, ControlRequest, clientVars, vars

\* Every step preserves the types.
LEMMA NextType == TypeOK /\ Attempts /\ [Next]_vars => TypeOK'
<1> SUFFICES ASSUME TypeOK, Attempts, [Next]_vars PROVE TypeOK'
  OBVIOUS
<1> USE DEF TypeOK, libVars, clientVars, States, Events
<1>0. Count => meanwhile' \in Nat
  BY DEF Count
<1>1. event_queue \in Seq(Requests) /\ Len(event_queue) \in Nat /\ QueueLen \in Nat \ {0}
  BY LenProperties, AudioAssumption
<1>2. event_queue # <<>> /\ Receive => event_queue' \in Seq(Requests) /\ Len(event_queue') <= QueueLen
  BY <1>1, Received DEF Receive
<1>3. \A e \in Requests :
        audio_send_event(e) => event_queue' \in Seq(Requests) /\ Len(event_queue') <= QueueLen
  BY <1>1, Sent DEF audio_send_event, Accepts
<1>4. ASSUME AudioTask, UNCHANGED clientVars PROVE TypeOK'
  <2> USE <1>4 DEF At, HeadIn, set_state
  <2>1. CASE Callback \/ LoopIdle \/ EndTask \/ OpenFile
    <3>1. CASE Callback
      BY <3>1 DEF Callback
    <3>2. CASE LoopIdle \/ EndTask
      BY <3>2 DEF LoopIdle, EndTask
    <3>3. CASE OpenFile
      BY <3>3 DEF OpenFile
    <3> QED
      BY <2>1, <3>1, <3>2, <3>3
  <2>2. CASE LoopPlay
    BY <1>1, <1>2, <2>2, Received, RequestType DEF LoopPlay
  <2>3. CASE LoopShutdown \/ LoopIgnore \/ PlayPause \/ PlayDiscard
    BY <1>2, <2>3 DEF LoopShutdown, LoopIgnore, PlayPause, PlayDiscard
  <2>4. CASE Leave \/ Decode
    BY <2>4 DEF Leave, Decode
  <2>5. CASE PausedDiscard \/ PausedResume
    BY <1>2, <2>5 DEF PausedDiscard, PausedResume
  <2>6. CASE CloseFile
    BY <2>6 DEF CloseFile
  <2> QED
    BY <2>1, <2>2, <2>3, <2>4, <2>5, <2>6 DEF AudioTask
<1>5. CASE audio_player_new
  <2>1. Len(<<>>) = 0 /\ <<>> \in Seq(Requests)
    BY EmptySeq
  <2>2. news' \in 0 .. MaxNew
    BY <1>5, AudioAssumption DEF audio_player_new
  <2>3. event_queue' \in Seq(Requests) /\ Len(event_queue') <= QueueLen
    BY <1>1, <1>5, <2>1 DEF audio_player_new
  <2> QED
    BY <1>5, <2>2, <2>3 DEF audio_player_new
<1>6. CASE audio_player_callback_register
  BY <1>6 DEF audio_player_callback_register
<1>7. ASSUME NEW f \in Files, audio_player_play(f) PROVE TypeOK'
  BY <1>0, <1>3, <1>7, RequestType DEF audio_player_play, PlayRequest
<1>8. ASSUME NEW type \in {"PAUSE", "RESUME", "STOP"}, ControlRequest(type) PROVE TypeOK'
  <2>1. Control(type) \in Requests
    BY RequestType DEF Controls
  <2>2. requests' \in 0 .. MaxRequests
    BY <1>8, AudioAssumption DEF ControlRequest
  <2> QED
    BY <1>0, <1>3, <1>8, <2>1, <2>2 DEF ControlRequest
<1>9. CASE DeleteCall
  BY <1>9, AudioAssumption DEF DeleteCall
<1>10. CASE DeleteStop \/ DeleteShutdown
  <2>1. Control("STOP") \in Requests /\ Control("SHUTDOWN_THREAD") \in Requests
    BY RequestType DEF Controls
  <2> QED
    BY <1>3, <1>10, <2>1 DEF DeleteStop, DeleteShutdown
<1>11. CASE DeleteDelay
  <2>1. retries \in 1 .. MaxRetries
    BY <1>11 DEF DeleteDelay, Attempts
  <2>2. retries' \in 0 .. MaxRetries
    BY <1>11, <2>1, AudioAssumption DEF DeleteDelay
  <2>3. deleter' \in {"stop", "cleanup"} /\ UNCHANGED <<libVars, requests, news, meanwhile>>
    BY <1>11 DEF DeleteDelay
  <2> QED
    BY <2>2, <2>3
<1>12. CASE DeleteCleanup
  <2>1. Len(<<>>) = 0 /\ <<>> \in Seq(Requests)
    BY EmptySeq
  <2> QED
    BY <1>1, <1>12, <2>1 DEF DeleteCleanup
<1>13. CASE UNCHANGED vars
  BY <1>13 DEF vars
<1> QED
  BY <1>4, <1>5, <1>6, <1>7, <1>8, <1>9, <1>10, <1>11, <1>12, <1>13 DEF Next, TaskStep, Client

-------------------------------------------------------------------------------
\* The task has a file exactly while it plays one.
HasFile == fp # NoFile <=> task \in {"open", "play", "paused", "close"}

\* Nothing happens before the player is created, and that happens once.
CreatedOnce ==
  /\ queue = "null" => task = "none" /\ event_queue = <<>>
  /\ queue # "null" => news >= 1
  /\ deleter # "idle" => queue # "null"

\* An accepted file waits in the queue, once, or is the one being played.
Waits(f) == \E i \in 1 .. Len(event_queue) : event_queue[i].fp = f

Owned ==
  /\ \A f \in Files : file[f] = "accepted" <=> Waits(f) \/ f = fp
  /\ \A f \in Files : ~(Waits(f) /\ f = fp)
  /\ \A i, j \in 1 .. Len(event_queue) :
       event_queue[i].fp = event_queue[j].fp => i = j \/ event_queue[i].fp = NoFile

FInv == TypeOK /\ HasFile /\ CreatedOnce /\ Owned

\* The steps that leave the files and the queue alone.
LEMMA OwnedStays == Owned /\ UNCHANGED <<event_queue, fp, file>> => Owned'
BY DEF Owned, Waits

\* A request that names no file comes or goes.
LEMMA OwnedControl ==
  /\ TypeOK /\ Owned /\ UNCHANGED <<fp, file>>
  /\ \/ event_queue # <<>> /\ Head(event_queue).type # "PLAY" /\ Receive
     \/ \E type \in Controls : audio_send_event(Control(type))
  => Owned'
<1> SUFFICES ASSUME TypeOK, Owned, UNCHANGED <<fp, file>>,
                    \/ event_queue # <<>> /\ Head(event_queue).type # "PLAY" /\ Receive
                    \/ \E type \in Controls : audio_send_event(Control(type))
             PROVE  Owned'
  OBVIOUS
<1>1. event_queue \in Seq(Requests) /\ Len(event_queue) \in Nat
  BY LenProperties DEF TypeOK
<1>2. CASE event_queue # <<>> /\ Head(event_queue).type # "PLAY" /\ Receive
  <2>1. /\ Len(event_queue) \in Nat \ {0} /\ Len(event_queue') = Len(event_queue) - 1
        /\ \A i \in 1 .. Len(event_queue') : event_queue'[i] = event_queue[i + 1]
        /\ event_queue[1].fp = NoFile
    BY <1>1, <1>2, Received, RequestType DEF Receive
  <2>2. \A f \in Files : Waits(f)' <=> Waits(f)
    <3> TAKE f \in Files
    <3>1. ASSUME Waits(f) PROVE Waits(f)'
      <4>1. PICK i \in 1 .. Len(event_queue) : event_queue[i].fp = f
        BY <3>1 DEF Waits
      <4>2. i # 1
        BY <2>1, <4>1, AudioAssumption
      <4>3. i - 1 \in 1 .. Len(event_queue') /\ event_queue'[i - 1] = event_queue[i]
        BY <2>1, <4>2
      <4> QED
        BY <4>1, <4>3 DEF Waits
    <3>2. ASSUME Waits(f)' PROVE Waits(f)
      <4>1. PICK i \in 1 .. Len(event_queue') : event_queue'[i].fp = f
        BY <3>2 DEF Waits
      <4>2. i + 1 \in 1 .. Len(event_queue) /\ event_queue'[i] = event_queue[i + 1]
        BY <2>1
      <4> QED
        BY <4>1, <4>2 DEF Waits
    <3> QED
      BY <3>1, <3>2
  <2>3. ASSUME NEW i \in 1 .. Len(event_queue'), NEW j \in 1 .. Len(event_queue'),
               event_queue'[i].fp = event_queue'[j].fp
        PROVE  i = j \/ event_queue'[i].fp = NoFile
    <3>1. i + 1 \in 1 .. Len(event_queue) /\ j + 1 \in 1 .. Len(event_queue)
      BY <2>1
    <3> QED
      BY <2>1, <2>3, <3>1 DEF Owned
  <2> QED
    BY <2>2, <2>3 DEF Owned
<1>3. CASE \E type \in Controls : audio_send_event(Control(type))
  <2>1. PICK type \in Controls : audio_send_event(Control(type))
    BY <1>3
  <2>2. CASE event_queue' = event_queue
    BY <2>2, OwnedStays
  <2>3. CASE event_queue' = Append(event_queue, Control(type))
    <3>1. /\ Len(event_queue') = Len(event_queue) + 1
          /\ \A i \in 1 .. Len(event_queue) : event_queue'[i] = event_queue[i]
          /\ event_queue'[Len(event_queue) + 1].fp = NoFile
      BY <1>1, <2>3, Sent, RequestType DEF Control, Request
    <3>2. \A f \in Files : Waits(f)' <=> Waits(f)
      BY <1>1, <3>1, AudioAssumption DEF Waits
    <3>3. \A i, j \in 1 .. Len(event_queue') :
            event_queue'[i].fp = event_queue'[j].fp => i = j \/ event_queue'[i].fp = NoFile
      BY <1>1, <3>1 DEF Owned
    <3> QED
      BY <3>2, <3>3 DEF Owned
  <2> QED
    BY <2>1, <2>2, <2>3 DEF audio_send_event
<1> QED
  BY <1>2, <1>3

\* A file is accepted or refused.
LEMMA OwnedPlay ==
  ASSUME TypeOK, Owned, NEW f \in Files, PlayRequest(f) PROVE Owned'
<1>1. event_queue \in Seq(Requests) /\ Len(event_queue) \in Nat
  BY LenProperties DEF TypeOK
<1>2. file[f] = "free" /\ fp' = fp /\ ~Waits(f) /\ f # fp
  BY DEF PlayRequest, Owned
<1>3. CASE ~Accepts
  <2>1. event_queue' = event_queue /\ file' = [file EXCEPT ![f] = "refused"]
    BY <1>3 DEF PlayRequest, audio_send_event
  <2> QED
    BY <1>2, <2>1 DEF TypeOK, Owned, Waits
<1>4. CASE Accepts
  <2>1. /\ file' = [file EXCEPT ![f] = "accepted"]
        /\ event_queue' = Append(event_queue, Request("PLAY", f))
    BY <1>4 DEF PlayRequest, audio_send_event
  <2>2. /\ Len(event_queue') = Len(event_queue) + 1
        /\ \A i \in 1 .. Len(event_queue) : event_queue'[i] = event_queue[i]
        /\ event_queue'[Len(event_queue) + 1].fp = f
    BY <1>1, <2>1, Sent, RequestType DEF Request
  <2>3. \A g \in Files : Waits(g)' <=> Waits(g) \/ g = f
    BY <1>1, <2>2 DEF Waits
  <2>4. \A i, j \in 1 .. Len(event_queue') :
          event_queue'[i].fp = event_queue'[j].fp => i = j \/ event_queue'[i].fp = NoFile
    BY <1>1, <1>2, <2>2 DEF Owned, Waits
  <2>5. \A g \in Files : file'[g] = "accepted" <=> file[g] = "accepted" \/ g = f
    BY <2>1 DEF TypeOK
  <2> QED
    BY <1>2, <2>3, <2>4, <2>5 DEF Owned
<1> QED
  BY <1>3, <1>4

\* The task takes the first file of the queue.
LEMMA OwnedTaken == TypeOK /\ HasFile /\ Owned /\ LoopPlay => Owned'
<1> SUFFICES ASSUME TypeOK, HasFile, Owned, LoopPlay PROVE Owned'
  OBVIOUS
<1>1. /\ event_queue \in Seq(Requests) /\ event_queue # <<>> /\ Head(event_queue).type = "PLAY"
      /\ event_queue' = Tail(event_queue) /\ fp' = Head(event_queue).fp /\ file' = file
      /\ fp = NoFile
  BY DEF TypeOK, HasFile, LoopPlay, At, HeadIn, Receive
<1>2. /\ Len(event_queue) \in Nat \ {0} /\ Len(event_queue') = Len(event_queue) - 1
      /\ \A i \in 1 .. Len(event_queue') : event_queue'[i] = event_queue[i + 1]
      /\ event_queue[1].fp = fp' /\ fp' \in Files
  BY <1>1, Received, RequestType
<1>3. ASSUME NEW f \in Files PROVE (Waits(f)' \/ f = fp') <=> Waits(f)
  <2>1. ASSUME Waits(f) PROVE Waits(f)' \/ f = fp'
    <3>1. PICK i \in 1 .. Len(event_queue) : event_queue[i].fp = f
      BY <2>1 DEF Waits
    <3>2. CASE i = 1
      BY <1>2, <3>1, <3>2
    <3>3. CASE i # 1
      <4>1. i - 1 \in 1 .. Len(event_queue') /\ event_queue'[i - 1] = event_queue[i]
        BY <1>2, <3>3
      <4> QED
        BY <3>1, <4>1 DEF Waits
    <3> QED
      BY <3>2, <3>3
  <2>2. ASSUME Waits(f)' PROVE Waits(f)
    <3>1. PICK i \in 1 .. Len(event_queue') : event_queue'[i].fp = f
      BY <2>2 DEF Waits
    <3>2. i + 1 \in 1 .. Len(event_queue) /\ event_queue'[i] = event_queue[i + 1]
      BY <1>2
    <3> QED
      BY <3>1, <3>2 DEF Waits
  <2>3. ASSUME f = fp' PROVE Waits(f)
    BY <1>2, <2>3 DEF Waits
  <2> QED
    BY <2>1, <2>2, <2>3
<1>4. ASSUME NEW i \in 1 .. Len(event_queue'), event_queue'[i].fp = fp' PROVE FALSE
  <2>1. i + 1 \in 1 .. Len(event_queue) /\ event_queue'[i] = event_queue[i + 1] /\ i + 1 # 1
    BY <1>2
  <2>2. 1 \in 1 .. Len(event_queue)
    BY <1>2
  <2> QED
    BY <1>2, <1>4, <2>1, <2>2, AudioAssumption DEF Owned
<1>5. ASSUME NEW i \in 1 .. Len(event_queue'), NEW j \in 1 .. Len(event_queue'),
             event_queue'[i].fp = event_queue'[j].fp
      PROVE  i = j \/ event_queue'[i].fp = NoFile
  <2>1. i + 1 \in 1 .. Len(event_queue) /\ j + 1 \in 1 .. Len(event_queue)
    BY <1>2
  <2> QED
    BY <1>2, <1>5, <2>1 DEF Owned
<1>6. \A f \in Files : file'[f] = "accepted" <=> Waits(f)
  BY <1>1, AudioAssumption DEF Owned
<1>7. \A f \in Files : file'[f] = "accepted" <=> Waits(f)' \/ f = fp'
  BY <1>3, <1>6
<1>8. \A f \in Files : ~(Waits(f)' /\ f = fp')
  BY <1>4 DEF Waits
<1> QED
  BY <1>5, <1>7, <1>8 DEF Owned

\* The file that was played is closed.
LEMMA OwnedClosed == TypeOK /\ HasFile /\ Owned /\ CloseFile => Owned'
<1> SUFFICES ASSUME TypeOK, HasFile, Owned, CloseFile PROVE Owned'
  OBVIOUS
<1>1. /\ fp \in Files /\ file' = [file EXCEPT ![fp] = "closed"] /\ fp' = NoFile
      /\ event_queue' = event_queue
  BY DEF TypeOK, HasFile, CloseFile, At
<1>2. \A f \in Files : Waits(f)' <=> Waits(f)
  BY <1>1 DEF Waits
<1>3. \A f \in Files : file'[f] = "accepted" <=> file[f] = "accepted" /\ f # fp
  BY <1>1 DEF TypeOK
<1>4. \A f \in Files : f # fp'
  BY <1>1, AudioAssumption
<1> QED
  BY <1>1, <1>2, <1>3, <1>4 DEF Owned

\* The files that wait go with the queue.
LEMMA OwnedCleanup == TypeOK /\ Owned /\ DeleteCleanup => Owned'
<1> SUFFICES ASSUME TypeOK, Owned, DeleteCleanup PROVE Owned'
  OBVIOUS
<1>1. /\ event_queue' = <<>> /\ fp' = fp
      /\ file' = [f \in Files |-> IF f \in Queued THEN "lost" ELSE file[f]]
  BY DEF DeleteCleanup
<1>2. Len(event_queue') = 0
  BY <1>1, EmptySeq
<1>3. \A f \in Files : ~Waits(f)'
  BY <1>2 DEF Waits
<1>4. \A f \in Files : f \in Queued <=> Waits(f)
  BY AudioAssumption DEF Queued, Waits
<1>5. \A f \in Files : file'[f] = "accepted" <=> f = fp
  BY <1>1, <1>4 DEF Owned
<1> QED
  BY <1>1, <1>2, <1>3, <1>5 DEF Owned

\* A step that does not create the player again preserves the invariant.
LEMMA NextFInv ==
  Attempts /\ FInv /\ [Next]_vars /\ (audio_player_new => queue = "null") => FInv'
<1> SUFFICES ASSUME Attempts, FInv, [Next]_vars, audio_player_new => queue = "null"
             PROVE  FInv'
  OBVIOUS
<1>1. TypeOK'
  BY NextType DEF FInv
<1> USE <1>1 DEF FInv
<1>2. ASSUME AudioTask, UNCHANGED clientVars PROVE FInv'
  <2>1. queue' = queue /\ news' = news /\ deleter' = deleter
    BY <1>2 DEF AudioTask, Callback, LoopIdle, LoopPlay, LoopShutdown, LoopIgnore, EndTask,
                OpenFile, PlayPause, Leave, PlayDiscard, Decode, PausedDiscard, PausedResume,
                CloseFile, clientVars
  <2>2. CASE Callback
    <3>1. UNCHANGED <<task, fp, file, event_queue>>
      BY <2>2 DEF Callback
    <3> QED
      BY <2>1, <3>1, OwnedStays DEF HasFile, CreatedOnce
  <2>3. CASE LoopPlay
    <3>1. HasFile' /\ CreatedOnce'
      <4>1. /\ event_queue # <<>> /\ Head(event_queue).type = "PLAY" /\ task = "loop"
            /\ fp' = Head(event_queue).fp /\ task' = "open"
        BY <2>3 DEF LoopPlay, At, HeadIn
      <4>2. fp' \in Files
        BY <4>1, Received, RequestType DEF TypeOK
      <4> QED
        BY <2>1, <4>1, <4>2, AudioAssumption DEF HasFile, CreatedOnce
    <3> QED
      BY <2>3, <3>1, OwnedTaken
  <2>4. CASE CloseFile
    <3>1. HasFile' /\ CreatedOnce'
      BY <2>1, <2>4 DEF CloseFile, At, HasFile, CreatedOnce
    <3> QED
      BY <2>4, <3>1, OwnedClosed
  <2>5. CASE LoopIdle \/ EndTask \/ OpenFile \/ Leave \/ Decode
    <3>1. /\ UNCHANGED <<fp, file, event_queue>> /\ task \notin {"none"}
          /\ task \in {"open", "play", "paused", "close"}
               <=> task' \in {"open", "play", "paused", "close"}
      BY <2>5 DEF LoopIdle, EndTask, OpenFile, Leave, Decode, At
    <3> QED
      BY <2>1, <3>1, OwnedStays DEF HasFile, CreatedOnce
  <2>6. CASE LoopShutdown \/ LoopIgnore \/ PlayPause \/ PlayDiscard \/ PausedDiscard
             \/ PausedResume
    <3>1. /\ UNCHANGED <<fp, file>> /\ task \notin {"none"} /\ Receive
          /\ event_queue # <<>> /\ Head(event_queue).type # "PLAY"
          /\ task \in {"open", "play", "paused", "close"}
               <=> task' \in {"open", "play", "paused", "close"}
      BY <2>6 DEF LoopShutdown, LoopIgnore, PlayPause, PlayDiscard, PausedDiscard, PausedResume,
                  At, HeadIn
    <3> QED
      BY <2>1, <3>1, OwnedControl DEF HasFile, CreatedOnce
  <2> QED
    BY <1>2, <2>2, <2>3, <2>4, <2>5, <2>6 DEF AudioTask
<1>3. CASE audio_player_new
  <2>1. queue = "null" /\ news \in Nat
    BY <1>3, AudioAssumption DEF TypeOK
  <2>2. /\ UNCHANGED <<fp, file, event_queue>> /\ task = "none" /\ task' = "loop"
        /\ queue' = "live" /\ news' = news + 1 /\ deleter' = deleter
    BY <1>3, <2>1 DEF audio_player_new, CreatedOnce
  <2> QED
    BY <2>1, <2>2, OwnedStays DEF HasFile, CreatedOnce
<1>4. CASE audio_player_callback_register \/ DeleteCall \/ DeleteDelay \/ UNCHANGED vars
  <2>1. /\ UNCHANGED <<event_queue, queue, task, fp, file, news>>
        /\ deleter' # "idle" => queue = "live" \/ deleter # "idle"
    BY <1>4 DEF audio_player_callback_register, DeleteCall, DeleteDelay, libVars, clientVars, vars
  <2> QED
    BY <2>1, OwnedStays DEF HasFile, CreatedOnce
<1>5. ASSUME NEW f \in Files, audio_player_play(f) PROVE FInv'
  <2>1. /\ PlayRequest(f) /\ UNCHANGED <<queue, task, fp, news>>
        /\ queue = "null" => event_queue' = event_queue
        /\ deleter' = deleter
    BY <1>5 DEF audio_player_play, PlayRequest, audio_send_event, Accepts
  <2> QED
    BY <2>1, OwnedPlay DEF HasFile, CreatedOnce
<1>6. ASSUME \/ \E type \in {"PAUSE", "RESUME", "STOP"} : ControlRequest(type)
             \/ DeleteStop \/ DeleteShutdown
      PROVE  FInv'
  <2>1. /\ \E type \in Controls : audio_send_event(Control(type))
        /\ UNCHANGED <<queue, task, fp, file, news>>
        /\ deleter' # "idle" => deleter # "idle"
    BY <1>6 DEF ControlRequest, DeleteStop, DeleteShutdown, Controls
  <2>2. queue = "null" => event_queue' = event_queue
    BY <2>1 DEF audio_send_event, Accepts
  <2> QED
    BY <2>1, <2>2, OwnedControl DEF HasFile, CreatedOnce
<1>7. CASE DeleteCleanup
  <2>1. UNCHANGED <<task, fp, news>> /\ queue' = "deleted" /\ deleter = "cleanup"
    BY <1>7 DEF DeleteCleanup
  <2>2. news >= 1
    BY <2>1 DEF CreatedOnce
  <2> QED
    BY <1>7, <2>1, <2>2, OwnedCleanup DEF HasFile, CreatedOnce
<1> QED
  BY <1>2, <1>3, <1>4, <1>5, <1>6, <1>7 DEF Next, TaskStep, Client

\* The invariant says what the property says.
LEMMA FInvOwned == FInv => FilesOwned
<1> SUFFICES ASSUME FInv PROVE FilesOwned
  OBVIOUS
<1>1. \A f : f \in Queued <=> f # NoFile /\ Waits(f)
  BY DEF Queued, Waits
<1>2. fp \in Files \cup {NoFile} /\ Queued \subseteq Files
  <2>1. \A i \in 1 .. Len(event_queue) : event_queue[i] \in Requests
    BY DEF FInv, TypeOK
  <2>2. \A i \in 1 .. Len(event_queue) : event_queue[i].fp \in Files \cup {NoFile}
    BY <2>1, RequestType
  <2> QED
    BY <2>2 DEF Queued, FInv, TypeOK
<1>3. {f \in Files : file[f] = "accepted"} = Queued \cup ({fp} \ {NoFile})
  BY <1>1, <1>2, AudioAssumption DEF FInv, Owned
<1>4. fp \notin Queued
  BY <1>1, <1>2 DEF FInv, Owned
<1> QED
  BY <1>3, <1>4 DEF FilesOwned, FInv, Owned

\* The first state.
LEMMA InitFInv == Init => FInv /\ Attempts
<1> SUFFICES ASSUME Init PROVE FInv /\ Attempts
  OBVIOUS
<1>1. event_queue = <<>> /\ <<>> \in Seq(Requests) /\ Len(event_queue) = 0
  BY EmptySeq DEF Init
<1>2. TypeOK
  <2>1. QueueLen \in Nat /\ MaxRetries \in 0 .. MaxRetries /\ 0 \in 0 .. MaxRequests
        /\ 0 \in 0 .. MaxNew
    BY AudioAssumption
  <2>2. event_queue \in Seq(Requests) /\ Len(event_queue) <= QueueLen
    BY <1>1, <2>1
  <2>3. file \in [Files -> {"free", "accepted", "closed", "refused", "lost"}]
    BY DEF Init
  <2> QED
    BY <2>1, <2>2, <2>3 DEF Init, TypeOK, States, Events
<1>3. HasFile /\ CreatedOnce /\ Attempts
  BY <1>1 DEF Init, HasFile, CreatedOnce, Attempts
<1>4. Owned
  BY <1>1, AudioAssumption DEF Init, Owned, Waits
<1> QED
  BY <1>2, <1>3, <1>4 DEF FInv

-------------------------------------------------------------------------------
\* Every variable keeps its type: in particular the queue never holds more than
\* its length, and the attempts of a delete never run below zero
\* (audio_player.cpp 582-594).
THEOREM TypeCorrect == Spec => []TypeOK
<1>1. Init => TypeOK /\ Attempts
  BY InitFInv DEF FInv
<1>2. TypeOK /\ Attempts /\ [Next]_vars => (TypeOK /\ Attempts)'
  BY NextType, NextAttempts
<1> QED
  BY <1>1, <1>2, PTL DEF Spec

\* A player that is created once, as the firmware does (audio_task.c 186), keeps
\* every file it has accepted, in its queue or at its task, until it closes it,
\* and closes none twice, for any number of files and requests.
THEOREM FilesKept == ASSUME MaxNew <= 1 PROVE Spec => []FilesOwned
<1>1. Init => FInv /\ Attempts
  BY InitFInv
<1>2. FInv /\ Attempts /\ [Next]_vars => (FInv /\ Attempts)'
  <2> SUFFICES ASSUME FInv, Attempts, [Next]_vars PROVE (FInv /\ Attempts)'
    OBVIOUS
  <2>1. ASSUME audio_player_new PROVE queue = "null"
    <3>1. news \in Nat /\ news < MaxNew /\ MaxNew \in Nat
      BY <2>1, AudioAssumption DEF audio_player_new, FInv, TypeOK
    <3>2. news = 0
      BY <3>1
    <3> QED
      BY <3>2 DEF FInv, CreatedOnce
  <2> QED
    BY <2>1, NextFInv, NextAttempts DEF FInv
<1> QED
  BY <1>1, <1>2, FInvOwned, PTL DEF Spec

-------------------------------------------------------------------------------
(* audio_player_delete and the task. *)

\* The task has ended.
Ended == task = "gone" /\ ~running

\* Attempts that have failed.
Tried == MaxRetries - retries

\* In an attempt that nobody disturbs the queue was empty when it began; it holds
\* the two requests of the attempt, or what the task has left of them.
Stopping ==
  \/ event_queue = <<Control("STOP")>>
  \/ event_queue = <<>> /\ task = "loop"

Ending ==
  \/ event_queue = <<Control("STOP"), Control("SHUTDOWN_THREAD")>>
  \/ event_queue = <<Control("SHUTDOWN_THREAD")>> /\ task = "loop"
  \/ event_queue = <<>> /\ task \in {"ending", "gone"}

Undisturbed ==
  /\ deleter = "stop" => event_queue = <<>>
  /\ deleter = "shutdown" => Stopping
  /\ deleter = "delay" => Ending

\* Every attempt but the first has failed for a request of its own, or it is the
\* present one that nobody has disturbed.
Charged == meanwhile >= Tried \/ (meanwhile + 1 >= Tried /\ Undisturbed)

DInv ==
  /\ running <=> task \notin {"none", "gone"}
  /\ queue = "null" <=> task = "none"
  /\ deleter # "idle" => queue = "live"
  /\ deleter \in {"stop", "shutdown", "delay"} => Charged
  /\ deleter = "cleanup" \/ queue = "deleted" => Ended \/ meanwhile >= MaxRetries - 1

\* What the task does to a queue of a delete's requests.
LEMMA TaskUndisturbed ==
  ASSUME TypeOK, AudioTask, UNCHANGED clientVars, Undisturbed PROVE Undisturbed'
<1>1. /\ Control("STOP").type = "STOP" /\ Control("SHUTDOWN_THREAD").type = "SHUTDOWN_THREAD"
      /\ event_queue \in Seq(Requests)
  BY DEF Control, Request, TypeOK
<1>2. ASSUME event_queue = <<>>
      PROVE  /\ event_queue' = <<>>
             /\ task = "loop" => task' = "loop"
             /\ task \in {"ending", "gone"} => task' \in {"ending", "gone"}
  BY <1>2 DEF AudioTask, Callback, LoopIdle, LoopPlay, LoopShutdown, LoopIgnore, EndTask,
              OpenFile, PlayPause, Leave, PlayDiscard, Decode, PausedDiscard, PausedResume,
              CloseFile, At, HeadIn
<1>3. ASSUME event_queue # <<>>, Head(event_queue).type = "STOP"
      PROVE  \/ event_queue' = event_queue
             \/ event_queue' = Tail(event_queue) /\ task' = "loop"
  <2>1. ~(LoopPlay \/ LoopShutdown \/ PlayPause \/ PlayDiscard \/ PausedDiscard \/ PausedResume)
    BY <1>3 DEF LoopPlay, LoopShutdown, PlayPause, PlayDiscard, PausedDiscard, PausedResume, HeadIn
  <2>2. LoopIgnore => event_queue' = Tail(event_queue) /\ task' = "loop"
    BY DEF LoopIgnore, At, Receive
  <2>3. Callback \/ LoopIdle \/ EndTask \/ OpenFile \/ Leave \/ Decode \/ CloseFile
          => event_queue' = event_queue
    BY DEF Callback, LoopIdle, EndTask, OpenFile, Leave, Decode, CloseFile
  <2> QED
    BY <2>1, <2>2, <2>3 DEF AudioTask
<1>4. ASSUME event_queue # <<>>, Head(event_queue).type = "SHUTDOWN_THREAD", task = "loop"
      PROVE  \/ event_queue' = event_queue /\ task' = "loop"
             \/ event_queue' = Tail(event_queue) /\ task' = "ending"
  BY <1>4 DEF AudioTask, Callback, LoopIdle, LoopPlay, LoopShutdown, LoopIgnore, EndTask,
              OpenFile, PlayPause, Leave, PlayDiscard, Decode, PausedDiscard, PausedResume,
              CloseFile, At, HeadIn, Receive
<1>5. deleter' = deleter
  BY DEF clientVars
<1>6. CASE deleter = "stop"
  BY <1>2, <1>5, <1>6 DEF Undisturbed
<1>7. CASE deleter = "shutdown"
  <2>1. CASE event_queue = <<>> /\ task = "loop"
    BY <1>2, <1>5, <1>7, <2>1 DEF Undisturbed, Stopping
  <2>2. CASE event_queue = <<Control("STOP")>>
    <3>1. /\ event_queue # <<>> /\ Head(event_queue).type = "STOP" /\ Tail(event_queue) = <<>>
      BY <1>1, <2>2
    <3> QED
      BY <1>3, <1>5, <1>7, <2>2, <3>1 DEF Undisturbed, Stopping
  <2> QED
    BY <1>7, <2>1, <2>2 DEF Undisturbed, Stopping
<1>8. CASE deleter = "delay"
  <2>1. CASE event_queue = <<>> /\ task \in {"ending", "gone"}
    BY <1>2, <1>5, <1>8, <2>1 DEF Undisturbed, Ending
  <2>2. CASE event_queue = <<Control("SHUTDOWN_THREAD")>> /\ task = "loop"
    <3>1. /\ event_queue # <<>> /\ Head(event_queue).type = "SHUTDOWN_THREAD"
          /\ Tail(event_queue) = <<>>
      BY <1>1, <2>2
    <3> QED
      BY <1>4, <1>5, <1>8, <2>2, <3>1 DEF Undisturbed, Ending
  <2>3. CASE event_queue = <<Control("STOP"), Control("SHUTDOWN_THREAD")>>
    <3>1. /\ event_queue # <<>> /\ Head(event_queue).type = "STOP"
          /\ Tail(event_queue) = <<Control("SHUTDOWN_THREAD")>>
      BY <1>1, <2>3
    <3> QED
      BY <1>3, <1>5, <1>8, <2>3, <3>1 DEF Undisturbed, Ending
  <2> QED
    BY <1>8, <2>1, <2>2, <2>3 DEF Undisturbed, Ending
<1>9. CASE deleter \notin {"stop", "shutdown", "delay"}
  BY <1>5, <1>9 DEF Undisturbed
<1> QED
  BY <1>6, <1>7, <1>8, <1>9

\* A request of a client is counted, or refused.
LEMMA ClientCharged ==
  ASSUME TypeOK, Charged, NEW e \in Requests, audio_send_event(e), Count,
         deleter # "idle", UNCHANGED <<task, deleter, retries>>
  PROVE  Charged'
<1>1. meanwhile \in Nat /\ retries \in Nat /\ MaxRetries \in Nat
  BY AudioAssumption DEF TypeOK
<1>2. CASE Accepts
  <2>1. meanwhile' = meanwhile + 1
    BY <1>2 DEF Count
  <2>2. meanwhile >= Tried \/ meanwhile + 1 >= Tried
    BY DEF Charged
  <2>3. meanwhile' >= Tried'
    BY <1>1, <2>1, <2>2 DEF Tried
  <2> QED
    BY <2>3 DEF Charged
<1>3. CASE ~Accepts
  <2>1. meanwhile' = meanwhile /\ event_queue' = event_queue
    BY <1>3 DEF Count, audio_send_event
  <2>2. Undisturbed' <=> Undisturbed
    BY <2>1 DEF Undisturbed, Stopping, Ending
  <2> QED
    BY <2>1, <2>2 DEF Charged, Tried
<1> QED
  BY <1>2, <1>3

\* Every step preserves the invariant, if the queue has room for the two requests.
LEMMA NextDInv ==
  QueueLen >= 2 /\ TypeOK /\ Attempts /\ DInv /\ [Next]_vars => DInv'
<1> SUFFICES ASSUME QueueLen >= 2, TypeOK, Attempts, DInv, [Next]_vars PROVE DInv'
  OBVIOUS
<1>1. meanwhile \in Nat /\ retries \in Nat /\ MaxRetries \in Nat \ {0} /\ QueueLen \in Nat
      /\ event_queue \in Seq(Requests)
  BY AudioAssumption DEF TypeOK
<1>2. ASSUME AudioTask, UNCHANGED clientVars PROVE DInv'
  <2>1. UNCHANGED <<queue, deleter, retries, meanwhile>>
    BY <1>2 DEF AudioTask, Callback, LoopIdle, LoopPlay, LoopShutdown, LoopIgnore, EndTask,
                OpenFile, PlayPause, Leave, PlayDiscard, Decode, PausedDiscard, PausedResume,
                CloseFile, clientVars
  <2>2. /\ task = "none" <=> task' = "none"
        /\ running' <=> task' \notin {"none", "gone"}
        /\ Ended => Ended'
    BY <1>2 DEF DInv, Ended, AudioTask, Callback, LoopIdle, LoopPlay, LoopShutdown, LoopIgnore,
                EndTask, OpenFile, PlayPause, Leave, PlayDiscard, Decode, PausedDiscard,
                PausedResume, CloseFile, At
  <2>3. Charged => Charged'
    BY <1>2, <2>1, TaskUndisturbed DEF Charged, Tried
  <2> QED
    BY <2>1, <2>2, <2>3 DEF DInv
<1>3. CASE audio_player_new
  <2>1. deleter = "idle"
    BY <1>3 DEF audio_player_new, DInv
  <2> QED
    BY <1>3, <2>1 DEF audio_player_new, DInv
<1>4. ASSUME NEW e \in Requests, audio_send_event(e), Count, Callable,
             UNCHANGED <<queue, running, task, deleter, retries>>
      PROVE  DInv'
  <2>1. deleter # "idle" /\ Charged => Charged'
    BY <1>4, ClientCharged
  <2>2. meanwhile' \in Nat /\ meanwhile' >= meanwhile
    BY <1>1, <1>4 DEF Count
  <2>3. meanwhile >= MaxRetries - 1 => meanwhile' >= MaxRetries - 1
    BY <1>1, <2>2
  <2>4. Ended' <=> Ended
    BY <1>4 DEF Ended
  <2> QED
    BY <1>4, <2>1, <2>3, <2>4 DEF DInv
<1>5. CASE audio_player_callback_register \/ UNCHANGED vars
  <2>1. UNCHANGED <<event_queue, queue, running, task, deleter, retries, meanwhile>>
    BY <1>5 DEF audio_player_callback_register, vars, libVars, clientVars
  <2> QED
    BY <2>1 DEF DInv, Charged, Tried, Undisturbed, Stopping, Ending, Ended
<1>6. ASSUME NEW f \in Files, audio_player_play(f) PROVE DInv'
  <2>1. Request("PLAY", f) \in Requests
    BY RequestType
  <2> QED
    BY <1>4, <1>6, <2>1 DEF audio_player_play, PlayRequest
<1>7. ASSUME NEW type \in {"PAUSE", "RESUME", "STOP"}, ControlRequest(type) PROVE DInv'
  <2>1. Control(type) \in Requests
    BY RequestType DEF Controls
  <2> QED
    BY <1>4, <1>7, <2>1 DEF ControlRequest
<1>8. CASE DeleteCall
  <2>1. /\ queue = "live" /\ UNCHANGED <<queue, running, task, meanwhile>>
        /\ retries' = MaxRetries /\ deleter' = IF running THEN "stop" ELSE "cleanup"
    BY <1>8 DEF DeleteCall, libVars
  <2>2. Charged'
    <3>1. meanwhile' >= Tried'
      BY <1>1, <2>1 DEF Tried
    <3> QED
      BY <3>1 DEF Charged
  <2>3. ~running => Ended'
    BY <2>1 DEF DInv, Ended
  <2> QED
    BY <2>1, <2>2, <2>3 DEF DInv
<1>9. CASE DeleteStop
  <2>1. /\ deleter = "stop" /\ deleter' = "shutdown" /\ audio_send_event(Control("STOP"))
        /\ UNCHANGED <<queue, running, task, retries, meanwhile>>
    BY <1>9 DEF DeleteStop
  <2>2. queue = "live" /\ Charged
    BY <2>1 DEF DInv
  <2>3. event_queue = <<>> => event_queue' = <<Control("STOP")>>
    BY <1>1, <2>1, <2>2, EmptySeq DEF audio_send_event, Accepts
  <2>4. Charged'
    BY <2>1, <2>2, <2>3 DEF Charged, Tried, Undisturbed, Stopping
  <2> QED
    BY <2>1, <2>2, <2>4 DEF DInv, Ended
<1>10. CASE DeleteShutdown
  <2>1. /\ deleter = "shutdown" /\ deleter' = "delay"
        /\ audio_send_event(Control("SHUTDOWN_THREAD"))
        /\ UNCHANGED <<queue, running, task, retries, meanwhile>>
    BY <1>10 DEF DeleteShutdown
  <2>2. queue = "live" /\ Charged
    BY <2>1 DEF DInv
  <2>3. event_queue = <<>> => event_queue' = <<Control("SHUTDOWN_THREAD")>>
    BY <1>1, <2>1, <2>2, EmptySeq DEF audio_send_event, Accepts
  <2>4. event_queue = <<Control("STOP")>> =>
          event_queue' = <<Control("STOP"), Control("SHUTDOWN_THREAD")>>
    <3> SUFFICES ASSUME event_queue = <<Control("STOP")>>
                 PROVE  event_queue' = <<Control("STOP"), Control("SHUTDOWN_THREAD")>>
      OBVIOUS
    <3>1. Len(event_queue) = 1
      OBVIOUS
    <3>2. event_queue' = Append(event_queue, Control("SHUTDOWN_THREAD"))
      BY <1>1, <2>1, <2>2, <3>1 DEF audio_send_event, Accepts
    <3> DEFINE both == <<Control("STOP"), Control("SHUTDOWN_THREAD")>>
    <3>3. Control("STOP") \in Requests /\ Control("SHUTDOWN_THREAD") \in Requests
      BY RequestType DEF Controls
    <3>4. event_queue' \in Seq(Requests) /\ both \in Seq(Requests)
      BY <1>1, <3>2, <3>3, Sent
    <3>5. Len(event_queue') = 2 /\ Len(both) = 2
      BY <1>1, <3>1, <3>2, <3>3, Sent
    <3>6. event_queue'[1] = both[1] /\ event_queue'[2] = both[2]
      BY <1>1, <3>1, <3>2, <3>3, Sent
    <3>7. \A i \in 1 .. Len(event_queue') : event_queue'[i] = both[i]
      BY <3>5, <3>6
    <3> QED
      BY <3>4, <3>5, <3>7, SeqEqual
  <2>5. Charged'
    BY <2>1, <2>2, <2>3, <2>4 DEF Charged, Tried, Undisturbed, Stopping, Ending
  <2> QED
    BY <2>1, <2>2, <2>5 DEF DInv, Ended
<1>11. CASE DeleteDelay
  <2>1. /\ deleter = "delay" /\ Settled /\ retries' = retries - 1
        /\ deleter' = IF running /\ retries' > 0 THEN "stop" ELSE "cleanup"
        /\ UNCHANGED <<queue, running, task, event_queue, meanwhile>>
    BY <1>11 DEF DeleteDelay, libVars
  <2>2. queue = "live" /\ Charged /\ retries > 0
    BY <2>1 DEF DInv, Attempts
  <2>3. CASE ~running
    <3>1. deleter' = "cleanup" /\ Ended'
      BY <2>1, <2>2, <2>3 DEF DInv, Ended
    <3> QED
      BY <2>1, <2>2, <3>1 DEF DInv, Ended
  <2>4. CASE running
    <3>1. event_queue = <<>> /\ task \in {"loop", "play", "paused"}
      BY <2>1, <2>4 DEF Settled, DInv
    <3>2. ~Undisturbed
      BY <1>1, <2>1, <3>1 DEF Undisturbed, Ending
    <3>3. meanwhile >= MaxRetries - retries
      BY <2>2, <3>2 DEF Charged, Tried
    <3>4. meanwhile + 1 >= MaxRetries - (retries - 1)
      BY <1>1, <3>3
    <3>5. CASE deleter' = "stop"
      <4>1. Charged'
        BY <2>1, <3>1, <3>4, <3>5 DEF Charged, Tried, Undisturbed
      <4> QED
        BY <2>1, <2>2, <3>5, <4>1 DEF DInv, Ended
    <3>6. CASE deleter' = "cleanup"
      <4>1. retries = 1
        BY <1>1, <2>1, <2>2, <2>4, <3>6
      <4>2. meanwhile >= MaxRetries - 1
        BY <3>3, <4>1
      <4> QED
        BY <2>1, <2>2, <3>6, <4>2 DEF DInv, Ended
    <3> QED
      BY <2>1, <3>5, <3>6
  <2> QED
    BY <2>3, <2>4
<1>12. CASE DeleteCleanup
  BY <1>12 DEF DeleteCleanup, DInv, Ended
<1> QED
  BY <1>2, <1>3, <1>5, <1>6, <1>7, <1>8, <1>9, <1>10, <1>11, <1>12 DEF Next, TaskStep, Client

\* audio_player_delete does not take the queue from under the task unless the
\* clients send it nearly as many requests as it has attempts, for any number of
\* attempts, if the queue holds the two requests of an attempt (it has four places,
\* audio_player.cpp 582-594).
THEOREM QueueKept == ASSUME QueueLen >= 2 PROVE Spec => []QueueOutlivesTask
<1>1. Init => TypeOK /\ Attempts /\ DInv
  <2>1. Init => DInv
    BY DEF Init, DInv
  <2> QED
    BY <2>1, InitFInv DEF FInv
<1>2. TypeOK /\ Attempts /\ DInv /\ [Next]_vars => (TypeOK /\ Attempts /\ DInv)'
  BY NextType, NextAttempts, NextDInv
<1>3. DInv => QueueOutlivesTask
  BY DEF DInv, QueueOutlivesTask, Ended
<1> QED
  BY <1>1, <1>2, <1>3, PTL DEF Spec

-------------------------------------------------------------------------------
(* The player in the firmware: AudioApp. *)

\* A step of the firmware is a step of the player and its clients, or none.
LEMMA AppStep == [AppNext]_allVars => [Next]_vars
<1> SUFFICES ASSUME [AppNext]_allVars PROVE [Next]_vars
  OBVIOUS
<1>1. CASE PlayerStep
  BY <1>1 DEF PlayerStep, audio_player_callback, Next, TaskStep, AudioTask
<1>2. CASE Starter
  BY <1>2 DEF Starter, StartAmp, StartPlayer, StartCallback, StartCoin, Next, Client
<1>3. ASSUME NEW c \in Callers, Caller(c) PROVE [Next]_vars
  BY <1>3 DEF Caller, AmpOn, CheckIdle, OpenAndPlay, Next, Client
<1>4. CASE UNCHANGED allVars
  BY <1>4 DEF allVars
<1> QED
  BY <1>1, <1>2, <1>3, <1>4 DEF AppNext

\* The firmware uses the player as any client may: what holds of every use of the
\* player holds of this one (app_audio.cpp 14-60, audio_task.c 330-360).
THEOREM AppImplementsPlayer == AppSpec => Spec
<1>1. AppInit => Init
  BY DEF AppInit
<1> QED
  BY <1>1, AppStep, PTL DEF AppSpec, Spec

\* task_audio creates the player once, and registers the callback before its sound.
StartedOnce ==
  /\ starter \in {"amp", "new"} => queue = "null"
  /\ starter \in {"amp", "new", "register", "coin", "done"}
  /\ s_audio_cb => starter \in {"coin", "done"}

LEMMA NextStartedOnce == StartedOnce /\ [AppNext]_allVars => StartedOnce'
<1> SUFFICES ASSUME StartedOnce, [AppNext]_allVars PROVE StartedOnce'
  OBVIOUS
<1>1. CASE PlayerStep
  <2>1. UNCHANGED <<starter, queue, s_audio_cb>>
    BY <1>1 DEF PlayerStep, audio_player_callback, appVars, AudioTask, Callback, LoopIdle,
                LoopPlay, LoopShutdown, LoopIgnore, EndTask, OpenFile, PlayPause, Leave,
                PlayDiscard, Decode, PausedDiscard, PausedResume, CloseFile
  <2> QED
    BY <2>1 DEF StartedOnce
<1>2. CASE StartAmp
  BY <1>2 DEF StartAmp, StartedOnce, vars, libVars
<1>3. CASE StartPlayer
  BY <1>3 DEF StartPlayer, audio_player_new, StartedOnce
<1>4. CASE StartCallback
  BY <1>4 DEF StartCallback, audio_player_callback_register, StartedOnce
<1>5. CASE StartCoin
  BY <1>5 DEF StartCoin, audio_player_play, PlayRequest, StartedOnce
<1>6. ASSUME NEW c \in Callers, Caller(c) PROVE StartedOnce'
  <2>1. UNCHANGED <<starter, queue, s_audio_cb>>
    BY <1>6 DEF Caller, AmpOn, CheckIdle, OpenAndPlay, audio_player_play, PlayRequest, vars,
                libVars
  <2> QED
    BY <2>1 DEF StartedOnce
<1>7. CASE UNCHANGED allVars
  BY <1>7 DEF allVars, vars, libVars, appVars, StartedOnce
<1> QED
  BY <1>1, <1>2, <1>3, <1>4, <1>5, <1>6, <1>7 DEF AppNext, Starter

LEMMA InitStartedOnce == AppInit => StartedOnce
BY DEF AppInit, Init, StartedOnce

\* In the firmware every file that was accepted is in the queue or at the task until
\* it is closed, whatever number of players might be created: task_audio creates one
\* (audio_task.c 186).
THEOREM AppFilesKept == AppSpec => []FilesOwned
<1>1. AppInit => FInv /\ Attempts /\ StartedOnce
  BY InitFInv, InitStartedOnce DEF AppInit
<1>2. FInv /\ Attempts /\ StartedOnce /\ [AppNext]_allVars => (FInv /\ Attempts /\ StartedOnce)'
  <2> SUFFICES ASSUME FInv, Attempts, StartedOnce, [AppNext]_allVars
               PROVE  (FInv /\ Attempts /\ StartedOnce)'
    OBVIOUS
  <2>1. [Next]_vars /\ StartedOnce'
    BY AppStep, NextStartedOnce
  <2>2. ASSUME audio_player_new PROVE queue = "null"
    <3>1. queue # "live" /\ queue' = "live"
      BY <2>2 DEF audio_player_new
    <3>2. CASE StartPlayer
      BY <3>2 DEF StartPlayer, StartedOnce
    <3>3. CASE ~StartPlayer
      <4>1. queue' = queue
        BY <3>3 DEF AppNext, PlayerStep, audio_player_callback, AudioTask, Callback, LoopIdle,
             LoopPlay, LoopShutdown, LoopIgnore, EndTask, OpenFile, PlayPause, Leave, PlayDiscard,
             Decode, PausedDiscard, PausedResume, CloseFile, Starter, StartAmp, StartCallback,
             StartCoin, audio_player_callback_register, Caller, AmpOn, CheckIdle, OpenAndPlay,
             audio_player_play, PlayRequest, allVars, vars, libVars
      <4> QED
        BY <3>1, <4>1
    <3> QED
      BY <3>2, <3>3
  <2> QED
    BY <2>1, <2>2, NextFInv, NextAttempts DEF FInv
<1> QED
  BY <1>1, <1>2, FInvOwned, PTL DEF AppSpec

\* Nobody has asked for a sound since the last one ended.
Quiet ==
  /\ task \in {"none", "loop"} /\ event_queue = <<>>
  /\ starter \in {"amp", "done"}
  /\ \A c \in Callers : caller[c] = "idle"

\* The player becomes idle in its loop only; a sound is under way with the amplifier
\* on, unless the request for it was overtaken.
AmpInv ==
  /\ cb = "IDLE" => task = "loop"
  /\ amp \/ overtaken \/ Quiet

LEMMA NextAmpInv == StartedOnce /\ AmpInv /\ [AppNext]_allVars => AmpInv'
<1> SUFFICES ASSUME StartedOnce, AmpInv, [AppNext]_allVars PROVE AmpInv'
  OBVIOUS
<1>1. CASE audio_player_callback
  <2>1. Callback /\ cb' = "none" /\ UNCHANGED <<task, event_queue, starter, caller>>
    BY <1>1 DEF audio_player_callback, Callback
  <2>2. CASE s_audio_cb /\ cb \in OffEvents
    <3>1. amp' = FALSE /\ overtaken' = Pending /\ task = "loop"
      BY <1>1, <2>2 DEF audio_player_callback, OffEvents, AmpInv
    <3>2. ~Pending => Quiet'
      BY <2>1, <2>2, <3>1 DEF Pending, Quiet, StartedOnce
    <3> QED
      BY <2>1, <3>1, <3>2 DEF AmpInv
  <2>3. CASE ~(s_audio_cb /\ cb \in OffEvents)
    <3>1. UNCHANGED <<amp, overtaken>>
      BY <1>1, <2>3 DEF audio_player_callback
    <3> QED
      BY <2>1, <3>1 DEF AmpInv, Quiet
  <2> QED
    BY <2>2, <2>3
<1>2. CASE AudioTask /\ ~Callback /\ UNCHANGED <<clientVars, appVars>>
  <2>1. UNCHANGED <<amp, overtaken, starter, caller>>
    BY <1>2 DEF appVars
  <2>2. cb' = "IDLE" => task' = "loop"
    BY <1>2 DEF AmpInv, AudioTask, LoopIdle, LoopPlay, LoopShutdown, LoopIgnore, EndTask, OpenFile,
                PlayPause, Leave, PlayDiscard, Decode, PausedDiscard, PausedResume, CloseFile,
                At, set_state
  <2>3. task \in {"none", "loop"} /\ event_queue = <<>> =>
          task' \in {"none", "loop"} /\ event_queue' = <<>>
    BY <1>2 DEF AudioTask, LoopIdle, LoopPlay, LoopShutdown, LoopIgnore, EndTask, OpenFile,
                PlayPause, Leave, PlayDiscard, Decode, PausedDiscard, PausedResume, CloseFile,
                At, HeadIn
  <2> QED
    BY <2>1, <2>2, <2>3 DEF AmpInv, Quiet
<1>3. CASE StartAmp
  BY <1>3 DEF StartAmp, AmpInv, vars, libVars
<1>4. CASE StartPlayer
  BY <1>4 DEF StartPlayer, audio_player_new, AmpInv, Quiet
<1>5. CASE StartCallback
  BY <1>5 DEF StartCallback, audio_player_callback_register, AmpInv, Quiet
<1>6. CASE StartCoin
  BY <1>6 DEF StartCoin, audio_player_play, PlayRequest, AmpInv, Quiet
<1>7. ASSUME NEW c \in Callers, Caller(c) PROVE AmpInv'
  <2>1. CASE AmpOn(c)
    BY <2>1 DEF AmpOn, AmpInv, vars, libVars
  <2>2. CASE CheckIdle(c) \/ OpenAndPlay(c)
    <3>1. ~Quiet /\ UNCHANGED <<amp, overtaken>>
      BY <2>2 DEF CheckIdle, OpenAndPlay, Quiet
    <3>2. UNCHANGED <<task, cb>>
      BY <2>2 DEF CheckIdle, OpenAndPlay, audio_player_play, PlayRequest, vars, libVars
    <3> QED
      BY <3>1, <3>2 DEF AmpInv
  <2> QED
    BY <1>7, <2>1, <2>2 DEF Caller
<1>8. CASE UNCHANGED allVars
  BY <1>8 DEF allVars, vars, libVars, appVars, AmpInv, Quiet
<1> QED
  BY <1>1, <1>2, <1>3, <1>4, <1>5, <1>6, <1>7, <1>8 DEF AppNext, PlayerStep, Starter

\* Every sound is played with the amplifier on, but for a request that the end of the
\* sound before it overtook, for any number of callers, files and places in the queue
\* (audio_player.cpp 174-179, audio_task.c 73-76, app_audio.cpp 14).
THEOREM SoundsHeard == AppSpec => []AmpOnWhilePlaying
<1>1. AppInit => StartedOnce /\ AmpInv
  BY InitStartedOnce DEF AppInit, Init, AmpInv, Quiet
<1>2. StartedOnce /\ AmpInv /\ [AppNext]_allVars => (StartedOnce /\ AmpInv)'
  BY NextStartedOnce, NextAmpInv
<1>3. AmpInv => AmpOnWhilePlaying
  BY DEF AmpInv, Quiet, AmpOnWhilePlaying
<1> QED
  BY <1>1, <1>2, <1>3, PTL DEF AppSpec

===============================================================================
