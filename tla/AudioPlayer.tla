---------------------------- MODULE AudioPlayer ----------------------------
(***************************************************************************)
(* The audio player of src/components/chmorgan__esp-audio-player: one task *)
(* (audio_task, with aplay_file inside it) that plays the files sent to it *)
(* through a queue, and the calls of its clients: new, register, play,     *)
(* pause, resume, stop and delete, each possible at any moment.            *)
(*                                                                         *)
(* One step of a client is one call; delete takes several, for it waits.   *)
(* A step of the task ends at the next place where it looks at the queue,  *)
(* calls back, or closes the file.  set_state assigns the state and then   *)
(* calls back: cb is the callback the task has still to make.  Decoding is *)
(* one step that may repeat or end; what is decoded is left out.           *)
(***************************************************************************)
EXTENDS Naturals, Sequences, FiniteSets

CONSTANTS
  Files,        \* open files; each is played at most once
  NoFile,
  QueueLen,     \* length of the event queue (4)
  MaxRetries,   \* attempts of audio_player_delete (5)
  MaxRequests,  \* bound on pause, resume and stop requests
  MaxNew        \* bound on audio_player_new calls

ASSUME AudioAssumption ==
  /\ NoFile \notin Files
  /\ QueueLen \in Nat \ {0}
  /\ MaxRetries \in Nat \ {0}
  /\ MaxRequests \in Nat
  /\ MaxNew \in Nat

VARIABLES
  state,         \* instance.state
  event_queue,   \* the requests waiting
  queue,         \* "null" before new, "live", "deleted" after cleanup_memory
  running,       \* instance.running
  s_audio_cb,    \* is a callback registered?
  task,          \* where audio_task is
  fp,            \* the file it plays
  cb,            \* the callback it is about to make, "none" if it makes none
  file,          \* who owns each file
  deleter,       \* where audio_player_delete is
  retries,       \* its attempts left
  requests, news, \* counters for the bounds
  meanwhile      \* history: requests accepted since audio_player_delete was called

libVars == <<state, event_queue, queue, running, s_audio_cb, task, fp, cb, file>>
clientVars == <<deleter, retries, requests, news, meanwhile>>
vars == <<libVars, clientVars>>

States == {"IDLE", "PLAYING", "PAUSE", "SHUTDOWN"}
Events == States \cup {"COMPLETED_PLAYING_NEXT", "UNKNOWN_FILE_TYPE"}
Controls == {"PAUSE", "RESUME", "STOP", "SHUTDOWN_THREAD"}
Requests == [type : Controls, fp : {NoFile}] \cup [type : {"PLAY"}, fp : Files]

TypeOK ==
  /\ state \in States
  /\ event_queue \in Seq(Requests) /\ Len(event_queue) <= QueueLen
  /\ queue \in {"null", "live", "deleted"}
  /\ running \in BOOLEAN
  /\ s_audio_cb \in BOOLEAN
  /\ task \in {"none", "loop", "open", "play", "paused", "close", "ending", "gone"}
  /\ fp \in Files \cup {NoFile}
  /\ cb \in Events \cup {"none"}
  /\ file \in [Files -> {"free", "accepted", "closed", "refused", "lost"}]
  /\ deleter \in {"idle", "stop", "shutdown", "delay", "cleanup"}
  /\ retries \in 0..MaxRetries
  /\ requests \in 0..MaxRequests
  /\ news \in 0..MaxNew
  /\ meanwhile \in Nat

Init ==
  /\ state = "IDLE"
  /\ event_queue = <<>>
  /\ queue = "null"
  /\ running = FALSE
  /\ s_audio_cb = FALSE
  /\ task = "none"
  /\ fp = NoFile
  /\ cb = "none"
  /\ file = [f \in Files |-> "free"]
  /\ deleter = "idle"
  /\ retries = MaxRetries
  /\ requests = 0
  /\ news = 0
  /\ meanwhile = 0

-----------------------------------------------------------------------------
(* The queue. *)

Request(type, f) == [type |-> type, fp |-> f]
Control(type) == Request(type, NoFile)

\* xQueueSend does not wait: a full queue refuses, and so does one not created.
Accepts == queue = "live" /\ Len(event_queue) < QueueLen

audio_send_event(e) ==
  event_queue' = IF Accepts THEN Append(event_queue, e) ELSE event_queue

\* The request at the head of the queue is of one of these types.
HeadIn(types) == event_queue # <<>> /\ Head(event_queue).type \in types

Receive == event_queue' = Tail(event_queue)

\* The files that wait.
Queued == {event_queue[i].fp : i \in 1..Len(event_queue)} \ {NoFile}

-----------------------------------------------------------------------------
(* The task. *)

set_state(new) ==
  /\ state' = new
  /\ cb' = IF state = new THEN "none" ELSE new

\* The task stands at a place and has made its callback.
At(place) == task = place /\ cb = "none"

\* dispatch_callback: the registered function runs in the task.
Callback ==
  /\ cb # "none"
  /\ cb' = "none"
  /\ UNCHANGED <<state, event_queue, queue, running, s_audio_cb, task, fp, file>>

\* Nothing to do after a file: only then does playing end.  In any other state
\* the task waits for a request without limit.
LoopIdle ==
  /\ At("loop") /\ event_queue = <<>> /\ state = "PLAYING"
  /\ set_state("IDLE")
  /\ UNCHANGED <<event_queue, queue, running, s_audio_cb, task, fp, file>>

LoopPlay ==
  /\ At("loop") /\ HeadIn({"PLAY"})
  /\ Receive
  /\ IF state = "PLAYING"
     THEN state' = state /\ cb' = "COMPLETED_PLAYING_NEXT"
     ELSE set_state("PLAYING")
  /\ fp' = Head(event_queue).fp
  /\ task' = "open"
  /\ UNCHANGED <<queue, running, s_audio_cb, file>>

LoopShutdown ==
  /\ At("loop") /\ HeadIn({"SHUTDOWN_THREAD"})
  /\ Receive
  /\ set_state("SHUTDOWN")
  /\ task' = "ending"
  /\ UNCHANGED <<queue, running, s_audio_cb, fp, file>>

LoopIgnore ==
  /\ At("loop") /\ HeadIn({"PAUSE", "RESUME", "STOP"})
  /\ Receive
  /\ UNCHANGED <<state, queue, running, s_audio_cb, task, fp, cb, file>>

EndTask ==
  /\ At("ending")
  /\ running' = FALSE
  /\ task' = "gone"
  /\ UNCHANGED <<state, event_queue, queue, s_audio_cb, fp, cb, file>>

\* aplay_file: is_mp3, is_wav.  A file of neither type is closed unplayed.
OpenFile ==
  /\ At("open")
  /\ \/ task' = "play" /\ cb' = "none"
     \/ task' = "close" /\ cb' = "UNKNOWN_FILE_TYPE"
  /\ UNCHANGED <<state, event_queue, queue, running, s_audio_cb, fp, file>>

PlayPause ==
  /\ At("play") /\ HeadIn({"PAUSE"})
  /\ Receive
  /\ set_state("PAUSE")
  /\ task' = "paused"
  /\ UNCHANGED <<queue, running, s_audio_cb, fp, file>>

\* Variant: the request is received here.
LeaveReceiving ==
  /\ task \in {"play", "paused"} /\ cb = "none" /\ HeadIn({"STOP", "PLAY"})
  /\ Receive
  /\ task' = "close"
  /\ UNCHANGED <<state, queue, running, s_audio_cb, fp, cb, file>>

\* A request to stop or to play ends the file and stays in the queue, for
\* audio_task to take.
Leave ==
  /\ task \in {"play", "paused"} /\ cb = "none" /\ HeadIn({"STOP", "PLAY"})
  /\ task' = "close"
  /\ UNCHANGED <<state, event_queue, queue, running, s_audio_cb, fp, cb, file>>

\* Variant: a request without meaning here stays where it is.
PlayDiscardNothing ==
  /\ At("play") /\ HeadIn({"RESUME", "SHUTDOWN_THREAD"})
  /\ UNCHANGED libVars

PlayDiscard ==
  /\ At("play") /\ HeadIn({"RESUME", "SHUTDOWN_THREAD"})
  /\ Receive
  /\ UNCHANGED <<state, queue, running, s_audio_cb, task, fp, cb, file>>

\* One turn of decoding: there is more, or the file is at its end or broken.
Decode ==
  /\ At("play") /\ event_queue = <<>>
  /\ set_state("PLAYING")
  /\ task' \in {"play", "close"}
  /\ UNCHANGED <<event_queue, queue, running, s_audio_cb, fp, file>>

PausedDiscard ==
  /\ At("paused") /\ HeadIn({"PAUSE", "SHUTDOWN_THREAD"})
  /\ Receive
  /\ UNCHANGED <<state, queue, running, s_audio_cb, task, fp, cb, file>>

PausedResume ==
  /\ At("paused") /\ HeadIn({"RESUME"})
  /\ Receive
  /\ task' = "play"
  /\ UNCHANGED <<state, queue, running, s_audio_cb, fp, cb, file>>

CloseFile ==
  /\ At("close")
  /\ file' = [file EXCEPT ![fp] = "closed"]
  /\ fp' = NoFile
  /\ task' = "loop"
  /\ UNCHANGED <<state, event_queue, queue, running, s_audio_cb, cb>>

AudioTask ==
  \/ Callback
  \/ LoopIdle \/ LoopPlay \/ LoopShutdown \/ LoopIgnore \/ EndTask
  \/ OpenFile \/ PlayPause \/ Leave \/ PlayDiscard \/ Decode
  \/ PausedDiscard \/ PausedResume \/ CloseFile

-----------------------------------------------------------------------------
(* The clients. *)

\* A client does not call a player that is deleted (there is no check for it).
Callable == queue # "deleted"

\* The memory and the task are had: running out of memory is not modelled, nor is a
\* new player beside a task that a delete has left running.
audio_player_new ==
  /\ queue \in {"null", "deleted"} /\ task \in {"none", "gone"} /\ news < MaxNew
  /\ state' = "IDLE"
  /\ event_queue' = <<>>
  /\ queue' = "live"
  /\ running' = TRUE
  /\ s_audio_cb' = FALSE
  /\ task' = "loop"
  /\ news' = news + 1
  /\ meanwhile' = 0
  /\ UNCHANGED <<fp, cb, file, deleter, retries, requests>>

audio_player_callback_register ==
  /\ queue = "live" /\ ~s_audio_cb
  /\ s_audio_cb' = TRUE
  /\ UNCHANGED <<state, event_queue, queue, running, task, fp, cb, file, clientVars>>

\* A request that a delete may have to deal with.
Count == meanwhile' = IF Accepts /\ deleter # "idle" THEN meanwhile + 1 ELSE meanwhile

\* A file that is accepted is the player's to close, one refused the caller's.
PlayRequest(f) ==
  /\ file[f] = "free"
  /\ audio_send_event(Request("PLAY", f))
  /\ file' = [file EXCEPT ![f] = IF Accepts THEN "accepted" ELSE "refused"]
  /\ UNCHANGED <<state, queue, running, s_audio_cb, task, fp, cb>>

audio_player_play(f) ==
  /\ Callable /\ PlayRequest(f)
  /\ Count
  /\ UNCHANGED <<deleter, retries, requests, news>>

\* audio_player_pause, audio_player_resume, audio_player_stop.
ControlRequest(type) ==
  /\ Callable /\ requests < MaxRequests
  /\ audio_send_event(Control(type))
  /\ requests' = requests + 1
  /\ Count
  /\ UNCHANGED <<state, queue, running, s_audio_cb, task, fp, cb, file,
                 deleter, retries, news>>

\* audio_player_delete.
DeleteCall ==
  /\ deleter = "idle" /\ queue = "live"
  /\ deleter' = IF running THEN "stop" ELSE "cleanup"
  /\ retries' = MaxRetries
  /\ UNCHANGED <<libVars, requests, news, meanwhile>>

\* Variant: a thread is told to shut down without being told to stop.
DeleteStopForgotten ==
  /\ deleter = "stop"
  /\ deleter' = "shutdown"
  /\ UNCHANGED <<libVars, retries, requests, news, meanwhile>>

DeleteStop ==
  /\ deleter = "stop"
  /\ audio_send_event(Control("STOP"))
  /\ deleter' = "shutdown"
  /\ UNCHANGED <<state, queue, running, s_audio_cb, task, fp, cb, file,
                 retries, requests, news, meanwhile>>

DeleteShutdown ==
  /\ deleter = "shutdown"
  /\ audio_send_event(Control("SHUTDOWN_THREAD"))
  /\ deleter' = "delay"
  /\ UNCHANGED <<state, queue, running, s_audio_cb, task, fp, cb, file,
                 retries, requests, news, meanwhile>>

\* In the 100 ms of the delay the task works off its queue, whatever it is
\* doing: a turn of decoding takes less.
Settled == cb = "none" /\ \/ task = "gone"
                          \/ task = "loop" /\ event_queue = <<>> /\ state # "PLAYING"
                          \/ task \in {"play", "paused"} /\ event_queue = <<>>

DeleteDelay ==
  /\ deleter = "delay" /\ Settled
  /\ retries' = retries - 1
  /\ deleter' = IF running /\ retries' > 0 THEN "stop" ELSE "cleanup"
  /\ UNCHANGED <<libVars, requests, news, meanwhile>>

\* cleanup_memory: the queue goes, whether or not the task has ended, and with
\* it the files that wait in it.
DeleteCleanup ==
  /\ deleter = "cleanup"
  /\ queue' = "deleted"
  /\ event_queue' = <<>>
  /\ file' = [f \in Files |-> IF f \in Queued THEN "lost" ELSE file[f]]
  /\ deleter' = "idle"
  /\ UNCHANGED <<state, running, s_audio_cb, task, fp, cb, retries, requests, news,
                 meanwhile>>

Client ==
  \/ audio_player_new \/ audio_player_callback_register
  \/ \E f \in Files : audio_player_play(f)
  \/ \E type \in {"PAUSE", "RESUME", "STOP"} : ControlRequest(type)
  \/ DeleteCall \/ DeleteStop \/ DeleteShutdown \/ DeleteDelay \/ DeleteCleanup

TaskStep == AudioTask /\ UNCHANGED clientVars

Next == TaskStep \/ Client

Spec == Init /\ [][Next]_vars

\* The task runs when it can.  A turn of decoding that finds more to decode
\* changes nothing, so that it runs means that a file comes to its end.
Fairness == WF_vars(TaskStep)

FairSpec == Spec /\ Fairness

-----------------------------------------------------------------------------
(* Properties. *)

\* As long as there is a queue, every file the player has accepted is either
\* waiting in it, once, or the one being played; none is lost on the way, and
\* none is closed while a request still names it (audio_player.cpp 275-318 with
\* 417-422 and 456: one place looks at a request, another receives it).
FilesOwned ==
  queue = "live" =>
    /\ {f \in Files : file[f] = "accepted"} = Queued \cup ({fp} \ {NoFile})
    /\ fp \notin Queued
    /\ \A i, j \in 1..Len(event_queue) :
         event_queue[i].fp = event_queue[j].fp => i = j \/ event_queue[i].fp = NoFile

\* audio_player_delete takes the queue from under the task only if the clients
\* keep sending requests meanwhile: an attempt, but for the first, which finds the
\* queue as it was, fails at no other time (audio_player.cpp 582-594: a request to
\* play between the two it sends, or a queue that is full).
QueueOutlivesTask ==
  queue = "deleted" => \/ task = "gone" /\ ~running
                       \/ meanwhile >= MaxRetries - 1

\* A file that was accepted does not stay open, unless the player is left paused
\* or shut down (audio_player.h 97-99), or the queue is taken from under the task:
\* what that does next is undefined.
Orphaned == queue = "deleted" /\ task # "gone"

AcceptedClosed ==
  \A f \in Files : \/ []<>(file[f] # "accepted")
                    \/ <>[](state \in {"PAUSE", "SHUTDOWN"})
                    \/ <>Orphaned
=============================================================================
