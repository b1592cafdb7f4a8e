------------------------------ MODULE AudioApp ------------------------------
(***************************************************************************)
(* The player as this firmware uses it: app_audio.cpp and audio_task.c.    *)
(* task_audio starts the player and plays a first sound; any task may call *)
(* play_mp3_dec, which turns the amplifier on, returns if the player is    *)
(* not idle, and opens and sends the file.  The callback turns the         *)
(* amplifier off when the player becomes idle.  pause, resume, stop and    *)
(* delete are not used.                                                    *)
(*                                                                         *)
(* fopen waits for the flash, so the steps of a caller can be parted by    *)
(* the player although most callers have a higher priority.                *)
(***************************************************************************)
EXTENDS AudioPlayer

CONSTANT Callers  \* tasks that call play_mp3_dec

VARIABLES
  amp,       \* the amplifier pin (GPIO 9)
  caller,    \* where each caller is in play_mp3_dec
  starter,   \* where task_audio is
  missing,   \* history: a file was not found and no sound ended since
  overtaken  \* history: the amplifier was last turned off between a request's
             \* steps, or before the file it sent was taken

appVars == <<amp, caller, starter, missing, overtaken>>
allVars == <<vars, appVars>>

AppInit ==
  /\ Init
  /\ amp = FALSE
  /\ caller = [c \in Callers |-> "idle"]
  /\ starter = "amp"
  /\ missing = FALSE
  /\ overtaken = FALSE

\* Some request is under way.
Pending == event_queue # <<>> \/ starter = "coin" \/ \E c \in Callers : caller[c] # "idle"

\* Variant: the amplifier is turned off between two files as well.
OffEventsNext == {"IDLE", "COMPLETED_PLAYING_NEXT"}

\* The event at which the pin goes low.
OffEvents == {"IDLE"}

\* audio_player_callback.
audio_player_callback ==
  /\ Callback
  /\ IF s_audio_cb /\ cb \in OffEvents
     THEN amp' = FALSE /\ missing' = FALSE /\ overtaken' = Pending
     ELSE UNCHANGED <<amp, missing, overtaken>>
  /\ UNCHANGED <<clientVars, caller, starter>>

PlayerStep ==
  \/ audio_player_callback
  \/ AudioTask /\ ~Callback /\ UNCHANGED <<clientVars, appVars>>

-----------------------------------------------------------------------------
(* task_audio. *)

StartAmp ==
  /\ starter = "amp"
  /\ amp' = TRUE
  /\ starter' = "new"
  /\ UNCHANGED <<vars, caller, missing, overtaken>>

StartPlayer ==
  /\ starter = "new"
  /\ audio_player_new
  /\ starter' = "register"
  /\ UNCHANGED <<amp, caller, missing, overtaken>>

\* Variant: nobody registers the callback.
StartCallbackForgotten ==
  /\ starter = "register"
  /\ starter' = "coin"
  /\ UNCHANGED <<vars, amp, caller, missing, overtaken>>

\* A second later.
StartCallback ==
  /\ starter = "register"
  /\ audio_player_callback_register
  /\ starter' = "coin"
  /\ UNCHANGED <<amp, caller, missing, overtaken>>

\* coin.mp3 is in the image of the file system.
StartCoin ==
  /\ starter = "coin"
  /\ \E f \in Files : audio_player_play(f)
  /\ starter' = "done"
  /\ UNCHANGED <<amp, caller, missing, overtaken>>

Starter == StartAmp \/ StartPlayer \/ StartCallback \/ StartCoin

-----------------------------------------------------------------------------
(* play_mp3_dec and play_mp3. *)

\* A file is kept for task_audio.
Spare == Cardinality({f \in Files : file[f] = "free"}) > IF starter = "done" THEN 0 ELSE 1

AmpOn(c) ==
  /\ caller[c] = "idle" /\ Spare
  /\ amp' = TRUE
  /\ caller' = [caller EXCEPT ![c] = "check"]
  /\ UNCHANGED <<vars, starter, missing, overtaken>>

CheckIdle(c) ==
  /\ caller[c] = "check"
  /\ caller' = [caller EXCEPT ![c] = IF state = "IDLE" THEN "open" ELSE "idle"]
  /\ UNCHANGED <<vars, amp, starter, missing, overtaken>>

\* fopen and audio_player_play; what audio_player_play returns is ignored.
OpenAndPlay(c) ==
  /\ caller[c] = "open"
  /\ caller' = [caller EXCEPT ![c] = "idle"]
  /\ \/ Spare /\ (\E f \in Files : audio_player_play(f)) /\ missing' = missing
     \/ missing' = TRUE /\ UNCHANGED vars
  /\ UNCHANGED <<amp, starter, overtaken>>

Caller(c) == AmpOn(c) \/ CheckIdle(c) \/ OpenAndPlay(c)

AppNext == PlayerStep \/ Starter \/ \E c \in Callers : Caller(c)

AppSpec == AppInit /\ [][AppNext]_allVars

\* The player, task_audio and a caller under way run; nobody has to call.
AppFairness ==
  /\ WF_allVars(PlayerStep)
  /\ WF_allVars(Starter)
  /\ \A c \in Callers : WF_allVars(CheckIdle(c) \/ OpenAndPlay(c))

FairAppSpec == AppSpec /\ AppFairness

-----------------------------------------------------------------------------
(* Properties. *)

\* Every sound is played with the amplifier on, but for one request that the
\* end of the sound before it overtook: the callback that turns the amplifier
\* off runs after the state is set to IDLE, and a caller may look at the state
\* in between (audio_player.cpp 174-179, audio_task.c 73-76, app_audio.cpp 14).
AmpOnWhilePlaying == task = "play" => amp \/ overtaken

\* The amplifier does not stay on when the sounds have ended, unless a file was
\* not found: then nobody turns it off before the next sound has ended
\* (app_audio.cpp 14 with audio_task.c 342-347).
AmpRests == amp ~> ~amp \/ missing
=============================================================================
