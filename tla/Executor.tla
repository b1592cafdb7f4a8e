------------------------------- MODULE Executor -------------------------------
(***************************************************************************)
(* What the command path promises a BLE client: commands are executed one  *)
(* at a time; each was opened by a write of its own and is dropped, not    *)
(* queued, when another is running; and what is executed is the frame of   *)
(* that write or of one after it, or a mixture of them if a later write    *)
(* came in between.  Frames are numbered by the writes that brought them.  *)
(***************************************************************************)
EXTENDS Integers

CONSTANT Mixture  \* a frame put together from two writes

VARIABLES
  written,  \* writes so far
  open,     \* writes that nobody has looked at
  running,  \* the writes whose commands are being executed: at most one
  frame     \* the frames they execute: none while it has not been read

vars == <<written, open, running, frame>>

Init == written = 0 /\ open = {} /\ running = {} /\ frame = {}

Write ==
  /\ written' = written + 1
  /\ open' = open \cup {written'}
  /\ UNCHANGED <<running, frame>>

Start ==
  /\ running = {}
  /\ \E n \in open : running' = {n} /\ open' = open \ {n}
  /\ UNCHANGED <<written, frame>>

Read ==
  /\ frame = {}
  /\ \E n \in running : \/ \E f \in n .. written : frame' = {f}
                        \/ written > n /\ frame' = {Mixture}
  /\ UNCHANGED <<written, open, running>>

Drop ==
  /\ running # {}
  /\ \E n \in open : open' = open \ {n}
  /\ UNCHANGED <<written, running, frame>>

End ==
  /\ running # {}
  /\ running' = {} /\ frame' = {}
  /\ UNCHANGED <<written, open>>

\* The command to rename the device ends in a restart: open writes are lost.
Restart ==
  /\ running # {}
  /\ running' = {} /\ frame' = {} /\ open' = {}
  /\ UNCHANGED written

Next == Write \/ Start \/ Read \/ Drop \/ End \/ Restart

Spec == Init /\ [][Next]_vars
===============================================================================
