------------------------------- MODULE Session -------------------------------
(***************************************************************************)
(* What the BLE server promises an app: it advertises, one client connects *)
(* and goes away, and after a while the server advertises again, unless it *)
(* has missed the client altogether: then it never does.                   *)
(***************************************************************************)
VARIABLE phase

Phases == {"advertising", "connected", "silent", "lost"}

Init == phase = "advertising"

Connect == phase = "advertising" /\ phase' = "connected"

Disconnect == phase = "connected" /\ phase' = "silent"

Advertise == phase = "silent" /\ phase' = "advertising"

Lose == phase = "silent" /\ phase' = "lost"

Next == Connect \/ Disconnect \/ Advertise \/ Lose

\* Safety alone, and with the promise to come back, or be lost.
Safe == Init /\ [][Next]_phase

Spec == Safe /\ WF_phase(Advertise \/ Lose)
=============================================================================
