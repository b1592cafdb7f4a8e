----------------------------- MODULE MCAudioApp -----------------------------
(* The instance of AudioApp that TLC checks: its values are in the cfg file.  *)
EXTENDS AudioApp
==============================================================================
