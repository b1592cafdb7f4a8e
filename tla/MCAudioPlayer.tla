---------------------------- MODULE MCAudioPlayer ----------------------------
(* The instance of AudioPlayer that TLC checks: its values are in the cfg file.  *)
EXTENDS AudioPlayer
==============================================================================
