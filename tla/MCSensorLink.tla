----------------------------- MODULE MCSensorLink -----------------------------
(* The instance of SensorLink that TLC checks: its values are in the cfg files.  *)
EXTENDS SensorLink
===============================================================================
