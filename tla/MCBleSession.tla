----------------------------- MODULE MCBleSession -----------------------------
(* The instance of BleSession that TLC checks: its values are in the cfg files.  *)
EXTENDS BleSession
===============================================================================
