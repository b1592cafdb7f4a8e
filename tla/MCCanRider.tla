------------------------------ MODULE MCCanRider ------------------------------
(* The instance of CanRider that TLC checks: its values are in the cfg files.  *)
EXTENDS CanRider
===============================================================================
