------------------------------ MODULE MCTwoWire ------------------------------
(* The instance of TwoWire that TLC checks: its values are in the cfg files.  *)
EXTENDS TwoWire
===============================================================================
