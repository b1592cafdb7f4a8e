---------------------------- MODULE MCFingerStore ----------------------------
(* Model values for FingerStore; fingers are only compared.                  *)
EXTENDS FingerStore, TLC
FingerSymmetry == Permutations(Fingers)
===============================================================================
