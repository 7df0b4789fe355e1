---------------------------- MODULE MCChargeTask ----------------------------
(* Instances of ChargeTask for TLC: the constants are sets of strings and  *)
(* numbers that a configuration gives directly.                            *)
EXTENDS ChargeTask
=============================================================================
