---------------------------- MODULE MCOrderTask ----------------------------
(* Instances of OrderTask for TLC.                                         *)
EXTENDS OrderTask

(* The runs keep the list short; the loop of AddOrderCfg on longer ones.   *)
Five == INSTANCE OrderList WITH MaxItem <- 5, RemoveOldItem <- 3

ASSUME TrimChecked ==
  \A n \in 0..8 : ToSet(Five!Trim([i \in 1..n |-> i])) = (1..n) \ {1, 3, 5}
=============================================================================
