----------------------------- MODULE OrderList -----------------------------
(***************************************************************************)
(* The list of stored orders, jsEVSEOrderObj of cfg_order.c: a cJSON array *)
(* in the order of storing, trimmed when an order is added to a list that  *)
(* is too long.  An order is its serial number.                            *)
(***************************************************************************)
EXTENDS Integers, Sequences, SequencesExt, FiniteSetsExt

CONSTANTS
  MaxItem,        \* defCfgOrderMaxItem
  RemoveOldItem   \* defCfgOrderRemoveOldItem

ASSUME ItemsAssumption == MaxItem \in Nat /\ RemoveOldItem \in 1..MaxItem + 1

-----------------------------------------------------------------------------
(* cJSON_DeleteItemFromArray: indices count from 0, a missing item is none *)
(* to delete.                                                              *)
DeleteItemFromArray(list, i) == IF i < Len(list) THEN RemoveAt(list, i + 1) ELSE list

(* The loop of AddOrderCfg deletes item i of what the earlier rounds left. *)
Trim(list) ==
  LET after[n \in 0..RemoveOldItem] ==
        IF n = 0 THEN list ELSE DeleteItemFromArray(after[n - 1], n - 1)
  IN after[RemoveOldItem]

(* Mutant: the check of the length is gone, the list is always trimmed.    *)
AddOrderCfgAlways(list, sn) == Append(Trim(list), sn)

AddOrderCfg(list, sn) ==
  Append(IF Len(list) > MaxItem THEN Trim(list) ELSE list, sn)

(* GetOrderByPayStatus: the first order of the list that is not paid.      *)
Unpaid(list, paid) == {i \in DOMAIN list : list[i] \notin paid}
FirstUnpaid(list, paid) == list[Min(Unpaid(list, paid))]
=============================================================================
