--------------------------- MODULE OrderTaskProofs ---------------------------
(***************************************************************************)
(* An order is stored once: for any connectors, any number of orders and   *)
(* power failures, and any behaviour of the platform.                      *)
(***************************************************************************)
EXTENDS OrderTask, OrderListProofs

(* The types, by the task or the file that holds the state.                *)
OrderType ==
  /\ startOK \in [CON -> BOOLEAN]
  /\ next \in 1..MaxOrders + 1 /\ home \in [SN -> CON]
  /\ stat \in [CON -> OrderStates]
  /\ sn \in [CON -> SN \cup {None}] /\ pay \in [CON -> {0, 1}]
  /\ bits \in [CON -> SUBSET OrderBits] /\ check \in [CON -> BOOLEAN]

FileType ==
  /\ tmp \in [CON -> SN \cup {None, Torn}]
  /\ ram \in Seq(SN) /\ Len(ram) <= MaxItem + 1 /\ ramPaid \subseteq ToSet(ram)
  /\ flash \in Seq(SN) /\ Len(flash) <= MaxItem + 1 /\ flashPaid \subseteq ToSet(flash)
  /\ storeTimer \in BOOLEAN

RemoteType ==
  /\ logined \in BOOLEAN
  /\ up \in [CON -> UploadStates] /\ rt \in [CON -> {"IDLE", "START", "STOP"}]
  /\ np \in UploadStates /\ npCon \in CON /\ npSN \in SN \cup {None}

WireType ==
  /\ req \in [CON -> SUBSET SN] /\ rep \in [CON -> SUBSET SN] /\ late \in BOOLEAN
  /\ acked \subseteq SN
  /\ losses \in 0..MaxLosses

(* The states in which an order has yet to be stored.                      *)
Active == {"TMP", "WAITSTART", "MAKE", "UPDATE", "WAITSTOP", "FINISH", "WAITUSE", "STORE"}

(* A serial number has been given out, to the connector that holds it.     *)
Given ==
  /\ ToSet(ram) \cup ToSet(flash) \subseteq 1..next - 1
  /\ \A c \in CON : /\ sn[c] # None => sn[c] < next /\ home[sn[c]] = c
                    /\ tmp[c] \in SN => tmp[c] < next /\ home[tmp[c]] = c

(* An order that has yet to be stored has a number the lists do not have,  *)
(* even when a refused start has replaced it.                              *)
Unstored ==
  \A c \in CON : stat[c] \in Active => sn[c] # None /\ sn[c] \notin ToSet(ram) \cup ToSet(flash)

(* What the machines know of each other: the search for a temporary order  *)
(* comes before any order; a session has an order that waits for its end;  *)
(* an upload has an order to send.                                         *)
InStep ==
  /\ \A c \in CON : /\ check[c] => stat[c] = "IDLE"
                    /\ startOK[c] => stat[c] \in {"WAITSTART", "MAKE", "UPDATE", "WAITSTOP"}
                    /\ up[c] # "IDLE" => sn[c] # None
  /\ np = "Send" => npSN # None

(* The store timer runs while the file is behind the list.                 *)
Synced == ~storeTimer => flash = ram /\ flashPaid = ramPaid

(* The parts of the invariant: what the orders are, and the two that speak *)
(* of the lists alone.                                                     *)
Orders == Given /\ Unstored /\ InStep /\ KeptUntilStored
Lists == FileType /\ StoredOnce /\ Synced

IInv == OrderType /\ RemoteType /\ WireType /\ Lists /\ Orders

-----------------------------------------------------------------------------
(* The invariant is the type invariant and more.                           *)
LEMMA Implied == IInv => TypeOK /\ StoredOnce /\ KeptUntilStored
BY DEF IInv, Orders, Lists, TypeOK, OrderType, FileType, RemoteType, WireType

(* Neither the missing nor the torn file is an order.                      *)
LEMMA NotNumbers == None \notin SN /\ Torn \notin SN
BY OrdersAssumption DEF SN, None, Torn

(* The empty list has none twice, and its length is within the bound.      *)
LEMMA NoOrders ==
  /\ <<>> \in Seq(SN) /\ Len(<<>>) <= MaxItem + 1
  /\ ToSet(<<>>) = {} /\ IsInjective(<<>>)
<1>1. <<>> \in Seq(SN) /\ Len(<<>>) = 0 /\ DOMAIN <<>> = {}
  BY EmptySeq
<1>2. 0 <= MaxItem + 1
  BY ItemsAssumption
<1> QED BY <1>1, <1>2 DEF ToSet, IsInjective

(* The lists and files stay what they were.                                *)
LEMMA SameLists ==
  ASSUME Lists, UNCHANGED <<tmp, ram, ramPaid, flash, flashPaid, storeTimer>>
  PROVE  Lists'
BY DEF Lists, FileType, StoredOnce, Synced

(* So do the remote task's machines and the commands on the wire.          *)
LEMMA SameRemote ==
  ASSUME RemoteType, UNCHANGED <<logined, up, rt, np, npCon, npSN>>
  PROVE  RemoteType'
BY DEF RemoteType

(* And the ORDER command, its replies and the network losses.              *)
LEMMA SameWire ==
  ASSUME WireType, UNCHANGED <<req, rep, late, acked, losses>>
  PROVE  WireType'
BY DEF WireType

(* A step of an order that gives out no number and touches no file.  The   *)
(* order goes on to a state that has to be stored only from one that had.  *)
LEMMA OrderMoves ==
  ASSUME IInv, NEW c \in CON,
         \/ SessionStarts(c) \/ SessionEnds(c) \/ TmpTimer(c) \/ Tmp(c) \/ WaitStart(c) \/ Make(c)
         \/ WaitStop(c) \/ WaitUse(c) \/ WaitUseForced(c) \/ Hold(c)
  PROVE  IInv'
<1> USE DEF IInv, order, Goto, SetBits, ClearBits
<1>1. UNCHANGED <<tmp, ram, ramPaid, flash, flashPaid, storeTimer, logined, up, rt, np, npCon, npSN,
                  req, rep, late, acked, losses, sn, next, home, check>>
  BY DEF SessionStarts, SessionEnds, TmpTimer, Tmp, WaitStart, Make, WaitStop, WaitUse,
         WaitUseForced, Hold, files, list, remote, wire
<1>2. Lists' /\ RemoteType' /\ WireType'
  BY <1>1, SameLists, SameRemote, SameWire
<1>3. OrderType'
  <2> USE <1>1 DEF OrderType, OrderStates, OrderBits
  <2>1. CASE SessionStarts(c)
    BY <2>1 DEF SessionStarts
  <2>2. CASE SessionEnds(c)
    BY <2>2 DEF SessionEnds
  <2>3. CASE TmpTimer(c)
    BY <2>3 DEF TmpTimer
  <2>4. CASE Tmp(c)
    BY <2>4 DEF Tmp
  <2>5. CASE WaitStart(c)
    BY <2>5 DEF WaitStart
  <2>6. CASE Make(c)
    BY <2>6 DEF Make
  <2>7. CASE WaitStop(c)
    BY <2>7 DEF WaitStop
  <2>8. CASE WaitUse(c)
    BY <2>8 DEF WaitUse, Useless
  <2>9. CASE WaitUseForced(c)
    BY <2>9 DEF WaitUseForced
  <2>10. CASE Hold(c)
    BY <2>10 DEF Hold
  <2> QED BY <2>1, <2>2, <2>3, <2>4, <2>5, <2>6, <2>7, <2>8, <2>9, <2>10
<1>4. Given'
  BY <1>1 DEF Orders, Given
<1>5. /\ \A d \in CON : /\ stat'[d] \in Active => stat[d] \in Active
                        /\ stat'[d] # "IDLE" => stat[d] # "IDLE"
                        /\ stat'[d] \in {"WAITUSE", "STORE"} => stat[d] \in {"WAITUSE", "STORE"}
                        /\ startOK'[d] => stat'[d] \in {"WAITSTART", "MAKE", "UPDATE", "WAITSTOP"}
  <2> USE DEF OrderType, Active, Orders, InStep
  <2>1. CASE SessionStarts(c)
    BY <2>1 DEF SessionStarts
  <2>2. CASE SessionEnds(c)
    BY <2>2 DEF SessionEnds
  <2>3. CASE TmpTimer(c)
    BY <2>3 DEF TmpTimer
  <2>4. CASE Tmp(c)
    BY <2>4 DEF Tmp
  <2>5. CASE WaitStart(c)
    BY <2>5 DEF WaitStart
  <2>6. CASE Make(c)
    BY <2>6 DEF Make
  <2>7. CASE WaitStop(c)
    BY <2>7 DEF WaitStop
  <2>8. CASE WaitUse(c)
    BY <2>8 DEF WaitUse
  <2>9. CASE WaitUseForced(c)
    BY <2>9 DEF WaitUseForced
  <2>10. CASE Hold(c)
    BY <2>10 DEF Hold
  <2> QED BY <2>1, <2>2, <2>3, <2>4, <2>5, <2>6, <2>7, <2>8, <2>9, <2>10
<1>6. Unstored' /\ InStep' /\ KeptUntilStored'
  BY <1>1, <1>5 DEF Orders, Unstored, InStep, KeptUntilStored
<1> QED BY <1>2, <1>3, <1>4, <1>6 DEF Orders

(* A start command gives out the next number, to an order that begins or,  *)
(* with a start that is refused, to whatever order the connector has.      *)
LEMMA NumberGiven ==
  ASSUME IInv, NEW c \in CON, StartOrder(c) \/ RefuseStart(c)
  PROVE  IInv'
<1> USE DEF IInv, order, Goto
<1>1. UNCHANGED <<tmp, ram, ramPaid, flash, flashPaid, storeTimer, logined, up, rt, np, npCon, npSN,
                  req, rep, late, acked, losses, startOK, pay, bits, check>>
  BY DEF StartOrder, RefuseStart, files, list, remote, wire
<1>2. Lists' /\ RemoteType' /\ WireType'
  BY <1>1, SameLists, SameRemote, SameWire
<1>3. /\ next \in SN /\ next' = next + 1
      /\ sn' = [sn EXCEPT ![c] = next] /\ home' = [home EXCEPT ![next] = c]
  BY DEF StartOrder, RefuseStart
<1>4. /\ stat' \in [CON -> OrderStates]
      /\ \A d \in CON \ {c} : stat'[d] = stat[d]
      /\ stat'[c] = stat[c] \/ (stat'[c] \in {"TMP", "WAITSTART"} /\ stat[c] = "IDLE" /\ ~check[c])
  BY DEF StartOrder, RefuseStart, OrderType, OrderStates
<1>5. OrderType'
  <2>1. next' \in 1..MaxOrders + 1
    BY <1>3, OrdersAssumption DEF SN
  <2> QED BY <1>1, <1>3, <1>4, <2>1 DEF OrderType
<1>6. next \in Nat \ {0} /\ next # None
  BY <1>3, OrdersAssumption DEF SN, None
<1>7. \A d \in CON : sn'[d] = (IF d = c THEN next ELSE sn[d]) /\ sn'[c] # None
  BY <1>3, <1>6 DEF OrderType
<1>8. /\ home'[next] = c
      /\ \A s \in SN \ {next} : home'[s] = home[s]
  BY <1>3 DEF OrderType
<1>9. Given'
  <2>1. ToSet(ram') \cup ToSet(flash') \subseteq 1..next' - 1
    BY <1>1, <1>3, <1>6 DEF Orders, Given
  <2>2. ASSUME NEW d \in CON, tmp'[d] \in SN PROVE tmp'[d] < next' /\ home'[tmp'[d]] = d
    <3>1. tmp[d] \in SN /\ tmp[d] < next /\ home[tmp[d]] = d
      BY <1>1, <2>2 DEF Orders, Given, Lists, FileType
    <3>2. tmp[d] \in Nat
      BY <3>1 DEF SN
    <3> QED BY <1>1, <1>3, <1>6, <1>8, <3>1, <3>2
  <2>3. ASSUME NEW d \in CON, sn'[d] # None PROVE sn'[d] < next' /\ home'[sn'[d]] = d
    <3>1. CASE d = c
      BY <1>3, <1>6, <1>7, <1>8, <3>1
    <3>2. CASE d # c
      <4>1. sn'[d] = sn[d] /\ sn[d] \in SN /\ sn[d] < next /\ home[sn[d]] = d
        BY <1>7, <2>3, <3>2 DEF Orders, Given, OrderType
      <4>2. sn[d] \in Nat
        BY <4>1 DEF SN
      <4> QED BY <1>3, <1>6, <1>8, <4>1, <4>2
    <3> QED BY <3>1, <3>2
  <2> QED BY <2>1, <2>2, <2>3 DEF Given
<1>10. Unstored'
  <2>1. next \notin ToSet(ram) \cup ToSet(flash)
    BY <1>6 DEF Orders, Given
  <2> QED BY <1>1, <1>4, <1>7, <2>1 DEF Orders, Unstored
<1>11. InStep' /\ KeptUntilStored'
  BY <1>1, <1>4, <1>7 DEF Orders, InStep, KeptUntilStored
<1> QED BY <1>2, <1>5, <1>9, <1>10, <1>11 DEF Orders

(* OrderInit clears an order that has been stored, and its upload.         *)
LEMMA ReturnInv ==
  ASSUME IInv, NEW c \in CON, Return(c)
  PROVE  IInv'
<1> USE DEF IInv, Goto, Return
<1>1. UNCHANGED <<tmp, ram, ramPaid, flash, flashPaid, storeTimer, logined, np, npCon, npSN,
                  req, rep, late, acked, losses, startOK, next, home, bits, check>>
  BY DEF files, list, wire
<1>2. Lists' /\ WireType'
  BY <1>1, SameLists, SameWire
<1>3. RemoteType' /\ OrderType'
  BY <1>1 DEF RemoteType, UploadStates, OrderType, OrderStates
<1>4. Given'
  BY <1>1 DEF Orders, Given, OrderType
<1>5. Unstored' /\ KeptUntilStored'
  BY <1>1 DEF Orders, Unstored, Active, OrderType, KeptUntilStored
<1>6. InStep'
  BY <1>1 DEF Orders, InStep, OrderType, RemoteType
<1> QED BY <1>2, <1>3, <1>4, <1>5, <1>6 DEF Orders

(* UPDATE and FINISH write the order's number to the temporary file.       *)
LEMMA TmpWritten ==
  ASSUME IInv, NEW c \in CON, Update(c) \/ Finish(c)
  PROVE  IInv'
<1> USE DEF IInv, Goto
<1>1. UNCHANGED <<ram, ramPaid, flash, flashPaid, storeTimer, logined, up, rt, np, npCon, npSN,
                  req, rep, late, acked, losses, startOK, next, home, check, sn, pay>>
  BY DEF Update, Finish, list, remote, wire
<1>2. RemoteType' /\ WireType'
  BY <1>1, SameRemote, SameWire
<1>3. stat[c] \in {"UPDATE", "FINISH"} /\ stat[c] \in Active
  BY DEF Update, Finish, Active
<1>4. sn[c] \in SN /\ sn[c] # None /\ sn[c] \notin ToSet(ram) \cup ToSet(flash)
  BY <1>3 DEF Orders, Unstored, OrderType
<1>5. tmp' \in [CON -> SN \cup {None, Torn}] /\ \A d \in CON : tmp'[d] \in {tmp[d]} \cup {sn[d]}
  BY <1>4 DEF Update, Finish, Lists, FileType
<1>6. \A d \in CON \ {c} : tmp'[d] = tmp[d] /\ stat'[d] = stat[d]
  BY DEF Update, Finish, Lists, FileType, OrderType
<1>7. Lists'
  <2>1. FileType'
    BY <1>1, <1>5 DEF Lists, FileType
  <2>2. StoredOnce'
    BY <1>1, <1>4, <1>5, <1>6 DEF Lists, StoredOnce
  <2>3. Synced'
    BY <1>1 DEF Lists, Synced
  <2> QED BY <2>1, <2>2, <2>3 DEF Lists
<1>8. OrderType'
  <2>1. CASE Update(c)
    BY <1>1, <2>1 DEF Update, ClearBits, OrderType, OrderStates
  <2>2. CASE Finish(c)
    BY <1>1, <2>2 DEF Finish, OrderType, OrderStates, OrderBits
  <2> QED BY <2>1, <2>2
<1>9. Given'
  BY <1>1, <1>5, NotNumbers DEF Orders, Given
<1>10. stat'[c] \in {"UPDATE", "WAITSTOP", "FINISH", "WAITUSE"}
       /\ (stat'[c] = "WAITUSE" => tmp'[c] = sn[c])
       /\ (startOK[c] => stat'[c] \in {"UPDATE", "WAITSTOP"})
  <2>1. CASE Update(c)
    BY <2>1 DEF Update, OrderType
  <2>2. CASE Finish(c)
    BY <2>2 DEF Finish, OrderType, Lists, FileType, Orders, InStep
  <2> QED BY <2>1, <2>2
<1>11. Unstored'
  BY <1>1, <1>4, <1>6 DEF Orders, Unstored
<1>12. InStep'
  BY <1>1, <1>3, <1>6, <1>10 DEF Orders, InStep
<1>13. KeptUntilStored'
  BY <1>1, <1>4, <1>6, <1>10 DEF Orders, KeptUntilStored
<1> QED BY <1>2, <1>7, <1>8, <1>9, <1>11, <1>12, <1>13 DEF Orders

(* AddOrderCfg and RemoveOrderTmp, with a number of this connector: the    *)
(* list has it once, and no temporary file of another connector has it.    *)
LEMMA OneMore ==
  ASSUME IInv, NEW c \in CON, NEW s \in SN, home[s] = c, s < next, s \notin ToSet(ram),
         ram' = AddOrderCfg(ram, s), ramPaid' \subseteq ToSet(ram'), storeTimer' = TRUE,
         tmp' = [tmp EXCEPT ![c] = None], UNCHANGED <<flash, flashPaid>>
  PROVE  /\ Lists'
         /\ ToSet(ram') \subseteq ToSet(ram) \cup {s}
         /\ tmp'[c] = None /\ \A d \in CON \ {c} : tmp'[d] = tmp[d]
<1> USE DEF IInv, Lists
<1>1. ram \in Seq(SN) /\ Len(ram) <= MaxItem + 1 /\ IsInjective(ram)
  BY DEF FileType, StoredOnce
<1>2. /\ ram' \in Seq(SN) /\ Len(ram') <= MaxItem + 1 /\ IsInjective(ram')
      /\ ToSet(ram') \subseteq ToSet(ram) \cup {s}
  BY <1>1, AddOrderCfgSeq
<1>3. tmp'[c] = None /\ \A d \in CON \ {c} : tmp'[d] = tmp[d]
  BY DEF FileType
<1>4. \A d \in CON \ {c} : tmp[d] \in SN => tmp[d] # s
  BY DEF Orders, Given
<1>5. FileType'
  BY <1>2 DEF FileType
<1>6. StoredOnce'
  BY <1>2, <1>3, <1>4, NotNumbers DEF StoredOnce
<1>7. Synced'
  BY DEF Synced
<1> QED BY <1>2, <1>3, <1>5, <1>6, <1>7

(* STORE: the number leaves the order's hands, and no order has it.        *)
LEMMA StoreInv ==
  ASSUME IInv, NEW c \in CON, Store(c)
  PROVE  IInv'
<1> USE DEF IInv, Goto, ClearBits
<1>1. UNCHANGED <<flash, flashPaid, logined, up, rt, np, npCon, npSN,
                  req, rep, late, acked, losses, startOK, next, home, check, sn, pay>>
  BY DEF Store, remote, wire
<1>2. RemoteType' /\ WireType'
  BY <1>1, SameRemote, SameWire
<1>3. /\ stat[c] = "STORE" /\ stat[c] \in Active /\ storeTimer' = TRUE
      /\ ram' = AddOrderCfg(ram, sn[c]) /\ ramPaid' \subseteq ToSet(ram')
      /\ tmp' = [tmp EXCEPT ![c] = None]
  BY DEF Store, Active
<1>4. sn[c] # None /\ sn[c] \notin ToSet(ram) \cup ToSet(flash)
  BY <1>3 DEF Orders, Unstored
<1>5. sn[c] \in SN /\ sn[c] < next /\ home[sn[c]] = c
  BY <1>4 DEF Orders, Given, OrderType
<1>6. /\ Lists'
      /\ ToSet(ram') \subseteq ToSet(ram) \cup {sn[c]}
      /\ tmp'[c] = None /\ \A d \in CON \ {c} : tmp'[d] = tmp[d]
  BY <1>1, <1>3, <1>4, <1>5, OneMore
<1>7. OrderType' /\ stat'[c] = "HOLD" /\ \A d \in CON \ {c} : stat'[d] = stat[d]
  BY <1>1 DEF Store, OrderType, OrderStates
<1>8. Given'
  <2>1. sn[c] \in 1..next - 1
    BY <1>5 DEF SN, OrderType
  <2> QED BY <1>1, <1>6, <2>1, NotNumbers DEF Orders, Given
<1>9. Unstored'
  <2>1. \A d \in CON \ {c} : sn[d] # None => sn[d] # sn[c]
    BY <1>5 DEF Orders, Given
  <2> QED BY <1>1, <1>6, <1>7, <2>1 DEF Orders, Unstored, Active
<1>10. InStep' /\ KeptUntilStored'
  BY <1>1, <1>3, <1>6, <1>7 DEF Orders, InStep, KeptUntilStored
<1> QED BY <1>2, <1>6, <1>7, <1>8, <1>9, <1>10 DEF Orders

(* CheckOrderTmp stores what a power failure left, before any order of the *)
(* connector.                                                              *)
LEMMA CheckOrderTmpInv ==
  ASSUME IInv, NEW c \in CON, CheckOrderTmp(c)
  PROVE  IInv'
<1> USE DEF IInv
<1>1. UNCHANGED <<flash, flashPaid, logined, up, rt, np, npCon, npSN, stat, bits,
                  req, rep, late, acked, losses, startOK, next, home, sn, pay>>
  BY DEF CheckOrderTmp, order, remote, wire
<1>2. RemoteType' /\ WireType'
  BY <1>1, SameRemote, SameWire
<1>3. check[c] /\ stat[c] = "IDLE"
  BY DEF CheckOrderTmp, Orders, InStep
<1>4. OrderType' /\ \A d \in CON : check'[d] => check[d]
  BY <1>1 DEF CheckOrderTmp, OrderType
<1>5. InStep'
  BY <1>1, <1>4 DEF Orders, InStep
<1>6. CASE tmp[c] \in SN
  <2>1. /\ storeTimer' = TRUE /\ ram' = AddOrderCfg(ram, tmp[c])
        /\ ramPaid' \subseteq ToSet(ram') /\ tmp' = [tmp EXCEPT ![c] = None]
    BY <1>6, NotNumbers DEF CheckOrderTmp
  <2>2. tmp[c] \in SN /\ tmp[c] < next /\ home[tmp[c]] = c /\ tmp[c] \notin ToSet(ram)
    BY <1>6 DEF Orders, Given, Lists, FileType, StoredOnce
  <2>3. /\ Lists'
        /\ ToSet(ram') \subseteq ToSet(ram) \cup {tmp[c]}
        /\ tmp'[c] = None /\ \A d \in CON \ {c} : tmp'[d] = tmp[d]
    BY <1>1, <2>1, <2>2, OneMore
  <2>4. Given'
    <3>1. tmp[c] \in 1..next - 1
      BY <2>2 DEF SN, OrderType
    <3> QED BY <1>1, <2>3, <3>1, NotNumbers DEF Orders, Given
  <2>5. Unstored'
    <3>1. \A d \in CON \ {c} : sn[d] # None => sn[d] # tmp[c]
      BY <2>2 DEF Orders, Given
    <3> QED BY <1>1, <1>3, <2>3, <3>1 DEF Orders, Unstored, Active
  <2>6. KeptUntilStored'
    BY <1>1, <1>3, <2>3 DEF Orders, KeptUntilStored
  <2> QED BY <1>2, <1>4, <1>5, <2>3, <2>4, <2>5, <2>6 DEF Orders
<1>7. CASE tmp[c] \in {None, Torn}
  <2>1. UNCHANGED <<ram, ramPaid, storeTimer>> /\ (tmp' = tmp \/ tmp' = [tmp EXCEPT ![c] = None])
    BY <1>7, NotNumbers DEF CheckOrderTmp, list
  <2>2. /\ tmp' \in [CON -> SN \cup {None, Torn}]
        /\ \A d \in CON : tmp'[d] = tmp[d] \/ (tmp'[d] = None /\ stat[d] = "IDLE")
    BY <1>3, <2>1 DEF Lists, FileType
  <2>3. Lists'
    BY <1>1, <2>1, <2>2, NotNumbers DEF Lists, FileType, StoredOnce, Synced
  <2>4. Given' /\ Unstored' /\ KeptUntilStored'
    BY <1>1, <2>1, <2>2, NotNumbers DEF Orders, Given, Unstored, KeptUntilStored
  <2> QED BY <1>2, <1>4, <1>5, <2>3, <2>4 DEF Orders
<1> QED BY <1>6, <1>7 DEF Lists, FileType

(* The store timer expires: the file becomes the list.                     *)
LEMMA FlushInv ==
  ASSUME IInv, Flush
  PROVE  IInv'
<1> USE DEF IInv
<1>1. /\ UNCHANGED <<tmp, ram, ramPaid, logined, up, rt, np, npCon, npSN, stat, bits, check,
                     req, rep, late, acked, losses, startOK, next, home, sn, pay>>
      /\ flash' = ram /\ flashPaid' = ramPaid /\ storeTimer' = FALSE
  BY DEF Flush, order, remote, wire
<1>2. RemoteType' /\ WireType' /\ OrderType'
  BY <1>1, SameRemote, SameWire DEF OrderType
<1>3. Lists'
  BY <1>1 DEF Lists, FileType, StoredOnce, Synced
<1>4. Orders'
  BY <1>1 DEF Orders, Given, Unstored, InStep, KeptUntilStored
<1> QED BY <1>2, <1>3, <1>4

(* After a restart the list is what its file is, no connector has an       *)
(* order, and the temporary files are searched.                            *)
LEMMA RestartInv ==
  ASSUME IInv, Restart, losses' \in 0..MaxLosses,
         tmp' \in [CON -> SN \cup {None, Torn}],
         \A c \in CON : tmp'[c] \in {tmp[c], None, Torn},
         UNCHANGED <<flash, flashPaid>> \/ (flash' = <<>> /\ flashPaid' = {})
  PROVE  IInv'
<1> USE DEF IInv, Restart, All
<1>1. /\ UNCHANGED <<next, home, npCon, npSN, acked>>
      /\ ram' = flash' /\ ramPaid' = flashPaid' /\ storeTimer' = FALSE
  OBVIOUS
<1>2. OrderType'
  BY <1>1 DEF OrderType, OrderStates
<1>3. RemoteType'
  BY <1>1 DEF RemoteType, UploadStates
<1>4. WireType'
  BY <1>1 DEF WireType
<1>5. /\ flash' \in Seq(SN) /\ Len(flash') <= MaxItem + 1 /\ IsInjective(flash')
      /\ flashPaid' \subseteq ToSet(flash') /\ ToSet(flash') \subseteq ToSet(flash)
  <2>1. CASE UNCHANGED <<flash, flashPaid>>
    BY <2>1 DEF Lists, FileType, StoredOnce
  <2>2. CASE flash' = <<>> /\ flashPaid' = {}
    BY <2>2, NoOrders
  <2> QED BY <2>1, <2>2
<1>6. \A c \in CON : tmp'[c] \in SN => tmp'[c] = tmp[c]
  BY NotNumbers
<1>7. Lists'
  BY <1>1, <1>5, <1>6 DEF Lists, FileType, StoredOnce, Synced
<1>8. Given'
  BY <1>1, <1>5, <1>6 DEF Orders, Given
<1>9. Unstored' /\ InStep' /\ KeptUntilStored'
  BY <1>1 DEF Unstored, Active, InStep, KeptUntilStored
<1> QED BY <1>2, <1>3, <1>4, <1>7, <1>8, <1>9 DEF Orders

(* A power failure, which may cut the write of a file.                     *)
LEMMA PowerLossInv ==
  ASSUME IInv, PowerLoss
  PROVE  IInv'
<1> USE DEF IInv, PowerLoss, TornWrite, files, Lists, FileType
<1>1. losses' \in 0..MaxLosses
  BY LossesAssumption DEF WireType
<1>2. /\ tmp' \in [CON -> SN \cup {None, Torn}]
      /\ \A c \in CON : tmp'[c] \in {tmp[c], None, Torn}
  OBVIOUS
<1>3. UNCHANGED <<flash, flashPaid>> \/ (flash' = <<>> /\ flashPaid' = {})
  OBVIOUS
<1> QED BY <1>1, <1>2, <1>3, RestartInv

(* The search for a temporary order finds an empty file and restarts.      *)
LEMMA EmptyInv ==
  ASSUME IInv, NEW c \in CON, CheckOrderTmpEmpty(c)
  PROVE  IInv'
<1> USE DEF IInv, CheckOrderTmpEmpty, Lists, FileType
<1>1. losses' \in 0..MaxLosses
  BY DEF WireType
<1>2. /\ tmp' \in [CON -> SN \cup {None, Torn}]
      /\ \A d \in CON : tmp'[d] \in {tmp[d], None, Torn}
  OBVIOUS
<1> QED BY <1>1, <1>2, RestartInv

-----------------------------------------------------------------------------
(* The orders are left alone by a step that touches neither them nor their *)
(* files; the uploads have to keep in step.                                *)
LEMMA SameOrders ==
  ASSUME Orders, InStep',
         UNCHANGED <<startOK, stat, sn, next, home, check, tmp, ram, flash>>
  PROVE  Orders'
BY DEF Orders, Given, Unstored, KeptUntilStored

(* Receive empties the connector's replies, and perhaps its requests.      *)
LEMMA ReceiveType ==
  ASSUME WireType, NEW c \in CON, NEW a, Receive(c, a), losses' = losses
  PROVE  WireType'
BY DEF WireType, Receive

(* The upload of the connector's own order.                                *)
LEMMA UploadInv ==
  ASSUME IInv, NEW c \in CON, RemoteStep(c)
  PROVE  IInv'
<1> USE DEF IInv
<1>1. UNCHANGED <<startOK, stat, sn, pay, next, home, check, tmp, flash, flashPaid,
                  ram, ramPaid, storeTimer, npCon, npSN, losses>>
  BY DEF RemoteStep, UploadIdle, UploadWait, UploadSend, UploadRecv, RTData, order, files, list
<1>2. Lists'
  BY <1>1, SameLists
<1>3. /\ RemoteType' /\ bits' \in [CON -> SUBSET OrderBits] /\ WireType'
      /\ np' = np \/ np' = "IDLE"
      /\ \A d \in CON : up'[d] # "IDLE" => up[d] # "IDLE" \/ startOK[d]
  <2> USE DEF RemoteType, UploadStates, SetBits, ClearBits
  <2>0. bits \in [CON -> SUBSET OrderBits]
    BY DEF OrderType
  <2>1. CASE UploadIdle(c)
    BY <1>1, <2>0, <2>1, SameWire DEF UploadIdle, wire
  <2>2. CASE UploadWait(c)
    BY <1>1, <2>0, <2>2, SameWire DEF UploadWait, wire
  <2>3. CASE UploadSend(c)
    <3>1. sn[c] \in SN
      BY <2>3 DEF UploadSend, Orders, InStep, OrderType
    <3>2. WireType'
      BY <1>1, <2>3, <3>1 DEF UploadSend, WireType
    <3> QED BY <1>1, <2>0, <2>3, <3>2 DEF UploadSend
  <2>4. CASE UploadRecv(c)
    <3>1. WireType'
      BY <1>1, <2>4, ReceiveType DEF UploadRecv
    <3>2. up' \in [CON -> UploadStates] /\ \A d \in CON : up'[d] # "IDLE" => up[d] # "IDLE"
      <4>1. up' = up \/ up' = [up EXCEPT ![c] = "IDLE"]
        BY <2>4 DEF UploadRecv
      <4> QED BY <4>1
    <3>3. bits' \in [CON -> SUBSET OrderBits]
      <4>1. bits' = bits \/ \E B \in SUBSET OrderBits : bits' = [bits EXCEPT ![c] = @ \cup B]
        BY <2>4 DEF UploadRecv, OrderBits
      <4> QED BY <2>0, <4>1
    <3>4. logined' \in BOOLEAN /\ np' \in {np, "IDLE"} /\ rt' = rt
      BY <2>4 DEF UploadRecv
    <3> QED BY <1>1, <3>1, <3>2, <3>3, <3>4
  <2>5. CASE RTData(c)
    <3>1. rt' \in [CON -> {"IDLE", "START", "STOP"}]
      BY <2>5 DEF RTData
    <3>2. bits' \in [CON -> SUBSET OrderBits]
      BY <2>0, <2>5 DEF RTData, OrderBits
    <3> QED BY <1>1, <2>5, <3>1, <3>2, SameWire DEF RTData, wire
  <2> QED BY <2>1, <2>2, <2>3, <2>4, <2>5 DEF RemoteStep
<1>4. OrderType'
  BY <1>1, <1>3 DEF OrderType
<1>5. InStep'
  <2>1. \A d \in CON : startOK[d] => sn[d] # None
    BY DEF Orders, InStep, Unstored, Active
  <2> QED BY <1>1, <1>3, <2>1 DEF Orders, InStep
<1> QED BY <1>1, <1>2, <1>3, <1>4, <1>5, SameOrders

(* The first unpaid order of the list is one.                              *)
LEMMA FirstUnpaidIn ==
  ASSUME NEW S, NEW l \in Seq(S), NEW P, Unpaid(l, P) # {}
  PROVE  FirstUnpaid(l, P) \in S
<1> DEFINE U == Unpaid(l, P)
<1>1. U \in SUBSET Nat /\ U \subseteq 1..Len(l)
  BY LenProperties DEF Unpaid
<1> HIDE DEF U
<1>2. \E x \in U : \A y \in U : x <= y
  BY <1>1, Least DEF U
<1>3. Min(U) \in U
  BY <1>2 DEF Min
<1> QED BY <1>1, <1>3, ElementOfSeq DEF FirstUnpaid, U

(* The upload of stored orders; it also marks one of the list as paid.     *)
LEMMA NoPayInv ==
  ASSUME IInv, NoPayStep
  PROVE  IInv'
<1> USE DEF IInv
<1>1. UNCHANGED <<startOK, stat, sn, pay, next, home, check, bits, tmp, flash, flashPaid,
                  ram, up, rt, losses>>
  BY DEF NoPayStep, NoPayIdle, NoPayWait, NoPaySend, NoPayRecv, order, files, list
<1>2. OrderType'
  BY <1>1 DEF OrderType
<1>3. SUFFICES Lists' /\ RemoteType' /\ WireType' /\ (np' = "Send" => npSN' # None)
  BY <1>1, <1>2, SameOrders DEF Orders, InStep
<1> USE DEF RemoteType, UploadStates
<1>4. CASE NoPayIdle \/ NoPayWait
  <2>1. Lists' /\ WireType'
    BY <1>1, <1>4, SameLists, SameWire DEF NoPayIdle, NoPayWait, list, wire
  <2>2. CASE NoPayIdle
    BY <1>1, <2>1, <2>2 DEF NoPayIdle
  <2>3. CASE NoPayWait
    <3>1. Unpaid(ram, ramPaid) # {} => FirstUnpaid(ram, ramPaid) \in SN
      BY FirstUnpaidIn DEF Lists, FileType
    <3>2. CASE Unpaid(ram, ramPaid) = {}
      BY <1>1, <2>1, <2>3, <3>2 DEF NoPayWait
    <3>3. CASE Unpaid(ram, ramPaid) # {}
      <4>1. /\ np' = "Send" /\ npSN' \in SN /\ npCon' = home[npSN'] /\ logined' = logined
        BY <2>3, <3>1, <3>3 DEF NoPayWait
      <4>2. npCon' \in CON /\ npSN' # None
        BY <4>1 DEF OrderType, SN, None
      <4> QED BY <1>1, <2>1, <4>1, <4>2
    <3> QED BY <3>2, <3>3
  <2> QED BY <1>4, <2>2, <2>3
<1>5. CASE NoPaySend
  <2>1. Lists'
    BY <1>1, <1>5, SameLists DEF NoPaySend, list
  <2>2. npSN \in SN
    BY <1>5 DEF NoPaySend, Orders, InStep
  <2>3. WireType'
    BY <1>1, <1>5, <2>2 DEF NoPaySend, WireType
  <2> QED BY <1>1, <1>5, <2>1, <2>3 DEF NoPaySend
<1>6. CASE NoPayRecv
  <2>1. WireType'
    BY <1>1, <1>6, ReceiveType DEF NoPayRecv
  <2>2. Lists'
    <3>1. /\ ramPaid' = ramPaid \/ ramPaid' = ramPaid \cup ({npSN} \cap ToSet(ram))
          /\ storeTimer' = TRUE \/ UNCHANGED <<ramPaid, storeTimer>>
      BY <1>6 DEF NoPayRecv
    <3>2. FileType'
      BY <1>1, <3>1 DEF Lists, FileType
    <3>3. StoredOnce' /\ Synced'
      BY <1>1, <3>1 DEF Lists, StoredOnce, Synced
    <3> QED BY <3>2, <3>3 DEF Lists
  <2>3. RemoteType' /\ np' # "Send"
    <3>1. np' \in {"WaitOrder", "IDLE"} /\ logined' \in {logined, FALSE}
      BY <1>6 DEF NoPayRecv
    <3>2. UNCHANGED <<npCon, npSN>>
      BY <1>6 DEF NoPayRecv
    <3> QED BY <1>1, <3>1, <3>2
  <2> QED BY <2>1, <2>2, <2>3
<1> QED BY <1>4, <1>5, <1>6 DEF NoPayStep

(* The platform and the connection to it.                                  *)
LEMMA PlatformInv ==
  ASSUME IInv, Login \/ Logout \/ \E c \in CON : Answer(c) \/ Expire(c)
  PROVE  IInv'
<1> USE DEF IInv
<1>1. UNCHANGED <<startOK, stat, sn, pay, next, home, check, bits, tmp, flash, flashPaid,
                  ram, ramPaid, storeTimer, up, rt, npCon, npSN, losses>>
  BY DEF Login, Logout, Answer, Expire, order, files, list, remote
<1>2. Lists' /\ OrderType'
  BY <1>1, SameLists DEF OrderType
<1>3. SUFFICES RemoteType' /\ WireType' /\ (np' = "Send" => np = "Send")
  BY <1>1, <1>2, SameOrders DEF Orders, InStep
<1>4. CASE Login \/ Logout
  BY <1>1, <1>4, SameWire DEF Login, Logout, RemoteType, UploadStates, wire
<1>5. ASSUME NEW c \in CON, Answer(c)
      PROVE  RemoteType' /\ WireType' /\ (np' = "Send" => np = "Send")
  BY <1>1, <1>5, SameRemote DEF Answer, WireType, remote
<1>6. ASSUME NEW c \in CON, Expire(c)
      PROVE  RemoteType' /\ WireType' /\ (np' = "Send" => np = "Send")
  BY <1>1, <1>6, SameRemote DEF Expire, WireType, remote
<1> QED BY <1>4, <1>5, <1>6

-----------------------------------------------------------------------------
(* The charger starts without orders.                                      *)
LEMMA InitInv == Init => IInv
<1> SUFFICES ASSUME Init PROVE IInv
  OBVIOUS
<1> USE DEF Init, All
<1>1. (CHOOSE c \in CON : TRUE) \in CON
  BY ConnectorsAssumption
<1>4. OrderType
  BY <1>1, OrdersAssumption DEF OrderType, OrderStates
<1>5. RemoteType
  BY <1>1 DEF RemoteType, UploadStates
<1>6. WireType
  <2>1. 0 \in 0..MaxLosses
    BY LossesAssumption
  <2> QED BY <2>1 DEF WireType
<1>7. Lists
  BY NoOrders, NotNumbers DEF Lists, FileType, StoredOnce, Synced
<1>8. Orders
  BY NoOrders, NotNumbers DEF Orders, Given, Unstored, Active, InStep, KeptUntilStored
<1> QED BY <1>4, <1>5, <1>6, <1>7, <1>8 DEF IInv

(* No step breaks IInv.                                                    *)
LEMMA NextInv == IInv /\ [Next]_vars => IInv'
<1> SUFFICES ASSUME IInv, [Next]_vars PROVE IInv'
  OBVIOUS
<1>1. ASSUME NEW c \in CON, DataStep(c) PROVE IInv'
  BY <1>1, OrderMoves, TmpWritten, StoreInv, ReturnInv, CheckOrderTmpInv, EmptyInv DEF DataStep
<1>2. ASSUME NEW c \in CON,
             \/ SessionStarts(c) \/ SessionEnds(c) \/ StartOrder(c) \/ RefuseStart(c)
             \/ TmpTimer(c) \/ WaitUseForced(c) \/ Hold(c)
      PROVE  IInv'
  BY <1>2, OrderMoves, NumberGiven
<1>3. ASSUME UNCHANGED vars PROVE IInv'
  <2>1. UNCHANGED <<startOK, stat, sn, pay, next, home, check, bits, tmp, flash, flashPaid,
                    ram, ramPaid, storeTimer, logined, up, rt, np, npCon, npSN,
                    req, rep, late, acked, losses>>
    BY <1>3 DEF vars, order, files, list, remote, wire
  <2>2. OrderType' /\ InStep'
    BY <2>1 DEF IInv, OrderType, Orders, InStep
  <2> QED BY <2>1, <2>2, SameLists, SameRemote, SameWire, SameOrders DEF IInv
<1> QED BY <1>1, <1>2, <1>3, UploadInv, PlatformInv, NoPayInv, FlushInv, PowerLossInv DEF Next

(* Type correctness: with it, the list and its file never exceed MaxItem   *)
(* + 1 orders, and what is paid is in the list.                            *)
THEOREM OrderTypeCorrect == Spec => []TypeOK
BY InitInv, NextInv, Implied, PTL DEF Spec

(* No order is stored twice, whatever power failures, refused starts and   *)
(* replies come between.                                                   *)
THEOREM OrderStoredOnce == Spec => []StoredOnce
BY InitInv, NextInv, Implied, PTL DEF Spec

(* A finished order is in its temporary file until it is stored.           *)
THEOREM OrderKept == Spec => []KeptUntilStored
BY InitInv, NextInv, Implied, PTL DEF Spec

(* The list keeps its orders and that they are paid, but for AddOrderCfg   *)
(* in a full list and a restart before the list is in its file.            *)
THEOREM ListIsKept == Spec => ListKeeps
<1> DEFINE Keeps == (~Restart \/ ~storeTimer) /\ Len(ram) <= MaxItem
                      => ToSet(ram) \subseteq ToSet(ram') /\ ramPaid \subseteq ramPaid'
<1>1. ASSUME IInv, [Next]_vars PROVE [Keeps]_vars
  <2>1. CASE UNCHANGED <<ram, ramPaid>>
    BY <2>1
  <2>2. ASSUME NEW s \in SN, ram' = AddOrderCfg(ram, s),
               ramPaid \cap ToSet(ram') \subseteq ramPaid'
        PROVE  Keeps
    <3>1. Len(ram) <= MaxItem => ToSet(ram) \subseteq ToSet(ram')
      BY <1>1, <2>2, AddOrderCfgSeq DEF IInv, Lists, FileType
    <3> QED BY <1>1, <2>2, <3>1 DEF IInv, Lists, FileType
  <2>3. ASSUME NEW c \in CON, Store(c) PROVE Keeps
    <3>1. sn[c] \in SN
      BY <1>1, <2>3 DEF Store, IInv, Orders, Unstored, Active, OrderType
    <3> QED BY <2>2, <2>3, <3>1 DEF Store
  <2>4. ASSUME NEW c \in CON, CheckOrderTmp(c) PROVE Keeps
    <3>1. CASE tmp[c] \in SN
      BY NotNumbers, <2>2, <2>4, <3>1 DEF CheckOrderTmp
    <3>2. CASE tmp[c] \in {None, Torn}
      BY NotNumbers, <2>4, <3>2 DEF CheckOrderTmp, list
    <3> QED BY <1>1, <3>1, <3>2 DEF IInv, Lists, FileType
  <2>5. ASSUME NoPayRecv PROVE Keeps
    BY <2>5 DEF NoPayRecv
  <2>6. ASSUME PowerLoss PROVE Keeps
    <3>1. ASSUME ~storeTimer PROVE ram' = ram /\ ramPaid' = ramPaid
      BY <1>1, <2>6, <3>1 DEF PowerLoss, TornWrite, Restart, files, IInv, Lists, Synced
    <3>2. Restart
      BY <2>6 DEF PowerLoss
    <3> QED BY <3>1, <3>2
  <2>12. ASSUME NEW c \in CON, CheckOrderTmpEmpty(c) PROVE Keeps
    <3>1. ASSUME ~storeTimer PROVE ram' = ram /\ ramPaid' = ramPaid
      BY <1>1, <2>12, <3>1 DEF CheckOrderTmpEmpty, Restart, IInv, Lists, Synced
    <3>2. Restart
      BY <2>12 DEF CheckOrderTmpEmpty
    <3> QED BY <3>1, <3>2
  <2>7. ASSUME NEW c \in CON,
               \/ SessionStarts(c) \/ SessionEnds(c) \/ StartOrder(c) \/ RefuseStart(c)
               \/ TmpTimer(c) \/ WaitUseForced(c) \/ Hold(c) \/ Answer(c) \/ Expire(c)
        PROVE  UNCHANGED <<ram, ramPaid>>
    BY <2>7 DEF SessionStarts, SessionEnds, StartOrder, RefuseStart, TmpTimer, WaitUseForced,
                Hold, Answer, Expire, list
  <2>8. ASSUME NEW c \in CON,
               \/ Tmp(c) \/ WaitStart(c) \/ Make(c) \/ Update(c) \/ WaitStop(c) \/ Finish(c)
               \/ WaitUse(c) \/ Return(c)
        PROVE  UNCHANGED <<ram, ramPaid>>
    BY <2>8 DEF Tmp, WaitStart, Make, Update, WaitStop, Finish, WaitUse, Return, list
  <2>9. ASSUME NEW c \in CON, RemoteStep(c) PROVE UNCHANGED <<ram, ramPaid>>
    BY <2>9 DEF RemoteStep, UploadIdle, UploadWait, UploadSend, UploadRecv, RTData, list
  <2>10. ASSUME Flush \/ NoPayIdle \/ NoPayWait \/ NoPaySend \/ Login \/ Logout
         PROVE  UNCHANGED <<ram, ramPaid>>
    BY <2>10 DEF Flush, NoPayIdle, NoPayWait, NoPaySend, Login, Logout, list
  <2>11. UNCHANGED vars => UNCHANGED <<ram, ramPaid>>
    BY DEF vars, list
  <2> HIDE DEF Keeps
  <2> QED BY <1>1, <2>1, <2>3, <2>4, <2>5, <2>6, <2>7, <2>8, <2>9, <2>10, <2>11, <2>12
          DEF Next, DataStep, NoPayStep
<1> QED BY <1>1, InitInv, NextInv, PTL DEF Spec, ListKeeps
=============================================================================
