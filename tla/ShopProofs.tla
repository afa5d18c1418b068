----------------------------- MODULE ShopProofs -----------------------------
(***************************************************************************)
(* Type correctness of Shop, for every set of orders, items, handlers,     *)
(* operations and carts: one step per action, under it one step per group  *)
(* of variables the action writes.                                         *)
(*                                                                         *)
(* And the transition map: while orders are moved by status updates, and   *)
(* by either returns or automatic completion, every change of status is    *)
(* one the map allows.  FollowInv says why: the status a handler decided   *)
(* on is the one it meets, or the version tells.                           *)
(***************************************************************************)
EXTENDS ShopProperties, TLAPS

\* An idle handler's job is well formed.
LEMMA IdleJob == Idle \in Job /\ Idle.at = "idle"
BY DEF Idle, Job, NoBasket, NoWindow, Window, Clock

\* The empty database is well formed.
LEMMA InitTypeOK == Init => TypeOK
<1> SUFFICES ASSUME Init PROVE TypeOK
  OBVIOUS
<1>1. StockTypeOK
  BY RollLengthAssumption
  DEF Init, StockInit, StockTypeOK, AllocStatus, InventoryStatus
<1>2. TableTypeOK
  BY DEF Init, TableTypeOK, NoWindow, NoBasket, Window, Clock, PaymentStatus
<1>3. JobTypeOK
  BY IdleJob DEF Init, JobTypeOK
<1> QED
  BY <1>1, <1>2, <1>3 DEF TypeOK

\* A handler takes up a well-formed job.
LEMMA BeginType ==
  ASSUME JobTypeOK, NEW h \in Handler, NEW j \in Job,
         j.at \notin {"idle", "expire"} => j.o \in Order,
         Begin(h, j)
  PROVE  JobTypeOK'
BY DEF JobTypeOK, Begin

\* A handler is done, or throws.
LEMMA FinishType ==
  ASSUME JobTypeOK, NEW h \in Handler, Finish(h)
  PROVE  JobTypeOK'
BY IdleJob DEF JobTypeOK, Finish

\* Reads leave the database alone.
LEMMA ReadType ==
  ASSUME TypeOK, UNCHANGED <<stockVars, orderVars, returnVars>>, JobTypeOK'
  PROVE  TypeOK'
BY DEF TypeOK, StockTypeOK, TableTypeOK, stockVars, orderVars, returnVars

\* The status of the one item list that release, sale and restocking write.
LEMMA SetStatusType ==
  ASSUME NEW it \in [Item -> InventoryStatus], NEW S, NEW s \in InventoryStatus
  PROVE  SetStatus(it, S, s) \in [Item -> InventoryStatus]
BY DEF SetStatus

LEMMA ReleaseType ==
  ASSUME NEW it \in [Item -> InventoryStatus], NEW S
  PROVE  /\ ReleaseInventory(it, S) \in [Item -> InventoryStatus]
         /\ MarkInventorySold(it, S) \in [Item -> InventoryStatus]
BY SetStatusType DEF ReleaseInventory, MarkInventorySold, InventoryStatus

\* Marking cut pieces keeps a sequence of pieces one.
LEMMA PiecesType ==
  ASSUME NEW ps \in Seq(InventoryStatus)
  PROVE  /\ MarkPiecesSold(ps) \in Seq(InventoryStatus)
         /\ ReleasePieces(ps) \in Seq(InventoryStatus)
<1> DEFINE n == Len(ps)
<1>1. n \in Nat /\ DOMAIN ps = 1..n /\ \A k \in 1..n : ps[k] \in InventoryStatus
  OBVIOUS
<1>2. MarkPiecesSold(ps) \in [1..n -> InventoryStatus]
  BY <1>1 DEF MarkPiecesSold, InventoryStatus
<1>3. ReleasePieces(ps) \in [1..n -> InventoryStatus]
  BY <1>1 DEF ReleasePieces, InventoryStatus
<1> HIDE DEF n
<1>4. \A f \in [1..n -> InventoryStatus] : f \in Seq(InventoryStatus)
  BY <1>1
<1> QED
  BY <1>2, <1>3, <1>4

\* The roll keeps its two lengths.
LEMMA RollType ==
  ASSUME NEW r \in [current : Int, reserved : Int], NEW len \in Int
  PROVE  /\ ReserveRollLength(r, len) \in [current : Int, reserved : Int]
         /\ ReleaseRollReservation(r, len) \in [current : Int, reserved : Int]
         /\ CutRollSegment(r, len) \in [current : Int, reserved : Int]
BY DEF ReserveRollLength, ReleaseRollReservation, CutRollSegment
----------------------------------------------------------------------------
(* Orders *)

LEMMA CreateType ==
  ASSUME TypeOK, NEW o \in Order, Create(o)
  PROVE  TypeOK'
<1> PICK b \in Baskets, online \in Methods : \E S \in Picks(item, b.qty) :
         /\ b.len <= RollFree
         /\ item' = SetStatus(item, S, "RESERVED")
         /\ links' = [links EXCEPT ![o] = S]
         /\ roll' = ReserveRollLength(roll, b.len)
         /\ alloc' = [alloc EXCEPT
                        ![o] = IF b.len > 0 THEN "RESERVED" ELSE "NONE"]
         /\ soldCount' = soldCount + b.qty
         /\ basket' = [basket EXCEPT ![o] = b]
         /\ pay' = [pay EXCEPT ![o] = InitialPayment(b, online)]
         /\ payTx' = [payTx EXCEPT
                        ![o] = IF online THEN "PENDING" ELSE "NONE"]
  BY DEF Create
<1> PICK S \in Picks(item, b.qty) :
         /\ item' = SetStatus(item, S, "RESERVED")
         /\ links' = [links EXCEPT ![o] = S]
         /\ roll' = ReserveRollLength(roll, b.len)
         /\ alloc' = [alloc EXCEPT
                        ![o] = IF b.len > 0 THEN "RESERVED" ELSE "NONE"]
         /\ soldCount' = soldCount + b.qty
         /\ basket' = [basket EXCEPT ![o] = b]
         /\ pay' = [pay EXCEPT ![o] = InitialPayment(b, online)]
         /\ payTx' = [payTx EXCEPT
                        ![o] = IF online THEN "PENDING" ELSE "NONE"]
  OBVIOUS
<1>0. b \in [qty : Nat, len : Nat] /\ S \subseteq Item
  BY BasketsAssumption DEF Picks, Active
<1>1. StockTypeOK'
  <2>1. item' \in [Item -> InventoryStatus]
    BY SetStatusType DEF TypeOK, StockTypeOK, InventoryStatus
  <2>2. roll' \in [current : Int, reserved : Int]
    BY <1>0, RollType DEF TypeOK, StockTypeOK
  <2>3. links' \in [Order -> SUBSET Item] /\ soldCount' \in Int
    BY <1>0 DEF TypeOK, StockTypeOK
  <2>4. alloc' \in [Order -> AllocStatus \cup {"NONE"}]
    BY DEF TypeOK, StockTypeOK, AllocStatus
  <2>5. pieces' \in [Order -> Seq(InventoryStatus)]
    BY DEF TypeOK, StockTypeOK, Create
  <2> QED
    BY <2>1, <2>2, <2>3, <2>4, <2>5 DEF StockTypeOK
<1>2. TableTypeOK'
  BY <1>0 DEF TypeOK, TableTypeOK, Create, InitialPayment, Total,
              PaymentStatus, OrderStatus, returnVars
<1>3. JobTypeOK'
  BY DEF TypeOK, JobTypeOK, Create
<1> QED
  BY <1>1, <1>2, <1>3 DEF TypeOK

\* All reads of Orders at once: what a job remembers is well formed.
LEMMA OrderReadsType ==
  ASSUME TypeOK, NEW h \in Handler, NEW o \in Order,
         \/ StartUpdateStatus(h, o) \/ StartCancelMyOrder(h, o)
         \/ StartConfirmDelivery(h, o) \/ StartConfirmRemaining(h, o)
         \/ StartMarkItemAsCut(h, o) \/ StartUpdateOrder(h, o)
  PROVE  TypeOK'
<1> USE IdleJob DEF Job, Stage
<1>1. CASE StartUpdateStatus(h, o)
  <2> PICK to \in Requestable(status[o]) :
         Begin(h, [Idle EXCEPT !.at = "updateStatus", !.o = o, !.to = to,
                               !.ver = version[o], !.win = window[o]])
    BY <1>1 DEF StartUpdateStatus
  <2>1. JobTypeOK'
    BY BeginType, ZenonT(60) DEF TypeOK, TableTypeOK, Requestable
  <2> QED
    BY <1>1, <2>1, ReadType DEF StartUpdateStatus
<1>2. CASE StartCancelMyOrder(h, o)
  <2>1. JobTypeOK'
    BY <1>2, BeginType, ZenonT(60) DEF StartCancelMyOrder, TypeOK, TableTypeOK
  <2> QED
    BY <1>2, <2>1, ReadType DEF StartCancelMyOrder
<1>3. CASE StartConfirmDelivery(h, o)
  <2>1. JobTypeOK'
    BY <1>3, BeginType, ZenonT(60) DEF StartConfirmDelivery, TypeOK, TableTypeOK
  <2> QED
    BY <1>3, <2>1, ReadType DEF StartConfirmDelivery
<1>4. CASE StartConfirmRemaining(h, o)
  <2>0. Total(basket[o]) \in Nat
    BY DEF TypeOK, TableTypeOK, Total
  <2>1. JobTypeOK'
    BY <1>4, <2>0, BeginType DEF StartConfirmRemaining, TypeOK
  <2> QED
    BY <1>4, <2>1, ReadType DEF StartConfirmRemaining
<1>5. CASE StartMarkItemAsCut(h, o)
  <2>1. JobTypeOK'
    BY <1>5, BeginType, ZenonT(60) DEF StartMarkItemAsCut, TypeOK, TableTypeOK
  <2> QED
    BY <1>5, <2>1, ReadType DEF StartMarkItemAsCut
<1>6. CASE StartUpdateOrder(h, o)
  <2>1. JobTypeOK'
    BY <1>6, BeginType, ZenonT(60) DEF StartUpdateOrder, TypeOK, TableTypeOK
  <2> QED
    BY <1>6, <2>1, ReadType DEF StartUpdateOrder
<1> QED
  BY <1>1, <1>2, <1>3, <1>4, <1>5, <1>6

\* A finished write: the stock and the tables it leaves are well formed.
LEMMA WriteType ==
  ASSUME TypeOK, NEW h \in Handler, Finish(h), StockTypeOK', TableTypeOK'
  PROVE  TypeOK'
BY FinishType DEF TypeOK

LEMMA UpdateStatusType ==
  ASSUME TypeOK, NEW h \in Handler, UpdateStatus(h)
  PROVE  TypeOK'
<1> DEFINE j == job[h]
           o == j.o
<1>1. /\ o \in Order /\ j.to \in OrderStatus \cup {"NONE"} /\ j.win \in Window
      /\ links[o] \subseteq Item /\ basket[o].len \in Nat
      /\ alloc[o] \in AllocStatus \cup {"NONE"}
      /\ pieces[o] \in Seq(InventoryStatus)
  BY DEF UpdateStatus, TypeOK, JobTypeOK, TableTypeOK, StockTypeOK, Job
<1>2. roll \in [current : Int, reserved : Int] /\ basket[o].len \in Int
  BY <1>1 DEF TypeOK, StockTypeOK
<1>3. /\ CutRollSegment(roll, basket[o].len) \in [current : Int, reserved : Int]
      /\ ReleaseRollReservation(roll, basket[o].len)
           \in [current : Int, reserved : Int]
  BY <1>2, RollType
<1>4. StockTypeOK'
  <2>1. CASE SendToCutting(o)
    BY <1>1, <2>1 DEF SendToCutting, TypeOK, StockTypeOK, AllocStatus
  <2>2. CASE CutAndHandOver(o, j.to)
    <3> DEFINE piece == IF j.to = "DELIVERED" THEN "SOLD" ELSE "RESERVED"
               cut == IF Uncut(alloc[o])
                      THEN Append(pieces[o], piece) ELSE pieces[o]
    <3>1. cut \in Seq(InventoryStatus)
      BY <1>1 DEF InventoryStatus
    <3>2. pieces' = [pieces EXCEPT
                       ![o] = IF j.to = "DELIVERED" THEN MarkPiecesSold(cut)
                              ELSE cut]
      BY <2>2 DEF CutAndHandOver
    <3> HIDE DEF cut
    <3>3. pieces' \in [Order -> Seq(InventoryStatus)]
      BY <3>1, <3>2, PiecesType DEF TypeOK, StockTypeOK
    <3>4. item' \in [Item -> InventoryStatus]
      BY <2>2, ReleaseType DEF CutAndHandOver, TypeOK, StockTypeOK
    <3>5. roll' \in [current : Int, reserved : Int]
      BY <1>2, <1>3, <2>2 DEF CutAndHandOver
    <3>6. alloc' \in [Order -> AllocStatus \cup {"NONE"}]
      BY <1>1, <2>2 DEF CutAndHandOver, TypeOK, StockTypeOK, AllocStatus
    <3> QED
      BY <2>2, <3>3, <3>4, <3>5, <3>6 DEF CutAndHandOver, TypeOK, StockTypeOK
  <2>3. CASE GiveBack(o)
    <3>1. item' \in [Item -> InventoryStatus]
      BY <2>3, ReleaseType DEF GiveBack, TypeOK, StockTypeOK
    <3>2. pieces' \in [Order -> Seq(InventoryStatus)]
      BY <1>1, <2>3, PiecesType DEF GiveBack, TypeOK, StockTypeOK
    <3>3. roll' \in [current : Int, reserved : Int]
      BY <1>2, <1>3, <2>3 DEF GiveBack
    <3>4. alloc' \in [Order -> AllocStatus \cup {"NONE"}]
      BY <1>1, <2>3 DEF GiveBack, TypeOK, StockTypeOK, AllocStatus
    <3> QED
      BY <2>3, <3>1, <3>2, <3>3, <3>4 DEF GiveBack, TypeOK, StockTypeOK
  <2>4. CASE UNCHANGED stockVars
    BY <2>4 DEF stockVars, TypeOK, StockTypeOK
  <2> QED
    BY <2>1, <2>2, <2>3, <2>4 DEF UpdateStatus
<1>5. TableTypeOK'
  <2>1. button' \in [Order -> {"nobody", "courier", "customer"}]
    BY <1>1 DEF UpdateStatus, TypeOK, TableTypeOK
  <2>2. window' \in [Order -> Window]
    BY <1>1 DEF UpdateStatus, TypeOK, TableTypeOK, Window, Clock
  <2>3. /\ status' \in [Order -> OrderStatus \cup {"NONE"}]
        /\ version' \in [Order -> Nat]
    BY <1>1 DEF UpdateStatus, TypeOK, TableTypeOK
  <2>4. UNCHANGED <<basket, edition, returned, pay, payTx, old, request,
                    refunds>>
    BY DEF UpdateStatus, returnVars
  <2> QED
    BY <2>1, <2>2, <2>3, <2>4 DEF TypeOK, TableTypeOK
<1> QED
  BY <1>4, <1>5, WriteType DEF UpdateStatus

\* The writes of Orders that touch stock.
LEMMA CancelMyOrderType ==
  ASSUME TypeOK, NEW h \in Handler, CancelMyOrder(h)
  PROVE  TypeOK'
<1> DEFINE o == job[h].o
<1>0. /\ o \in Order /\ job[h].b \in [qty : Nat, len : Nat]
      /\ pieces[o] \in Seq(InventoryStatus)
  BY DEF CancelMyOrder, TypeOK, JobTypeOK, StockTypeOK, Job
<1>1. StockTypeOK'
  <2>1. item' \in [Item -> InventoryStatus]
    BY ReleaseType DEF CancelMyOrder, TypeOK, StockTypeOK
  <2>2. pieces' \in [Order -> Seq(InventoryStatus)]
    BY <1>0, PiecesType DEF CancelMyOrder, TypeOK, StockTypeOK
  <2>3. soldCount' \in Int
    BY <1>0, SMTT(60) DEF CancelMyOrder, TypeOK, StockTypeOK
  <2> QED
    BY <2>1, <2>2, <2>3 DEF CancelMyOrder, TypeOK, StockTypeOK
<1>2. TableTypeOK'
  BY <1>0 DEF CancelMyOrder, TypeOK, TableTypeOK, OrderStatus, returnVars
<1> QED
  BY <1>1, <1>2, WriteType DEF CancelMyOrder

LEMMA RequestCancelType ==
  ASSUME TypeOK, NEW h \in Handler, RequestCancel(h)
  PROVE  TypeOK'
<1>1. StockTypeOK'
  BY DEF RequestCancel, TypeOK, StockTypeOK, stockVars
<1>2. TableTypeOK'
  BY DEF RequestCancel, TypeOK, TableTypeOK, OrderStatus, returnVars
<1> QED
  BY <1>1, <1>2, WriteType DEF RequestCancel

\* One of the statements of confirmDelivery has landed.
LEMMA TickType ==
  ASSUME JobTypeOK, NEW h \in Handler, NEW step, Tick(h, step)
  PROVE  JobTypeOK'
<1>1. CASE job[h].todo = {step}
  BY <1>1, FinishType DEF Tick
<1>2. CASE job[h].todo # {step}
  <2>1. job' = [job EXCEPT ![h] = [job[h] EXCEPT !.todo = job[h].todo \ {step}]]
    BY <1>2 DEF Tick
  <2>2. job[h] \in Job
    BY DEF JobTypeOK
  <2>3. [job[h] EXCEPT !.todo = job[h].todo \ {step}] \in Job
    BY <2>2 DEF Job
  <2>4. /\ [job[h] EXCEPT !.todo = job[h].todo \ {step}].at = job[h].at
        /\ [job[h] EXCEPT !.todo = job[h].todo \ {step}].o = job[h].o
    BY <2>2 DEF Job
  <2> QED
    BY <2>1, <2>3, <2>4 DEF JobTypeOK
<1> QED
  BY <1>1, <1>2

LEMMA ConfirmDeliveryType ==
  ASSUME TypeOK, NEW h \in Handler,
         ConfirmSold(h) \/ ConfirmAllocation(h) \/ ConfirmOrder(h)
  PROVE  TypeOK'
<1>1. CASE ConfirmSold(h)
  <2>1. item' \in [Item -> InventoryStatus]
    BY <1>1, ReleaseType DEF ConfirmSold, TypeOK, StockTypeOK
  <2>2. pieces' \in [Order -> Seq(InventoryStatus)]
    <3> DEFINE o == job[h].o
    <3>1. o \in Order => MarkPiecesSold(pieces[o]) \in Seq(InventoryStatus)
      BY PiecesType DEF TypeOK, StockTypeOK
    <3> QED
      BY <1>1, <3>1 DEF ConfirmSold, TypeOK, StockTypeOK
  <2>3. StockTypeOK'
    BY <1>1, <2>1, <2>2 DEF ConfirmSold, TypeOK, StockTypeOK
  <2>4. TableTypeOK'
    BY <1>1 DEF ConfirmSold, TypeOK, TableTypeOK, orderVars, returnVars
  <2> QED
    BY <1>1, <2>3, <2>4, TickType DEF ConfirmSold, TypeOK
<1>2. CASE ConfirmAllocation(h)
  <2>1. StockTypeOK'
    BY <1>2 DEF ConfirmAllocation, TypeOK, StockTypeOK, AllocStatus
  <2>2. TableTypeOK'
    BY <1>2 DEF ConfirmAllocation, TypeOK, TableTypeOK, orderVars, returnVars
  <2> QED
    BY <1>2, <2>1, <2>2, TickType DEF ConfirmAllocation, TypeOK
<1>3. CASE ConfirmOrder(h)
  <2>1. StockTypeOK'
    BY <1>3 DEF ConfirmOrder, TypeOK, StockTypeOK, stockVars
  <2>2. window' \in [Order -> Window]
    <3> DEFINE o == job[h].o
    <3>1. window \in [Order -> Window]
      BY DEF TypeOK, TableTypeOK
    <3>2. window' = [window EXCEPT ![o].done = "open"]
      BY <1>3 DEF ConfirmOrder
    <3> HIDE DEF o
    <3>3. o \in Order => [window[o] EXCEPT !.done = "open"] \in Window
      BY <3>1 DEF Window, Clock
    <3> QED
      BY <3>1, <3>2, <3>3
  <2>3. TableTypeOK'
    BY <1>3, <2>2
    DEF ConfirmOrder, TypeOK, TableTypeOK, OrderStatus, returnVars
  <2> QED
    BY <1>3, <2>1, <2>3, TickType DEF ConfirmOrder, TypeOK
<1> QED
  BY <1>1, <1>2, <1>3

LEMMA ConfirmRemainingType ==
  ASSUME TypeOK, NEW h \in Handler, ConfirmRemaining(h)
  PROVE  TypeOK'
<1>1. StockTypeOK'
  BY DEF ConfirmRemaining, TypeOK, StockTypeOK, stockVars
<1>2. job[h].rest \in Nat
  BY DEF TypeOK, JobTypeOK, Job
<1>3. TableTypeOK'
  BY <1>2 DEF ConfirmRemaining, TypeOK, TableTypeOK, PaymentStatus, returnVars
<1> QED
  BY <1>1, <1>3, WriteType DEF ConfirmRemaining

LEMMA MarkItemAsCutType ==
  ASSUME TypeOK, NEW h \in Handler, MarkItemAsCut(h)
  PROVE  TypeOK'
<1>1. roll \in [current : Int, reserved : Int] /\ job[h].b.len \in Int
  BY DEF TypeOK, StockTypeOK, JobTypeOK, Job
<1>2. roll' \in [current : Int, reserved : Int]
  BY <1>1, RollType DEF MarkItemAsCut
<1>3. StockTypeOK'
  BY <1>2 DEF MarkItemAsCut, TypeOK, StockTypeOK, AllocStatus
<1>4. TableTypeOK'
  BY DEF MarkItemAsCut, TypeOK, TableTypeOK, orderVars, returnVars
<1> QED
  BY <1>3, <1>4, WriteType DEF MarkItemAsCut

LEMMA UpdateOrderType ==
  ASSUME TypeOK, NEW h \in Handler, UpdateOrder(h)
  PROVE  TypeOK'
<1> DEFINE j == job[h]
           o == j.o
           freed == IF j.ed = edition[o] THEN ReleaseInventory(item, links[o])
                    ELSE item
           wound == ReleaseRollReservation(roll, j.b.len)
<1>1. freed \in [Item -> InventoryStatus]
  BY ReleaseType DEF TypeOK, StockTypeOK
<1>2. wound \in [current : Int, reserved : Int]
  <2>1. roll \in [current : Int, reserved : Int] /\ j.b.len \in Int
    BY DEF TypeOK, StockTypeOK, JobTypeOK, Job
  <2> QED
    BY <2>1, RollType
<1>5. o \in Order
  BY SMTT(60) DEF UpdateOrder, TypeOK, JobTypeOK
<1> HIDE DEF freed, wound
<1>3. PICK b \in Baskets : \E S \in Picks(freed, b.qty) :
        /\ b.len <= wound.current - wound.reserved
        /\ item' = SetStatus(freed, S, "RESERVED")
        /\ links' = [links EXCEPT ![o] = S]
        /\ roll' = ReserveRollLength(wound, b.len)
        /\ alloc' = [alloc EXCEPT
                       ![o] = IF b.len > 0 THEN "RESERVED" ELSE "NONE"]
        /\ soldCount' = soldCount + b.qty
        /\ basket' = [basket EXCEPT ![o] = b]
        /\ pay' = [pay EXCEPT ![o].paid = 0, ![o].rest = Total(b)]
  BY DEF UpdateOrder, freed, wound
<1>4. b \in [qty : Nat, len : Nat] /\ Total(b) \in Nat
  BY BasketsAssumption DEF Total
<1>6. StockTypeOK'
  <2>1. PICK S \in Picks(freed, b.qty) :
          /\ item' = SetStatus(freed, S, "RESERVED")
          /\ links' = [links EXCEPT ![o] = S]
    BY <1>3
  <2>2. item' \in [Item -> InventoryStatus]
    BY <1>1, <2>1, SetStatusType DEF InventoryStatus
  <2>3. links' \in [Order -> SUBSET Item]
    BY <2>1 DEF Picks, Active, TypeOK, StockTypeOK
  <2>4. roll' \in [current : Int, reserved : Int]
    <3>1. roll' = ReserveRollLength(wound, b.len) /\ b.len \in Int
      BY <1>3, <1>4
    <3> QED
      BY <1>2, <3>1, RollType
  <2>5. alloc' \in [Order -> AllocStatus \cup {"NONE"}] /\ soldCount' \in Int
    <3>1. /\ alloc' = [alloc EXCEPT
                         ![o] = IF b.len > 0 THEN "RESERVED" ELSE "NONE"]
          /\ soldCount' = soldCount + b.qty
      BY <1>3
    <3>2. soldCount' \in Int
      BY <1>4, <3>1 DEF TypeOK, StockTypeOK
    <3> HIDE DEF o
    <3>3. alloc' \in [Order -> AllocStatus \cup {"NONE"}]
      BY <3>1 DEF TypeOK, StockTypeOK, AllocStatus
    <3> QED
      BY <3>2, <3>3
  <2>6. pieces' \in [Order -> Seq(InventoryStatus)]
    <3>1. pieces' = [pieces EXCEPT ![o] = <<>>] /\ <<>> \in Seq(InventoryStatus)
      BY DEF UpdateOrder
    <3> HIDE DEF o
    <3> QED
      BY <3>1 DEF TypeOK, StockTypeOK
  <2> QED
    BY <2>2, <2>3, <2>4, <2>5, <2>6 DEF StockTypeOK
<1>7. TableTypeOK'
  <2>1. basket' \in [Order -> [qty : Nat, len : Nat]]
    <3>1. basket' = [basket EXCEPT ![o] = b]
      BY <1>3
    <3> QED
      BY <1>4, <3>1 DEF TypeOK, TableTypeOK
  <2>2. pay' \in [Order -> [paid : Nat, rest : Nat, st : PaymentStatus]]
    <3>1. pay' = [pay EXCEPT ![o].paid = 0, ![o].rest = Total(b)]
      BY <1>3
    <3>2. pay \in [Order -> [paid : Nat, rest : Nat, st : PaymentStatus]]
      BY DEF TypeOK, TableTypeOK
    <3>3. o \in Order /\ Total(b) \in Nat
      BY <1>4, <1>5
    <3> HIDE DEF o
    <3>4. pay[o] \in [paid : Nat, rest : Nat, st : PaymentStatus]
      BY <3>2, <3>3
    <3> DEFINE due == [pay[o] EXCEPT !.paid = 0, !.rest = Total(b)]
    <3>5. pay' = [pay EXCEPT ![o] = due]
      BY <3>1, <3>2, <3>3
    <3>6. due \in [paid : Nat, rest : Nat, st : PaymentStatus]
      BY <3>3, <3>4
    <3> HIDE DEF due
    <3> QED
      BY <3>2, <3>3, <3>5, <3>6
  <2>3. edition' \in [Order -> Nat] /\ returned' \in [Order -> BOOLEAN]
    BY <1>5 DEF UpdateOrder, TypeOK, TableTypeOK
  <2>4. UNCHANGED <<status, version, window, payTx, button, old, request,
                    refunds>>
    BY DEF UpdateOrder, returnVars
  <2> QED
    BY <2>1, <2>2, <2>3, <2>4 DEF TypeOK, TableTypeOK
<1> QED
  BY <1>6, <1>7, WriteType DEF UpdateOrder

LEMMA DayType ==
  ASSUME TypeOK, NEW o \in Order, ReturnWindowCloses(o) \/ OrderAges(o)
  PROVE  TypeOK'
<1>1. StockTypeOK' /\ JobTypeOK'
  BY DEF ReturnWindowCloses, OrderAges, TypeOK, StockTypeOK, stockVars, JobTypeOK
<1>2. TableTypeOK'
  <2>1. window' \in [Order -> Window]
    <3>1. window[o].done \in Clock /\ window[o].deadline \in Clock
      BY DEF TypeOK, TableTypeOK, Window
    <3>2. UNCHANGED window \/ \E w \in Window : window' = [window EXCEPT ![o] = w]
      BY <3>1 DEF ReturnWindowCloses, OrderAges, Window, Clock
    <3> QED
      BY <3>2 DEF TypeOK, TableTypeOK
  <2>2. old' \in SUBSET Order
    BY DEF ReturnWindowCloses, OrderAges, TypeOK, TableTypeOK
  <2> QED
    BY <2>1, <2>2
    DEF ReturnWindowCloses, OrderAges, TypeOK, TableTypeOK, returnVars
<1> QED
  BY <1>1, <1>2 DEF TypeOK

LEMMA AbandonType ==
  ASSUME TypeOK, NEW h \in Handler, Abandon(h)
  PROVE  TypeOK'
BY FinishType, ReadType DEF Abandon, TypeOK

\* Every step of Orders.
LEMMA OrderNextType ==
  ASSUME TypeOK, OrderNext
  PROVE  TypeOK'
BY CreateType, OrderReadsType, UpdateStatusType, CancelMyOrderType,
   RequestCancelType, ConfirmDeliveryType, ConfirmRemainingType,
   MarkItemAsCutType, UpdateOrderType, DayType, AbandonType
DEF OrderNext
----------------------------------------------------------------------------
(* Returns *)

LEMMA ReturnReadsType ==
  ASSUME TypeOK, NEW h \in Handler, NEW o \in Order,
         \/ StartCreateReturn(h, o) \/ StartRefund(h, o)
         \/ StartTelegramRefund(h, o) \/ StartTelegramReject(h, o)
         \/ StartAutoComplete(h, o)
  PROVE  TypeOK'
<1> USE IdleJob, BeginType, ReadType DEF Job, Stage, TypeOK, TableTypeOK
<1>1. CASE StartCreateReturn(h, o)
  BY <1>1, ZenonT(60) DEF StartCreateReturn
<1>2. CASE StartRefund(h, o)
  BY <1>2, ZenonT(60) DEF StartRefund
<1>3. CASE StartTelegramRefund(h, o)
  BY <1>3, ZenonT(60) DEF StartTelegramRefund
<1>4. CASE StartTelegramReject(h, o)
  BY <1>4, ZenonT(60) DEF StartTelegramReject
<1>5. CASE StartAutoComplete(h, o)
  BY <1>5 DEF StartAutoComplete
<1> QED
  BY <1>1, <1>2, <1>3, <1>4, <1>5

\* The second reads of a refund and of the cron, and both of the webhook.
LEMMA LaterReadsType ==
  ASSUME TypeOK, NEW h \in Handler,
         \/ RefundReadsOrder(h) \/ TelegramRefundReadsRequest(h)
         \/ AutoCompleteReads(h) \/ WebhookReads(h)
  PROVE  TypeOK'
<1> DEFINE o == job[h].o
<1>1. job[h] \in Job /\ o \in Order
  BY DEF TypeOK, JobTypeOK, RefundReadsOrder, TelegramRefundReadsRequest,
         AutoCompleteReads, WebhookReads
<1>2. /\ version[o] \in Nat /\ edition[o] \in Nat /\ returned[o] \in BOOLEAN
      /\ basket[o] \in [qty : Nat, len : Nat] /\ pay[o].rest \in Nat
  BY <1>1 DEF TypeOK, TableTypeOK
<1> USE <1>1, <1>2, BeginType, ReadType DEF Job, Stage, TypeOK
<1>3. CASE RefundReadsOrder(h)
  <2>1. Begin(h, [job[h] EXCEPT !.at = "refund", !.ver = version[o],
                                !.ed = edition[o], !.b = basket[o],
                                !.flag = returned[o]])
    BY <1>3 DEF RefundReadsOrder, ReadItems
  <2>2. JobTypeOK'
    BY <2>1
  <2> QED
    BY <1>3, <2>2 DEF RefundReadsOrder
<1>4. CASE TelegramRefundReadsRequest(h)
  <2>1. Begin(h, [job[h] EXCEPT !.at = "tgRefund", !.ed = edition[o],
                                !.b = basket[o], !.flag = returned[o]])
    BY <1>4 DEF TelegramRefundReadsRequest
  <2>2. JobTypeOK'
    BY <2>1
  <2> QED
    BY <1>4, <2>2 DEF TelegramRefundReadsRequest
<1>5. CASE AutoCompleteReads(h)
  BY <1>5 DEF AutoCompleteReads
<1>6. CASE WebhookReads(h)
  BY <1>6 DEF WebhookReads
<1> QED
  BY <1>3, <1>4, <1>5, <1>6

LEMMA RefundType ==
  ASSUME TypeOK, NEW h \in Handler, Refund(h)
  PROVE  TypeOK'
<1>1. item' \in [Item -> InventoryStatus]
  BY SetStatusType DEF Refund, TypeOK, StockTypeOK, InventoryStatus
<1>2. StockTypeOK'
  BY <1>1 DEF Refund, TypeOK, StockTypeOK
<1>3. job[h].o \in Order
  BY DEF Refund, TypeOK, JobTypeOK
<1>4. TableTypeOK'
  BY <1>3 DEF Refund, TypeOK, TableTypeOK, OrderStatus, RequestStatus
<1> QED
  BY <1>2, <1>4, WriteType DEF Refund

LEMMA ReturnWritesType ==
  ASSUME TypeOK, NEW h \in Handler,
         CreateReturnRequest(h) \/ TelegramReject(h) \/ AutoComplete(h)
  PROVE  TypeOK'
<1>1. StockTypeOK'
  BY DEF CreateReturnRequest, TelegramReject, AutoComplete, TypeOK,
         StockTypeOK, stockVars
<1>2. job[h].o \in Order /\ job[h].ver \in Nat
  BY DEF CreateReturnRequest, TelegramReject, AutoComplete, TypeOK,
         JobTypeOK, Job
<1>3. TableTypeOK'
  <2> USE <1>2 DEF TypeOK, TableTypeOK, OrderStatus, RequestStatus, returnVars
  <2>1. CASE CreateReturnRequest(h)
    BY <2>1 DEF CreateReturnRequest
  <2>2. CASE TelegramReject(h)
    BY <2>2 DEF TelegramReject
  <2>3. CASE AutoComplete(h)
    BY <2>3 DEF AutoComplete
  <2> QED
    BY <2>1, <2>2, <2>3
<1> QED
  BY <1>1, <1>3, WriteType
  DEF CreateReturnRequest, TelegramReject, AutoComplete

LEMMA RejectReturnType ==
  ASSUME TypeOK, NEW o \in Order, RejectReturn(o)
  PROVE  TypeOK'
BY DEF RejectReturn, TypeOK, StockTypeOK, stockVars, TableTypeOK,
       OrderStatus, RequestStatus, JobTypeOK

LEMMA ReturnNextType ==
  ASSUME TypeOK, ReturnNext
  PROVE  TypeOK'
BY ReturnReadsType, LaterReadsType, RefundType, ReturnWritesType,
   RejectReturnType
DEF ReturnNext
----------------------------------------------------------------------------
(* Shop *)

LEMMA ShopReadsType ==
  ASSUME TypeOK, NEW h \in Handler, NEW o \in Order,
         StartWebhook(h, o) \/ StartConfirmArrival(h, o)
  PROVE  TypeOK'
<1> USE IdleJob, BeginType, ReadType DEF Job, Stage, TypeOK, TableTypeOK
<1>1. CASE StartWebhook(h, o)
  BY <1>1 DEF StartWebhook
<1>2. CASE StartConfirmArrival(h, o)
  BY <1>2 DEF StartConfirmArrival
<1> QED
  BY <1>1, <1>2

LEMMA WebhookMarksType ==
  ASSUME TypeOK, NEW h \in Handler, WebhookMarks(h)
  PROVE  TypeOK'
<1>1. job[h] \in Job /\ job[h].o \in Order
  BY DEF WebhookMarks, TypeOK, JobTypeOK
<1>2. JobTypeOK'
  <2>1. \E s \in {"webhookRead", "webhookPay"} :
          Begin(h, [job[h] EXCEPT !.at = s])
    BY DEF WebhookMarks
  <2> QED
    BY <1>1, <2>1, BeginType DEF Job, Stage, TypeOK
<1>3. StockTypeOK'
  BY DEF WebhookMarks, TypeOK, StockTypeOK, stockVars
<1>4. TableTypeOK'
  BY DEF WebhookMarks, TypeOK, TableTypeOK, returnVars
<1> QED
  BY <1>2, <1>3, <1>4 DEF TypeOK

LEMMA WebhookPaysType ==
  ASSUME TypeOK, NEW h \in Handler, WebhookPays(h)
  PROVE  TypeOK'
<1> DEFINE o == job[h].o
<1>1. o \in Order /\ job[h].rest \in Nat
  BY DEF WebhookPays, TypeOK, JobTypeOK, Job
<1>2. Less(job[h].rest, Deposit) \in Nat /\ Deposit \in Nat
  BY <1>1 DEF Less, Deposit
<1>3. pay' \in [Order -> [paid : Nat, rest : Nat, st : PaymentStatus]]
  <2>1. \E p \in [paid : Nat, rest : Nat, st : PaymentStatus] :
          pay' = [pay EXCEPT ![o] = p]
    BY <1>1, <1>2 DEF WebhookPays, TypeOK, TableTypeOK, PaymentStatus
  <2> QED
    BY <2>1 DEF TypeOK, TableTypeOK
<1>4. status' \in [Order -> OrderStatus \cup {"NONE"}]
  BY DEF WebhookPays, TypeOK, TableTypeOK, OrderStatus
<1>5. TableTypeOK'
  BY <1>3, <1>4 DEF WebhookPays, TypeOK, TableTypeOK, returnVars
<1>6. StockTypeOK'
  BY DEF WebhookPays, TypeOK, StockTypeOK, stockVars
<1> QED
  BY <1>5, <1>6, WriteType DEF WebhookPays

LEMMA ConfirmArrivalType ==
  ASSUME TypeOK, NEW h \in Handler, ConfirmArrival(h)
  PROVE  TypeOK'
<1>1. StockTypeOK' /\ TableTypeOK'
  BY DEF ConfirmArrival, TypeOK, StockTypeOK, stockVars, TableTypeOK,
         OrderStatus, returnVars
<1> QED
  BY <1>1, WriteType DEF ConfirmArrival

LEMMA CourierDeliveredType ==
  ASSUME TypeOK, NEW o \in Order, CourierDelivered(o)
  PROVE  TypeOK'
BY DEF CourierDelivered, TypeOK, StockTypeOK, stockVars, TableTypeOK,
       returnVars, JobTypeOK

LEMMA ExpireType ==
  ASSUME TypeOK, NEW h \in Handler,
         StartExpireReservations(h) \/ ExpireReservations(h)
  PROVE  TypeOK'
<1>1. CASE StartExpireReservations(h)
  <2> DEFINE expired == {i \in Item : Expired(i)}
  <2>1. Begin(h, [Idle EXCEPT !.at = "expire", !.scan = expired])
    BY <1>1 DEF StartExpireReservations
  <2>2. expired \in SUBSET Item
    OBVIOUS
  <2> HIDE DEF expired
  <2>3. JobTypeOK'
    BY <2>1, <2>2, IdleJob, BeginType DEF Job, Stage, TypeOK
  <2> QED
    BY <1>1, <2>3, ReadType DEF StartExpireReservations
<1>2. CASE ExpireReservations(h)
  <2>1. item' \in [Item -> InventoryStatus]
    BY <1>2, SetStatusType
    DEF ExpireReservations, TypeOK, StockTypeOK, InventoryStatus
  <2>2. StockTypeOK' /\ TableTypeOK'
    BY <1>2, <2>1
    DEF ExpireReservations, TypeOK, StockTypeOK, TableTypeOK, orderVars,
        returnVars
  <2> QED
    BY <1>2, <2>2, WriteType DEF ExpireReservations
<1> QED
  BY <1>1, <1>2

LEMMA ShopNextType ==
  ASSUME TypeOK, ShopNext
  PROVE  TypeOK'
BY ShopReadsType, LaterReadsType, WebhookMarksType, WebhookPaysType,
   ConfirmArrivalType, CourierDeliveredType, ExpireType
DEF ShopNext

LEMMA StutterType ==
  ASSUME TypeOK, UNCHANGED vars
  PROVE  TypeOK'
BY DEF TypeOK, StockTypeOK, TableTypeOK, JobTypeOK, vars, stockVars,
       orderVars, returnVars

\* Every step of Shop.
LEMMA NextType ==
  ASSUME TypeOK, [Next]_vars
  PROVE  TypeOK'
BY OrderNextType, ReturnNextType, ShopNextType, StutterType DEF Next

\* Every reachable state of Shop is well typed: whichever operations are in
\* use and however they interleave, no handler writes a value outside its
\* column or remembers an order that does not exist.
THEOREM TypeCorrect == Spec => []TypeOK
BY InitTypeOK, NextType, PTL DEF Spec

----------------------------------------------------------------------------
(* The transition map *)

\* Operations that move an order along the map.  A return request and the
\* cron that completes the order both leave DELIVERED, and the request checks
\* no version: with both in use the request can hit a completed order.
MapInUse ==
  /\ Ops \subseteq {"create", "updateStatus", "confirmRemaining",
                    "autoComplete", "createReturnRequest"}
  /\ ~ {"autoComplete", "createReturnRequest"} \subseteq Ops

Follows(h) ==
  LET j == job[h]
      o == j.o
  IN  /\ j.at \in {"idle", "updateStatus", "confirmRemaining", "createReturn",
                   "autoCompleteRead", "autoComplete"}
      /\ j.todo = {}
      /\ j.at # "idle" => Exists(o)
      /\ j.at \in {"updateStatus", "autoComplete"} => j.ver <= version[o]
      /\ j.at = "updateStatus" /\ UpToDate(h) => j.to \in Requestable(status[o])
      /\ j.at \in {"autoCompleteRead", "autoComplete"} => "autoComplete" \in Ops
      /\ j.at = "autoComplete" /\ UpToDate(h) => status[o] = "DELIVERED"
      /\ j.at = "createReturn" =>
           /\ "createReturnRequest" \in Ops
           /\ request[o] = "NONE" => status[o] = "DELIVERED"

FollowInv == TypeOK /\ \A h \in Handler : Follows(h)

\* What a step may do to the orders: without a new version an order moves only
\* from DELIVERED, by a return request.
Guided ==
  \A p \in Order :
    /\ Exists(p) => Exists(p)'
    /\ version[p] <= version'[p]
    /\ Exists(p) /\ version'[p] = version[p] =>
         \/ status'[p] = status[p]
         \/ status[p] = "DELIVERED" /\ "createReturnRequest" \in Ops
    /\ "createReturnRequest" \in Ops /\ request'[p] = "NONE" =>
         /\ request[p] = "NONE"
         /\ status[p] = "DELIVERED" => status'[p] = "DELIVERED"

OnTheMap ==
  \A o \in Order :
    Moves(o) => \/ status[o] = "NONE" /\ status'[o] = "PENDING"
                \/ Exists(o) /\ canTransition(status[o], status'[o])

LEMMA OthersFollow ==
  ASSUME MapInUse, TypeOK, TypeOK', Guided, NEW g \in Handler, Follows(g),
         job'[g] = job[g]
  PROVE  Follows(g)'
<1> DEFINE p == job[g].o
<1>1. CASE job[g].at = "idle"
  BY <1>1 DEF Follows
<1>2. CASE job[g].at # "idle"
  <2>1. p \in Order
    BY <1>2 DEF Follows, TypeOK, JobTypeOK
  <2>2. version[p] \in Nat /\ version'[p] \in Nat /\ job[g].ver \in Nat
    BY <2>1 DEF TypeOK, JobTypeOK, TableTypeOK, Job
  <2>3. Exists(p) /\ Exists(p)' /\ version[p] <= version'[p]
    BY <1>2, <2>1 DEF Guided, Follows
  <2>4. ASSUME job[g].at \in {"updateStatus", "autoComplete"},
               version'[p] = job[g].ver
        PROVE  /\ UpToDate(g)
               /\ \/ status'[p] = status[p]
                  \/ status[p] = "DELIVERED" /\ "createReturnRequest" \in Ops
    <3>1. version[p] = job[g].ver
      BY <2>2, <2>3, <2>4 DEF Follows
    <3> QED
      BY <2>1, <2>3, <2>4, <3>1 DEF Guided, UpToDate
  <2>5. job[g].at = "updateStatus" /\ UpToDate(g)'
        => job[g].to \in Requestable(status'[p])
    <3> SUFFICES ASSUME job[g].at = "updateStatus", version'[p] = job[g].ver
                 PROVE  job[g].to \in Requestable(status'[p])
      BY DEF UpToDate
    <3>1. job[g].to \in Requestable(status[p])
      BY <2>4 DEF Follows
    <3>2. status[p] # "DELIVERED"
      BY <3>1 DEF Requestable
    <3> QED
      BY <2>4, <3>1, <3>2
  <2>6. job[g].at = "autoComplete" /\ UpToDate(g)' => status'[p] = "DELIVERED"
    BY <2>4 DEF Follows, UpToDate, MapInUse
  <2>7. job[g].at = "createReturn" /\ request'[p] = "NONE"
        => status'[p] = "DELIVERED"
    BY <2>1 DEF Follows, Guided
  <2> QED
    BY <1>2, <2>2, <2>3, <2>5, <2>6, <2>7 DEF Follows
<1> QED
  BY <1>1, <1>2

\* Putting a step together.
LEMMA StepFollows ==
  ASSUME MapInUse, FollowInv, TypeOK', Guided, OnTheMap,
         \A g \in Handler : job'[g] = job[g] \/ Follows(g)'
  PROVE  FollowInv' /\ OnTheMap
BY OthersFollow DEF FollowInv

LEMMA FinishFollows ==
  ASSUME TypeOK, NEW h \in Handler, Finish(h)
  PROVE  \A g \in Handler : job'[g] = job[g] \/ Follows(g)'
BY DEF TypeOK, JobTypeOK, Finish, Follows, Idle

\* Steps that move no order.
LEMMA QuietFollows ==
  ASSUME MapInUse, FollowInv, TypeOK', UNCHANGED <<status, version, request>>,
         \A g \in Handler : job'[g] = job[g] \/ Follows(g)'
  PROVE  FollowInv' /\ OnTheMap
<1>1. Guided
  BY DEF Guided, Exists, FollowInv, TypeOK, TableTypeOK
<1>2. OnTheMap
  BY DEF OnTheMap, Moves
<1> QED
  BY <1>1, <1>2, StepFollows

\* One order moves on under a new version.
LEMMA VersionedMove ==
  ASSUME MapInUse, FollowInv, TypeOK', NEW o \in Order, Exists(o), NEW s,
         s = status[o] \/ canTransition(status[o], s), s # "NONE",
         status[o] = "DELIVERED" => "createReturnRequest" \notin Ops,
         status' = [status EXCEPT ![o] = s],
         version' = [version EXCEPT ![o] = @ + 1],
         UNCHANGED request,
         \A g \in Handler : job'[g] = job[g] \/ Follows(g)'
  PROVE  FollowInv' /\ OnTheMap
<1>1. /\ status \in [Order -> OrderStatus \cup {"NONE"}]
      /\ version \in [Order -> Nat]
  BY DEF FollowInv, TypeOK, TableTypeOK
<1>2. /\ status'[o] = s /\ version'[o] = version[o] + 1
      /\ \A p \in Order \ {o} : /\ status'[p] = status[p]
                               /\ version'[p] = version[p]
  BY <1>1
<1>3. Guided
  <2> SUFFICES ASSUME NEW p \in Order
               PROVE  /\ Exists(p) => Exists(p)'
                      /\ version[p] <= version'[p]
                      /\ Exists(p) /\ version'[p] = version[p] =>
                           \/ status'[p] = status[p]
                           \/ /\ status[p] = "DELIVERED"
                              /\ "createReturnRequest" \in Ops
                      /\ "createReturnRequest" \in Ops /\ request'[p] = "NONE" =>
                           /\ request[p] = "NONE"
                           /\ status[p] = "DELIVERED"
                              => status'[p] = "DELIVERED"
    BY DEF Guided
  <2>1. version[p] \in Nat
    BY <1>1
  <2>2. CASE p = o
    <3>1. status'[p] # "NONE"
      BY <1>2, <2>2
    <3>2. version[p] <= version'[p] /\ version'[p] # version[p]
      BY <1>2, <2>1, <2>2
    <3>3. "createReturnRequest" \in Ops => status[p] # "DELIVERED"
      BY <2>2
    <3>4. request'[p] = request[p]
      OBVIOUS
    <3>5. Exists(p)'
      BY <3>1, Zenon DEF Exists
    <3>6. ~("createReturnRequest" \in Ops /\ status[p] = "DELIVERED")
      BY <3>3
    <3>7. "createReturnRequest" \in Ops /\ request'[p] = "NONE"
          => request[p] = "NONE" /\ status[p] # "DELIVERED"
      BY <3>4, <3>6
    <3> QED
      BY <3>2, <3>5, <3>7
  <2>3. CASE p # o
    <3>1. status'[p] = status[p] /\ version'[p] = version[p]
      BY <1>2, <2>3
    <3>2. version[p] <= version'[p]
      BY <2>1, <3>1
    <3>3. request'[p] = request[p]
      OBVIOUS
    <3>4. Exists(p) => Exists(p)'
      BY <3>1, Zenon DEF Exists
    <3>5. "createReturnRequest" \in Ops /\ request'[p] = "NONE"
          => /\ request[p] = "NONE"
             /\ status[p] = "DELIVERED" => status'[p] = "DELIVERED"
      BY <3>1, <3>3
    <3> QED
      BY <3>1, <3>2, <3>4, <3>5
  <2> QED
    BY <2>2, <2>3
<1>4. OnTheMap
  BY <1>2 DEF OnTheMap, Moves, Exists
<1> QED
  BY <1>3, <1>4, StepFollows

LEMMA ReadsFollow ==
  ASSUME MapInUse, FollowInv, TypeOK', NEW h \in Handler, NEW o \in Order,
         \/ StartUpdateStatus(h, o) \/ StartConfirmRemaining(h, o)
         \/ StartCreateReturn(h, o) \/ StartAutoComplete(h, o)
  PROVE  FollowInv' /\ OnTheMap
<1>1. UNCHANGED <<status, version, request>> /\ Exists(o)
  BY DEF StartUpdateStatus, StartConfirmRemaining, StartCreateReturn,
         StartAutoComplete, DueForCompletion, Arrives, Exists, orderVars,
         returnVars
<1>2. job = [g \in Handler |-> job[g]] /\ version[o] \in Nat
  BY DEF FollowInv, TypeOK, JobTypeOK, TableTypeOK
<1>3. CASE StartUpdateStatus(h, o)
  <2>1. PICK to \in Requestable(status[o]) :
          Begin(h, [Idle EXCEPT !.at = "updateStatus", !.o = o, !.to = to,
                                !.ver = version[o], !.win = window[o]])
    BY <1>3 DEF StartUpdateStatus
  <2>2. /\ job'[h].at = "updateStatus" /\ job'[h].o = o /\ job'[h].to = to
        /\ job'[h].ver = version[o] /\ job'[h].todo = {}
        /\ \A g \in Handler \ {h} : job'[g] = job[g]
    BY <1>2, <2>1 DEF Begin, Idle
  <2>3. Follows(h)'
    BY <1>1, <1>2, <2>2 DEF Follows, Exists
  <2> QED
    BY <1>1, <2>2, <2>3, QuietFollows
<1>4. CASE \/ StartConfirmRemaining(h, o) \/ StartCreateReturn(h, o)
           \/ StartAutoComplete(h, o)
  <2>1. /\ job'[h].o = o /\ job'[h].todo = {}
        /\ \/ job'[h].at = "confirmRemaining"
           \/ /\ job'[h].at = "createReturn" /\ status[o] = "DELIVERED"
              /\ "createReturnRequest" \in Ops
           \/ job'[h].at = "autoCompleteRead" /\ "autoComplete" \in Ops
        /\ \A g \in Handler \ {h} : job'[g] = job[g]
    <3> USE <1>2 DEF Begin, Idle
    <3>1. CASE StartConfirmRemaining(h, o)
      BY <3>1 DEF StartConfirmRemaining
    <3>2. CASE StartCreateReturn(h, o)
      BY <3>2 DEF StartCreateReturn, Arrives
    <3>3. CASE StartAutoComplete(h, o)
      BY <3>3 DEF StartAutoComplete
    <3> QED
      BY <1>4, <3>1, <3>2, <3>3
  <2>2. Follows(h)'
    BY <1>1, <2>1 DEF Follows, Exists
  <2> QED
    BY <1>1, <2>1, <2>2, QuietFollows
<1> QED
  BY <1>3, <1>4

LEMMA CronReadsFollow ==
  ASSUME MapInUse, FollowInv, TypeOK', NEW h \in Handler, AutoCompleteReads(h)
  PROVE  FollowInv' /\ OnTheMap
<1>1. UNCHANGED <<status, version, request>>
  BY DEF AutoCompleteReads, orderVars, returnVars
<1>2. PICK o \in Order : o = job[h].o
  BY DEF AutoCompleteReads, FollowInv, TypeOK, JobTypeOK
<1>3. /\ job[h] \in Job /\ version[o] \in Nat /\ status[o] = "DELIVERED"
      /\ job[h].todo = {} /\ "autoComplete" \in Ops
  BY <1>2 DEF AutoCompleteReads, FollowInv, TypeOK, JobTypeOK, TableTypeOK,
              Follows
<1>4. /\ job'[h] = [job[h] EXCEPT !.at = "autoComplete", !.ver = version[o]]
      /\ \A g \in Handler \ {h} : job'[g] = job[g]
  BY <1>2 DEF AutoCompleteReads, Begin, FollowInv, TypeOK, JobTypeOK
<1>5. /\ job'[h].at = "autoComplete" /\ job'[h].o = o /\ job'[h].todo = {}
      /\ job'[h].ver = version[o]
  BY <1>2, <1>3, <1>4 DEF Job
<1>6. Follows(h)'
  BY <1>1, <1>3, <1>5 DEF Follows, Exists
<1> QED
  BY <1>1, <1>4, <1>6, QuietFollows

LEMMA WritesFollow ==
  ASSUME MapInUse, FollowInv, TypeOK', NEW h \in Handler,
         UpdateStatus(h) \/ AutoComplete(h) \/ CreateReturnRequest(h)
  PROVE  FollowInv' /\ OnTheMap
<1>1. PICK o \in Order : o = job[h].o
  BY DEF UpdateStatus, AutoComplete, CreateReturnRequest, FollowInv, TypeOK,
         JobTypeOK
<1>2. Follows(h) /\ Exists(o)
  BY <1>1 DEF UpdateStatus, AutoComplete, CreateReturnRequest, FollowInv,
              Follows
<1>3. \A g \in Handler : job'[g] = job[g] \/ Follows(g)'
  BY FinishFollows
  DEF UpdateStatus, AutoComplete, CreateReturnRequest, FollowInv
<1>4. CASE UpdateStatus(h)
  <2>1. PICK to : to = job[h].to
    OBVIOUS
  <2>2. to \in Requestable(status[o])
    BY <1>1, <1>2, <1>4, <2>1 DEF UpdateStatus, VersionHolds, Follows, UpToDate
  <2>3. /\ to = status[o] \/ canTransition(status[o], to)
        /\ to \in OrderStatus /\ status[o] # "DELIVERED"
    BY <2>2 DEF Requestable
  <2>4. /\ status' = [status EXCEPT ![o] = to]
        /\ version' = [version EXCEPT ![o] = @ + 1]
        /\ request' = request
    BY <1>1, <1>4, <2>1 DEF UpdateStatus, returnVars
  <2>5. to # "NONE"
    BY <2>3 DEF OrderStatus
  <2> QED
    BY <1>2, <1>3, <2>3, <2>4, <2>5, VersionedMove
<1>5. CASE AutoComplete(h)
  <2>1. status[o] = "DELIVERED" /\ "createReturnRequest" \notin Ops
    BY <1>1, <1>2, <1>5 DEF AutoComplete, VersionHolds, Follows, UpToDate,
                            MapInUse
  <2>2. canTransition("DELIVERED", "COMPLETED")
    BY DEF canTransition, orderTransitionMap, OrderStatus
  <2>3. /\ status' = [status EXCEPT ![o] = "COMPLETED"]
        /\ version' = [version EXCEPT ![o] = @ + 1]
        /\ request' = request
    BY <1>1, <1>5 DEF AutoComplete, returnVars
  <2> QED
    BY <1>2, <1>3, <2>1, <2>2, <2>3, VersionedMove
<1>6. CASE CreateReturnRequest(h)
  <2>1. status[o] = "DELIVERED" /\ "createReturnRequest" \in Ops
    BY <1>1, <1>2, <1>6 DEF CreateReturnRequest, Follows
  <2>2. canTransition("DELIVERED", "RETURN_REQUESTED")
    BY DEF canTransition, orderTransitionMap, OrderStatus
  <2>3. /\ request' = [request EXCEPT ![o] = "RETURN_REQUESTED"]
        /\ status' = [status EXCEPT ![o] = "RETURN_REQUESTED"]
        /\ version' = version
    BY <1>1, <1>6 DEF CreateReturnRequest
  <2>4. /\ status'[o] = "RETURN_REQUESTED" /\ request'[o] = "RETURN_REQUESTED"
        /\ \A p \in Order \ {o} : /\ status'[p] = status[p]
                                 /\ request'[p] = request[p]
    BY <2>3 DEF FollowInv, TypeOK, TableTypeOK
  <2>5. \A p \in Order : version[p] <= version'[p]
    BY <2>3 DEF FollowInv, TypeOK, TableTypeOK
  <2>6. Guided
    BY <2>1, <2>3, <2>4, <2>5 DEF Guided, Exists
  <2>7. OnTheMap
    BY <1>2, <2>1, <2>2, <2>4 DEF OnTheMap, Moves, Exists
  <2> QED
    BY <1>3, <2>6, <2>7, StepFollows
<1> QED
  BY <1>4, <1>5, <1>6

LEMMA CreateFollows ==
  ASSUME MapInUse, FollowInv, TypeOK', NEW o \in Order, Create(o)
  PROVE  FollowInv' /\ OnTheMap
<1>1. /\ status[o] = "NONE" /\ status' = [status EXCEPT ![o] = "PENDING"]
      /\ UNCHANGED <<version, request, job>>
  BY DEF Create, returnVars
<1>2. /\ status'[o] = "PENDING"
      /\ \A p \in Order \ {o} : status'[p] = status[p]
      /\ \A p \in Order : version[p] <= version'[p]
  BY <1>1 DEF FollowInv, TypeOK, TableTypeOK
<1>3. Guided /\ OnTheMap
  BY <1>1, <1>2 DEF Guided, OnTheMap, Moves, Exists
<1> QED
  BY <1>1, <1>3, StepFollows

LEMMA OthersMoveNothing ==
  ASSUME MapInUse, FollowInv, TypeOK',
         \/ \E h \in Handler : ConfirmRemaining(h) \/ Abandon(h)
         \/ \E o \in Order : ReturnWindowCloses(o) \/ OrderAges(o)
         \/ UNCHANGED vars
  PROVE  FollowInv' /\ OnTheMap
<1>1. UNCHANGED <<status, version, request>>
  BY DEF ConfirmRemaining, Abandon, ReturnWindowCloses, OrderAges, vars,
         orderVars, returnVars
<1>2. (\E h \in Handler : Finish(h)) \/ UNCHANGED job
  BY DEF ConfirmRemaining, Abandon, ReturnWindowCloses, OrderAges, vars
<1> QED
  BY <1>1, <1>2, FinishFollows, QuietFollows DEF FollowInv

\* Operations that are not in use, and handlers that are in none of them.
LEMMA OffTheMap ==
  ASSUME MapInUse, FollowInv
  PROVE  /\ \A o \in Order :
              /\ ~ CourierDelivered(o) /\ ~ RejectReturn(o)
              /\ \A h \in Handler :
                   /\ ~ StartCancelMyOrder(h, o) /\ ~ StartConfirmDelivery(h, o)
                   /\ ~ StartMarkItemAsCut(h, o) /\ ~ StartUpdateOrder(h, o)
                   /\ ~ StartWebhook(h, o) /\ ~ StartConfirmArrival(h, o)
                   /\ ~ StartRefund(h, o) /\ ~ StartTelegramRefund(h, o)
                   /\ ~ StartTelegramReject(h, o)
         /\ \A h \in Handler :
              /\ ~ CancelMyOrder(h) /\ ~ RequestCancel(h) /\ ~ ConfirmSold(h)
              /\ ~ ConfirmAllocation(h) /\ ~ ConfirmOrder(h)
              /\ ~ MarkItemAsCut(h) /\ ~ UpdateOrder(h) /\ ~ WebhookMarks(h)
              /\ ~ WebhookReads(h) /\ ~ WebhookPays(h) /\ ~ ConfirmArrival(h)
              /\ ~ StartExpireReservations(h) /\ ~ ExpireReservations(h)
              /\ ~ RefundReadsOrder(h) /\ ~ TelegramRefundReadsRequest(h)
              /\ ~ Refund(h) /\ ~ TelegramReject(h)
<1>1. \A o \in Order :
        /\ ~ CourierDelivered(o) /\ ~ RejectReturn(o)
        /\ \A h \in Handler :
             /\ ~ StartCancelMyOrder(h, o) /\ ~ StartConfirmDelivery(h, o)
             /\ ~ StartMarkItemAsCut(h, o) /\ ~ StartUpdateOrder(h, o)
             /\ ~ StartWebhook(h, o) /\ ~ StartConfirmArrival(h, o)
             /\ ~ StartRefund(h, o) /\ ~ StartTelegramRefund(h, o)
             /\ ~ StartTelegramReject(h, o)
  BY DEF MapInUse, Arrives, CourierDelivered, RejectReturn,
         StartCancelMyOrder, StartConfirmDelivery, StartMarkItemAsCut,
         StartUpdateOrder, StartWebhook, StartConfirmArrival, StartRefund,
         StartTelegramRefund, StartTelegramReject
<1>2. ASSUME NEW h \in Handler
      PROVE  /\ ~ CancelMyOrder(h) /\ ~ RequestCancel(h) /\ ~ ConfirmSold(h)
             /\ ~ ConfirmAllocation(h) /\ ~ ConfirmOrder(h)
             /\ ~ MarkItemAsCut(h) /\ ~ UpdateOrder(h) /\ ~ WebhookMarks(h)
             /\ ~ WebhookReads(h) /\ ~ WebhookPays(h) /\ ~ ConfirmArrival(h)
             /\ ~ StartExpireReservations(h) /\ ~ ExpireReservations(h)
             /\ ~ RefundReadsOrder(h) /\ ~ TelegramRefundReadsRequest(h)
             /\ ~ Refund(h) /\ ~ TelegramReject(h)
  <2>1. job[h].at \in {"idle", "updateStatus", "confirmRemaining",
                       "createReturn", "autoCompleteRead", "autoComplete"}
        /\ job[h].todo = {}
    BY DEF FollowInv, Follows
  <2>2. ~ StartExpireReservations(h)
    BY DEF MapInUse, StartExpireReservations
  <2> QED
    BY <2>1, <2>2
    DEF CancelMyOrder, RequestCancel, ConfirmSold, ConfirmAllocation,
        ConfirmOrder, MarkItemAsCut, UpdateOrder, WebhookMarks, WebhookReads,
        WebhookPays, ConfirmArrival, ExpireReservations, RefundReadsOrder,
        TelegramRefundReadsRequest, Refund, TelegramReject
<1> QED
  BY <1>1, <1>2

\* FollowInv is inductive.
LEMMA NextFollowInv ==
  ASSUME MapInUse, FollowInv, [Next]_vars
  PROVE  FollowInv' /\ OnTheMap
<1>1. TypeOK'
  BY NextType DEF FollowInv
<1>2. CASE OrderNext
  BY <1>1, <1>2, OffTheMap, ReadsFollow, WritesFollow, CreateFollows,
     OthersMoveNothing
  DEF OrderNext
<1>3. CASE ReturnNext
  BY <1>1, <1>3, OffTheMap, ReadsFollow, CronReadsFollow, WritesFollow
  DEF ReturnNext
<1>4. CASE ShopNext
  BY <1>4, OffTheMap DEF ShopNext
<1>5. CASE UNCHANGED vars
  BY <1>1, <1>5, OthersMoveNothing
<1> QED
  BY <1>2, <1>3, <1>4, <1>5 DEF Next

LEMMA InitFollowInv == Init => FollowInv
BY InitTypeOK DEF Init, FollowInv, Follows, Idle

\* However many status updates race on an order, each change it sees is one
\* the transition map allows from the status it has at that moment; the cron
\* that completes orders keeps to the map too, and so do return requests where
\* that cron is not in use.
THEOREM StatusKeepsToTheMap ==
  ASSUME MapInUse
  PROVE  Spec => StatusFollowsMap
<1>1. FollowInv /\ [Next]_vars =>
        [\A o \in Order :
           Moves(o) => \/ status[o] = "NONE" /\ status'[o] = "PENDING"
                       \/ Exists(o) /\ canTransition(status[o], status'[o])]_vars
  BY NextFollowInv DEF OnTheMap
<1> QED
  BY InitFollowInv, NextFollowInv, <1>1, PTL DEF Spec, StatusFollowsMap
=============================================================================
