---------------------------- MODULE StockProofs ----------------------------
(***************************************************************************)
(* The safety of ready-made stock: while every operation in use checks the *)
(* version of the order it writes (DisciplinedOps), no carpet is sold to   *)
(* two orders and none is lost to the shop, for every number of orders,    *)
(* items and handlers.                                                     *)
(*                                                                         *)
(* The three properties of the shelf are not inductive: a handler could    *)
(* write what it decided on an outdated read.  WritesAreSound excludes     *)
(* that, and StockInv is inductive.                                        *)
(***************************************************************************)
EXTENDS ShopProofs

ShelfOK == NoDoubleAllocation /\ OffShelfIffKept /\ SoldIffHandedOver

StockInv == TypeOK /\ WritesAreSound /\ ShelfOK

\* What a step may do to the orders without surprising a handler that has
\* read one: a status moves under a new version, or after the hand-over.
Tame ==
  \A p \in Order :
    /\ Exists(p) => Exists(p)'
    /\ version[p] <= version'[p]
    /\ status[p] \in After => status'[p] \in After
    /\ status[p] = "CANCELLED" => status'[p] = "CANCELLED"
    /\ Exists(p) /\ version'[p] = version[p] =>
         /\ refunds'[p] = refunds[p]
         /\ status'[p] = status[p] \/ {status[p], status'[p]} \subseteq After

\* What a step may do to the shelf: nothing, or one order's checkout,
\* hand-over, cancellation or refund.
AsBefore(p) == (Keeps(p)' <=> Keeps(p)) /\ links'[p] = links[p]

Takes(o, S) ==
  /\ ~ Keeps(o) /\ Keeps(o)' /\ links'[o] = S
  /\ \A p \in Order \ {o} : AsBefore(p)
  /\ \A i \in S : i \in Item /\ item[i] = "ACTIVE"
  /\ \A i \in Item : item'[i] = IF i \in S THEN "RESERVED" ELSE item[i]

Sells(o) ==
  /\ Keeps(o)
  /\ \A p \in Order : AsBefore(p)
  /\ \A i \in links[o] : item[i] = "RESERVED"
  /\ \A i \in Item : item'[i] = IF i \in links[o] THEN "SOLD" ELSE item[i]

PutsBack(o) ==
  /\ Keeps(o) /\ ~ Keeps(o)'
  /\ \A p \in Order \ {o} : AsBefore(p)
  /\ \A i \in Item : item'[i] = IF i \in links[o] THEN "ACTIVE" ELSE item[i]

Moved ==
  \/ item' = item /\ \A p \in Order : AsBefore(p)
  \/ \E o \in Order : Sells(o) \/ PutsBack(o) \/ \E S : Takes(o, S)

----------------------------------------------------------------------------
(* The handlers *)

\* The empty database.
LEMMA InitStockInv == Init => StockInv
<1> SUFFICES ASSUME Init PROVE StockInv
  OBVIOUS
<1>1. TypeOK
  BY InitTypeOK
<1>2. WritesAreSound
  BY DEF Init, WritesAreSound, JobFits, ReturnFits, Idle, DisciplinedStages
<1>3. \A o \in Order : ~ Keeps(o)
  BY DEF Init, Keeps
<1>4. ShelfOK
  BY <1>3 DEF ShelfOK, NoDoubleAllocation, OffShelfIffKept,
              SoldIffHandedOver, Init, StockInit
<1> QED
  BY <1>1, <1>2, <1>4 DEF StockInv

\* A handler that is not part of a tame step still fits its order.
LEMMA OthersFit ==
  ASSUME TypeOK, TypeOK', Tame, NEW g \in Handler, JobFits(g),
         job'[g] = job[g]
  PROVE  JobFits(g)'
<1> DEFINE p == job[g].o
<1>1. CASE job[g].at = "idle"
  BY <1>1 DEF JobFits
<1>2. CASE job[g].at # "idle"
  <2>1. p \in Order
    BY <1>2 DEF JobFits, DisciplinedStages, TypeOK, JobTypeOK
  <2>2. version[p] \in Nat /\ version'[p] \in Nat /\ job[g].ver \in Nat
    BY <2>1 DEF TypeOK, JobTypeOK, TableTypeOK, Job
  <2>3. /\ Exists(p) /\ Exists(p)'
        /\ version[p] <= version'[p]
        /\ status[p] \in After => status'[p] \in After
    BY <1>2, <2>1 DEF Tame, JobFits
  <2>4. job[g].at = "updateStatus" /\ UpToDate(g)' => StatusJobFits(g)'
    <3> SUFFICES ASSUME job[g].at = "updateStatus", version'[p] = job[g].ver
                 PROVE  StatusJobFits(g)'
      BY DEF UpToDate
    <3>1. version[p] = job[g].ver
      BY <2>2, <2>3 DEF JobFits
    <3>2. status'[p] = status[p] \/ {status[p], status'[p]} \subseteq After
      BY <2>1, <2>3, <3>1 DEF Tame
    <3> QED
      BY <3>1, <3>2 DEF JobFits, UpToDate, StatusJobFits, After, Before
  <2>5. /\ job[g].at \in {"refund", "tgRefund"} /\ UpToDate(g)'
        /\ ~ job[g].flag
        => refunds'[p] = 0
    <3> SUFFICES ASSUME job[g].at \in {"refund", "tgRefund"},
                        version'[p] = job[g].ver, ~ job[g].flag
                 PROVE  refunds'[p] = 0
      BY DEF UpToDate
    <3>1. version[p] = job[g].ver
      BY <2>2, <2>3 DEF JobFits
    <3> QED
      BY <2>1, <2>3, <3>1 DEF Tame, JobFits, UpToDate
  <2> QED
    BY <1>2, <2>2, <2>3, <2>4, <2>5 DEF JobFits
<1> QED
  BY <1>1, <1>2

\* Putting a step together: what happens to orders, handlers and the shelf.
LEMMA StepKeeps ==
  ASSUME StockInv, TypeOK', Tame, Moved, ShelfOK',
         \A g \in Handler : job'[g] = job[g] \/ JobFits(g)',
         \A o \in Order : ReturnFits(o)'
  PROVE  StockInv' /\ Tame /\ Moved
BY OthersFit DEF StockInv, WritesAreSound

\* A handler that has finished fits any order.
LEMMA FinishFits ==
  ASSUME TypeOK, NEW h \in Handler, Finish(h)
  PROVE  \A g \in Handler : job'[g] = job[g] \/ JobFits(g)'
BY DEF TypeOK, JobTypeOK, Finish, JobFits, Idle, DisciplinedStages

LEMMA BeginFits ==
  ASSUME TypeOK, NEW h \in Handler, NEW j, Begin(h, j)
  PROVE  job'[h] = j /\ \A g \in Handler \ {h} : job'[g] = job[g]
BY DEF TypeOK, JobTypeOK, Begin

\* The shelf stays in order while no item changes and orders move on one side
\* of the hand-over only.
LEMMA ShelfFrame ==
  ASSUME ShelfOK, item' = item, links' = links, refunds' = refunds,
         \A p \in Order : \/ status'[p] = status[p]
                          \/ {status[p], status'[p]} \subseteq Before
                          \/ {status[p], status'[p]} \subseteq After
  PROVE  ShelfOK' /\ Moved
<1>1. \A p \in Order : /\ Keeps(p)' <=> Keeps(p)
                       /\ status'[p] \in After <=> status[p] \in After
  BY DEF Keeps, Before, After
<1> QED
  BY <1>1
  DEF ShelfOK, NoDoubleAllocation, OffShelfIffKept, SoldIffHandedOver,
      Moved, AsBefore

\* Reads leave orders and shelf as they are.
LEMMA ReadKeeps ==
  ASSUME StockInv, TypeOK', UNCHANGED <<stockVars, orderVars, returnVars>>,
         \A g \in Handler : job'[g] = job[g] \/ JobFits(g)'
  PROVE  StockInv' /\ Tame /\ Moved
<1>1. UNCHANGED <<item, links, status, version, returned, request, refunds>>
  BY DEF stockVars, orderVars, returnVars
<1>2. Tame
  BY <1>1 DEF Tame, Exists, StockInv, TypeOK, TableTypeOK
<1>3. ShelfOK' /\ Moved
  BY <1>1, ShelfFrame DEF StockInv
<1>4. \A o \in Order : ReturnFits(o)'
  BY <1>1 DEF StockInv, WritesAreSound, ReturnFits
<1> QED
  BY <1>2, <1>3, <1>4, StepKeeps

\* Before the hand-over nothing is refunded, and the order has its carpets.
LEMMA NotYetRefunded ==
  ASSUME StockInv, NEW o \in Order, status[o] \notin After
  PROVE  /\ refunds[o] = 0 /\ request[o] = "NONE"
         /\ status[o] \in Before => Keeps(o)
<1>1. refunds[o] \in Nat
  BY DEF StockInv, TypeOK, TableTypeOK
<1>2. ReturnFits(o)
  BY DEF StockInv, WritesAreSound
<1>3. refunds[o] = 0 /\ request[o] = "NONE"
  BY <1>1, <1>2 DEF ReturnFits
<1> QED
  BY <1>3 DEF Keeps, Before

----------------------------------------------------------------------------
(* Checkout *)

LEMMA CreateKeeps ==
  ASSUME StockInv, TypeOK', NEW o \in Order, Create(o)
  PROVE  StockInv' /\ Tame /\ Moved
<1> USE DEF StockInv
<1>1. PICK S : /\ S \subseteq Active(item)
               /\ item' = SetStatus(item, S, "RESERVED")
               /\ links' = [links EXCEPT ![o] = S]
  BY DEF Create, Picks
<1>2. /\ status[o] = "NONE" /\ status' = [status EXCEPT ![o] = "PENDING"]
      /\ UNCHANGED <<version, returned, request, refunds, job>>
  BY DEF Create, returnVars
<1>3. refunds[o] = 0 /\ request[o] = "NONE"
  BY <1>2, NotYetRefunded DEF After
<1>4. /\ ~ Keeps(o) /\ Keeps(o)' /\ status'[o] \notin After
      /\ \A p \in Order \ {o} : /\ Keeps(p)' <=> Keeps(p)
                              /\ status'[p] = status[p]
                              /\ links'[p] = links[p]
      /\ links'[o] = S
  BY <1>1, <1>2, <1>3
  DEF Keeps, After, TypeOK, TableTypeOK, StockTypeOK
<1>5. /\ \A i \in S : i \in Item /\ item[i] = "ACTIVE" /\ item'[i] = "RESERVED"
      /\ \A i \in Item \ S : item'[i] = item[i]
  BY <1>1 DEF Active, SetStatus
<1>6. \A p \in Order \ {o} : Keeps(p) => links[p] \cap S = {}
  BY <1>5 DEF ShelfOK, OffShelfIffKept
<1>7. NoDoubleAllocation'
  BY <1>4, <1>6 DEF ShelfOK, NoDoubleAllocation
<1>8. OffShelfIffKept'
  <2> SUFFICES ASSUME NEW i \in Item
               PROVE  item'[i] # "ACTIVE" <=>
                        \E p \in Order : Keeps(p)' /\ i \in links'[p]
    BY DEF OffShelfIffKept
  <2>1. CASE i \in S
    BY <2>1, <1>4, <1>5
  <2>2. CASE i \notin S
    BY <2>2, <1>4, <1>5 DEF ShelfOK, OffShelfIffKept
  <2> QED
    BY <2>1, <2>2
<1>9. SoldIffHandedOver'
  <2> SUFFICES ASSUME NEW p \in Order, Keeps(p)', NEW i \in links'[p]
               PROVE  item'[i] = "SOLD" <=> status'[p] \in After
    BY DEF SoldIffHandedOver
  <2>1. CASE p = o
    BY <2>1, <1>4, <1>5
  <2>2. CASE p # o
    <3>1. i \in Item \ S
      BY <2>2, <1>4, <1>6 DEF TypeOK, StockTypeOK
    <3> QED
      BY <2>2, <3>1, <1>4, <1>5 DEF ShelfOK, SoldIffHandedOver
  <2> QED
    BY <2>1, <2>2
<1>10. Tame
  BY <1>2 DEF Tame, Exists, After, TypeOK, TableTypeOK
<1>11. \A p \in Order : ReturnFits(p)'
  BY <1>2, <1>3 DEF WritesAreSound, ReturnFits, TypeOK, TableTypeOK
<1>12. Takes(o, S)
  BY <1>4, <1>5 DEF Takes, AsBefore
<1> QED
  BY <1>2, <1>7, <1>8, <1>9, <1>10, <1>11, <1>12, StepKeeps DEF ShelfOK, Moved

----------------------------------------------------------------------------
(* updateStatus *)

LEMMA StartUpdateStatusKeeps ==
  ASSUME StockInv, TypeOK', NEW h \in Handler, NEW o \in Order,
         StartUpdateStatus(h, o)
  PROVE  StockInv' /\ Tame /\ Moved
<1>1. PICK to \in Requestable(status[o]) :
         Begin(h, [Idle EXCEPT !.at = "updateStatus", !.o = o, !.to = to,
                               !.ver = version[o], !.win = window[o]])
  BY DEF StartUpdateStatus
<1>2. /\ UNCHANGED <<stockVars, orderVars, returnVars>>
      /\ UNCHANGED <<status, version>>
      /\ Exists(o)
  BY DEF StartUpdateStatus, orderVars, Arrives
<1>3. /\ job'[h] = [Idle EXCEPT !.at = "updateStatus", !.o = o, !.to = to,
                              !.ver = version[o], !.win = window[o]]
      /\ \A g \in Handler \ {h} : job'[g] = job[g]
  BY <1>1, BeginFits DEF StockInv
<1>4. /\ job'[h].at = "updateStatus" /\ job'[h].o = o /\ job'[h].to = to
      /\ job'[h].ver = version[o] /\ job'[h].todo = {}
  BY <1>3 DEF Idle
<1>5. version[o] \in Nat
  BY DEF StockInv, TypeOK, TableTypeOK
<1>6. \/ status[o] = "ON_WAY" /\ to = "DELIVERED"
      \/ status[o] \in Before /\ to \in Before \cup {"CANCELLED"}
      \/ status[o] \in After /\ to \in After \ {"DELIVERED"}
  <2>1. status[o] \in OrderStatus /\ to \in OrderStatus
    BY <1>2 DEF Exists, StockInv, TypeOK, TableTypeOK, Requestable
  <2> QED
    BY <2>1 DEF Requestable, canTransition, orderTransitionMap, OrderStatus,
                Before, After
<1>7. JobFits(h)'
  BY <1>2, <1>4, <1>5, <1>6
  DEF JobFits, DisciplinedStages, Exists, StatusJobFits, UpToDate
<1> QED
  BY <1>2, <1>3, <1>7, ReadKeeps

\* The hand-over: what the order reserved is sold.
LEMMA SellKeeps ==
  ASSUME StockInv, NEW o \in Order, status[o] = "ON_WAY",
         status' = [status EXCEPT ![o] = "DELIVERED"],
         item' = MarkInventorySold(item, links[o]),
         UNCHANGED <<links, refunds>>
  PROVE  ShelfOK' /\ Moved
<1> USE DEF StockInv
<1>1. \A p \in Order :
        /\ Keeps(p)' <=> Keeps(p)
        /\ p # o => status'[p] = status[p]
        /\ p = o => status'[p] \in After /\ status[p] \notin After
  BY DEF Keeps, After, TypeOK, TableTypeOK
<1>2. Keeps(o) => \A i \in links[o] : i \in Item /\ item[i] = "RESERVED"
  <2> SUFFICES ASSUME Keeps(o), NEW i \in links[o]
               PROVE  i \in Item /\ item[i] = "RESERVED"
    OBVIOUS
  <2>1. i \in Item /\ item[i] \in InventoryStatus
    BY DEF TypeOK, StockTypeOK
  <2>2. item[i] # "ACTIVE" /\ item[i] # "SOLD"
    BY <2>1, <1>1 DEF ShelfOK, OffShelfIffKept, SoldIffHandedOver
  <2> QED
    BY <2>1, <2>2 DEF InventoryStatus
<1>3. Keeps(o)
  BY NotYetRefunded DEF Before, After
<1>4. \A i \in Item : item'[i] = IF i \in links[o] THEN "SOLD" ELSE item[i]
  BY <1>2, <1>3 DEF MarkInventorySold, SetStatus
<1>5. NoDoubleAllocation'
  BY <1>1 DEF ShelfOK, NoDoubleAllocation
<1>6. OffShelfIffKept'
  <2> SUFFICES ASSUME NEW i \in Item
               PROVE  item'[i] # "ACTIVE" <=>
                        \E p \in Order : Keeps(p)' /\ i \in links'[p]
    BY DEF OffShelfIffKept
  <2> QED
    BY <1>1, <1>3, <1>4 DEF ShelfOK, OffShelfIffKept
<1>7. SoldIffHandedOver'
  <2> SUFFICES ASSUME NEW p \in Order, Keeps(p), NEW i \in links[p]
               PROVE  item'[i] = "SOLD" <=> status'[p] \in After
    BY <1>1 DEF SoldIffHandedOver
  <2>1. i \in Item
    BY DEF TypeOK, StockTypeOK
  <2>2. CASE p = o
    BY <2>1, <2>2, <1>1, <1>4
  <2>3. CASE p # o
    <3>1. i \notin links[o]
      BY <2>3, <1>3 DEF ShelfOK, NoDoubleAllocation
    <3> QED
      BY <2>1, <2>3, <3>1, <1>1, <1>4 DEF ShelfOK, SoldIffHandedOver
  <2> QED
    BY <2>2, <2>3
<1>8. Sells(o)
  BY <1>1, <1>2, <1>3, <1>4 DEF Sells, AsBefore
<1> QED
  BY <1>5, <1>6, <1>7, <1>8 DEF ShelfOK, Moved

\* An order stops keeping its carpets, and they are back on the shelf.
LEMMA ReturnToShelf ==
  ASSUME StockInv, NEW o \in Order, Keeps(o), ~ Keeps(o)',
         \A p \in Order \ {o} : status'[p] = status[p] /\ refunds'[p] = refunds[p],
         \A i \in Item : item'[i] = IF i \in links[o] THEN "ACTIVE" ELSE item[i],
         UNCHANGED links
  PROVE  ShelfOK' /\ Moved
<1> USE DEF StockInv
<1>1. \A p \in Order \ {o} : Keeps(p)' <=> Keeps(p)
  BY DEF Keeps
<1>2. \A p \in Order \ {o} : Keeps(p) => links[p] \cap links[o] = {}
  BY DEF ShelfOK, NoDoubleAllocation
<1>3. NoDoubleAllocation'
  BY <1>1 DEF ShelfOK, NoDoubleAllocation
<1>4. OffShelfIffKept'
  <2> SUFFICES ASSUME NEW i \in Item
               PROVE  item'[i] # "ACTIVE" <=>
                        \E p \in Order : Keeps(p)' /\ i \in links'[p]
    BY DEF OffShelfIffKept
  <2>1. CASE i \in links[o]
    BY <2>1, <1>1, <1>2
  <2>2. CASE i \notin links[o]
    BY <2>2, <1>1 DEF ShelfOK, OffShelfIffKept
  <2> QED
    BY <2>1, <2>2
<1>5. SoldIffHandedOver'
  <2> SUFFICES ASSUME NEW p \in Order \ {o}, Keeps(p), NEW i \in links[p]
               PROVE  item'[i] = "SOLD" <=> status'[p] \in After
    BY <1>1 DEF SoldIffHandedOver
  <2>1. i \in Item /\ i \notin links[o]
    BY <1>2 DEF TypeOK, StockTypeOK
  <2> QED
    BY <2>1 DEF ShelfOK, SoldIffHandedOver
<1>6. PutsBack(o)
  BY <1>1 DEF PutsBack, AsBefore
<1> QED
  BY <1>3, <1>4, <1>5, <1>6 DEF ShelfOK, Moved

LEMMA UpdateStatusKeeps ==
  ASSUME StockInv, TypeOK', NEW h \in Handler, UpdateStatus(h)
  PROVE  StockInv' /\ Tame /\ Moved
<1> USE DEF StockInv
<1>0. PICK o \in Order, to \in OrderStatus \cup {"NONE"} :
        o = job[h].o /\ to = job[h].to
  BY DEF UpdateStatus, TypeOK, JobTypeOK, Job
<1> USE <1>0
<1>1. /\ o \in Order /\ version[o] \in Nat /\ Exists(o) /\ StatusJobFits(h)
      /\ status[o] # "NONE"
  BY DEF UpdateStatus, TypeOK, JobTypeOK, TableTypeOK, WritesAreSound, JobFits,
         UpToDate, VersionHolds, Exists
<1>2. /\ status' = [status EXCEPT ![o] = to]
      /\ version' = [version EXCEPT ![o] = @ + 1]
      /\ UNCHANGED <<returned, request, refunds>>
      /\ Finish(h)
  BY DEF UpdateStatus, returnVars
<1>3. Tame
  BY <1>1, <1>2
  DEF Tame, Exists, StatusJobFits, Before, After, TypeOK, TableTypeOK
<1>4. \A p \in Order : ReturnFits(p)'
  BY <1>1, <1>2 DEF WritesAreSound, ReturnFits, StatusJobFits, Before, After,
                    TypeOK, TableTypeOK
<1>5. links' = links
  BY DEF UpdateStatus, SendToCutting, CutAndHandOver, GiveBack, stockVars
<1>6. ShelfOK' /\ Moved
  <2>1. CASE to = "DELIVERED"
    <3>1. CutAndHandOver(o, to)
      BY <2>1 DEF UpdateStatus
    <3>2. item' = MarkInventorySold(item, links[o])
      BY <2>1, <3>1 DEF CutAndHandOver
    <3>3. status[o] = "ON_WAY"
      BY <2>1, <1>1 DEF StatusJobFits, Before, After
    <3> QED
      BY <2>1, <3>2, <3>3, <1>1, <1>2, <1>5, SellKeeps
  <2>2. CASE to = "CANCELLED"
    <3>1. GiveBack(o)
      BY <2>2 DEF UpdateStatus
    <3>2. status[o] \in Before
      BY <2>2, <1>1 DEF StatusJobFits, After, Before
    <3>3. Keeps(o)
      BY <3>2, <1>1, NotYetRefunded DEF Before, After
    <3>4. ~ Keeps(o)' /\ \A p \in Order \ {o} :
                           status'[p] = status[p] /\ refunds'[p] = refunds[p]
      BY <2>2, <1>1, <1>2 DEF Keeps, TypeOK, TableTypeOK
    <3>5. \A i \in Item :
            item'[i] = IF i \in links[o] THEN "ACTIVE" ELSE item[i]
      BY <3>1 DEF GiveBack, ReleaseInventory, SetStatus, TypeOK, StockTypeOK,
                  InventoryStatus
    <3> QED
      BY <3>3, <3>4, <3>5, <1>1, <1>5, ReturnToShelf
  <2>3. CASE to \notin {"DELIVERED", "CANCELLED"}
    <3>1. item' = item
      BY <2>3 DEF UpdateStatus, SendToCutting, CutAndHandOver, stockVars
    <3>2. \A p \in Order : \/ status'[p] = status[p]
                           \/ {status[p], status'[p]} \subseteq Before
                           \/ {status[p], status'[p]} \subseteq After
      BY <2>3, <1>1, <1>2 DEF StatusJobFits, TypeOK, TableTypeOK
    <3> QED
      BY <3>1, <3>2, <1>2, <1>5, ShelfFrame
  <2> QED
    BY <2>1, <2>2, <2>3
<1> QED
  BY <1>2, <1>3, <1>4, <1>6, FinishFits, StepKeeps

----------------------------------------------------------------------------
(* Returns *)

\* All reads of the return handlers and the cron.
LEMMA ReturnReadsKeep ==
  ASSUME StockInv, TypeOK', NEW h \in Handler, NEW o \in Order,
         \/ StartCreateReturn(h, o) \/ StartRefund(h, o)
         \/ StartTelegramRefund(h, o) \/ StartTelegramReject(h, o)
         \/ StartAutoComplete(h, o) \/ StartConfirmRemaining(h, o)
  PROVE  StockInv' /\ Tame /\ Moved
<1>1. UNCHANGED <<stockVars, orderVars, returnVars, status, version>>
  BY DEF StartCreateReturn, StartRefund, StartTelegramRefund,
         StartTelegramReject, StartAutoComplete, StartConfirmRemaining,
         orderVars
<1>2. Exists(o) /\ version[o] \in Nat /\ ReturnFits(o)
  BY DEF StartCreateReturn, StartRefund, StartTelegramRefund,
         StartTelegramReject, StartAutoComplete, StartConfirmRemaining,
         DueForCompletion, Arrives, Exists, StockInv, TypeOK, TableTypeOK,
         WritesAreSound
<1>3. /\ job'[h].o = o /\ job'[h].todo = {}
      /\ \/ job'[h].at = "confirmRemaining"
         \/ job'[h].at = "tgRefundRead" /\ job'[h].ver = version[o]
         \/ /\ job'[h].at \in {"createReturn", "refundRead", "tgReject",
                               "autoCompleteRead"}
            /\ status[o] \in After
      /\ \A g \in Handler \ {h} : job'[g] = job[g]
  <2>0. job = [g \in Handler |-> job[g]]
    BY DEF StockInv, TypeOK, JobTypeOK
  <2> USE <1>2, <2>0 DEF Begin, Idle, ReturnFits, After
  <2>1. CASE StartCreateReturn(h, o)
    BY <2>1 DEF StartCreateReturn
  <2>2. CASE StartRefund(h, o)
    BY <2>2 DEF StartRefund
  <2>3. CASE StartTelegramRefund(h, o)
    BY <2>3 DEF StartTelegramRefund
  <2>4. CASE StartTelegramReject(h, o)
    BY <2>4 DEF StartTelegramReject
  <2>5. CASE StartAutoComplete(h, o)
    BY <2>5 DEF StartAutoComplete, DueForCompletion
  <2>6. CASE StartConfirmRemaining(h, o)
    BY <2>6 DEF StartConfirmRemaining
  <2> QED
    BY <2>1, <2>2, <2>3, <2>4, <2>5, <2>6
<1>4. JobFits(h)'
  BY <1>1, <1>2, <1>3 DEF JobFits, DisciplinedStages, Exists
<1> QED
  BY <1>1, <1>3, <1>4, ReadKeeps

\* The second reads, of the refunds and of the cron.
LEMMA LaterReadsKeep ==
  ASSUME StockInv, TypeOK', NEW h \in Handler,
         \/ RefundReadsOrder(h) \/ TelegramRefundReadsRequest(h)
         \/ AutoCompleteReads(h)
  PROVE  StockInv' /\ Tame /\ Moved
<1>1. UNCHANGED <<stockVars, orderVars, returnVars, status, version, refunds>>
  BY DEF RefundReadsOrder, TelegramRefundReadsRequest, AutoCompleteReads,
         orderVars, returnVars
<1>2. PICK o \in Order : o = job[h].o
  BY DEF RefundReadsOrder, TelegramRefundReadsRequest, AutoCompleteReads,
         StockInv, TypeOK, JobTypeOK
<1>3. /\ Exists(o) /\ version[o] \in Nat /\ refunds[o] \in Nat /\ ReturnFits(o)
      /\ JobFits(h) /\ job[h] \in Job
  BY <1>2 DEF RefundReadsOrder, TelegramRefundReadsRequest, AutoCompleteReads,
              StockInv, TypeOK, TableTypeOK, JobTypeOK, WritesAreSound, JobFits
<1>4. /\ job'[h].o = o /\ job'[h].todo = {}
      /\ job'[h].at \in {"refund", "tgRefund", "autoComplete"}
      /\ \/ job'[h].ver = version[o]
         \/ job[h].at = "tgRefundRead" /\ job'[h].ver = job[h].ver
      /\ job'[h].at # "autoComplete" => job'[h].flag = returned[o]
      /\ status[o] \in After
      /\ \A g \in Handler \ {h} : job'[g] = job[g]
  <2>0. /\ job = [g \in Handler |-> job[g]]
        /\ job[h].todo = {}
        /\ job[h].at = "refundRead" => status[o] \in After
    BY <1>2, <1>3 DEF StockInv, TypeOK, JobTypeOK, JobFits
  <2> USE <1>2, <1>3, <2>0 DEF Begin, Job
  <2>1. CASE RefundReadsOrder(h)
    BY <2>1 DEF RefundReadsOrder, ReadItems
  <2>2. CASE TelegramRefundReadsRequest(h)
    BY <2>2 DEF TelegramRefundReadsRequest, ReturnFits
  <2>3. CASE AutoCompleteReads(h)
    BY <2>3 DEF AutoCompleteReads, After
  <2> QED
    BY <2>1, <2>2, <2>3
<1>5. job'[h].ver <= version[o]
  BY <1>2, <1>3, <1>4 DEF JobFits
<1>6. /\ job'[h].at \in {"refund", "tgRefund"} /\ ~ job'[h].flag
      => refunds[o] = 0
  BY <1>3, <1>4 DEF ReturnFits
<1>7. JobFits(h)'
  BY <1>1, <1>3, <1>4, <1>5, <1>6 DEF JobFits, DisciplinedStages, Exists
<1> QED
  BY <1>1, <1>4, <1>7, ReadKeeps

\* An order that was handed over moves on, with or without a new version.
LEMMA AfterKeeps ==
  ASSUME StockInv, TypeOK', NEW o \in Order, status[o] \in After,
         NEW s \in After, status' = [status EXCEPT ![o] = s],
         version' = version \/ version' = [version EXCEPT ![o] = @ + 1],
         \A p \in Order \ {o} : request'[p] = request[p],
         UNCHANGED <<item, links, returned, refunds>>,
         \A g \in Handler : job'[g] = job[g] \/ JobFits(g)'
  PROVE  StockInv' /\ Tame /\ Moved
<1> USE DEF StockInv
<1>1. \A p \in Order :
        status'[p] = status[p] \/ {status[p], status'[p]} \subseteq After
  BY DEF TypeOK, TableTypeOK
<1>2. ShelfOK' /\ Moved
  BY <1>1, ShelfFrame
<1>3. Tame
  <2>1. version \in [Order -> Nat]
    BY DEF TypeOK, TableTypeOK
  <2>2. \A p \in Order : version[p] <= version'[p]
    BY <2>1
  <2> QED
    BY <1>1, <2>2 DEF Tame, Exists, After
<1>4. \A p \in Order : ReturnFits(p)'
  BY <1>1 DEF WritesAreSound, ReturnFits, TypeOK, TableTypeOK
<1> QED
  BY <1>2, <1>3, <1>4, StepKeeps

\* Their writes, except the refund.
LEMMA ReturnWritesKeep ==
  ASSUME StockInv, TypeOK', NEW h \in Handler,
         CreateReturnRequest(h) \/ TelegramReject(h) \/ AutoComplete(h)
  PROVE  StockInv' /\ Tame /\ Moved
<1>1. PICK o \in Order : o = job[h].o
  BY DEF CreateReturnRequest, TelegramReject, AutoComplete,
         StockInv, TypeOK, JobTypeOK
<1>2. status[o] \in After
  BY <1>1 DEF CreateReturnRequest, TelegramReject, AutoComplete, StockInv,
              WritesAreSound, JobFits
<1>3. /\ \E s \in After : status' = [status EXCEPT ![o] = s]
      /\ version' = version \/ version' = [version EXCEPT ![o] = @ + 1]
      /\ UNCHANGED <<item, links, returned, refunds>>
      /\ Finish(h)
  BY <1>1 DEF CreateReturnRequest, TelegramReject, AutoComplete, stockVars,
              returnVars, After
<1>4. \A p \in Order \ {o} : request'[p] = request[p]
  BY <1>1 DEF CreateReturnRequest, TelegramReject, AutoComplete, returnVars,
              StockInv, TypeOK, TableTypeOK
<1>5. \A g \in Handler : job'[g] = job[g] \/ JobFits(g)'
  BY <1>3, FinishFits DEF StockInv
<1> QED
  BY <1>2, <1>3, <1>4, <1>5, AfterKeeps

LEMMA RejectReturnKeeps ==
  ASSUME StockInv, TypeOK', NEW o \in Order, RejectReturn(o)
  PROVE  StockInv' /\ Tame /\ Moved
<1>1. status[o] \in After
  BY DEF RejectReturn, StockInv, WritesAreSound, ReturnFits
<1>2. /\ status' = [status EXCEPT ![o] = "COMPLETED"] /\ "COMPLETED" \in After
      /\ version' = version
      /\ UNCHANGED <<item, links, returned, refunds, job>>
      /\ \A p \in Order \ {o} : request'[p] = request[p]
  BY DEF RejectReturn, stockVars, After, StockInv, TypeOK, TableTypeOK
<1> QED
  BY <1>1, <1>2, AfterKeeps

\* The refund: the order stops keeping its carpets.
LEMMA RefundKeeps ==
  ASSUME StockInv, TypeOK', NEW h \in Handler, Refund(h)
  PROVE  StockInv' /\ Tame /\ Moved
<1> USE DEF StockInv
<1>1. PICK o \in Order : o = job[h].o
  BY DEF Refund, TypeOK, JobTypeOK
<1>2. status[o] \in After /\ refunds[o] = 0 /\ version[o] \in Nat
  BY <1>1 DEF Refund, VersionHolds, WritesAreSound, JobFits, UpToDate, TypeOK,
              TableTypeOK
<1>3. /\ status' = [status EXCEPT ![o] = "REFUNDED"]
      /\ request' = [request EXCEPT ![o] = "RETURN_APPROVED"]
      /\ version' = [version EXCEPT ![o] = @ + 1]
      /\ refunds' = [refunds EXCEPT ![o] = @ + 1]
      /\ returned' = [returned EXCEPT ![o] = TRUE]
      /\ item' = SetStatus(item, links[o], "ACTIVE")
      /\ links' = links
      /\ Finish(h)
  BY <1>1 DEF Refund
<1>4. Keeps(o) /\ ~ Keeps(o)'
  BY <1>2, <1>3 DEF Keeps, After, TypeOK, TableTypeOK
<1>5. \A p \in Order \ {o} : status'[p] = status[p] /\ refunds'[p] = refunds[p]
  BY <1>3 DEF TypeOK, TableTypeOK
<1>6. ShelfOK' /\ Moved
  BY <1>3, <1>4, <1>5, ReturnToShelf DEF SetStatus
<1>7. Tame
  BY <1>2, <1>3 DEF Tame, Exists, After, TypeOK, TableTypeOK
<1>8. \A p \in Order : ReturnFits(p)'
  BY <1>3 DEF WritesAreSound, ReturnFits, After, TypeOK, TableTypeOK
<1> QED
  BY <1>3, <1>6, <1>7, <1>8, FinishFits, StepKeeps

----------------------------------------------------------------------------
(* The rest *)

\* Payments, the passing of days and handlers that end: none of what the shelf
\* depends on changes.
LEMMA OtherStepsKeep ==
  ASSUME StockInv, TypeOK',
         \/ \E h \in Handler : ConfirmRemaining(h) \/ Abandon(h)
         \/ \E o \in Order : ReturnWindowCloses(o) \/ OrderAges(o)
         \/ UNCHANGED vars
  PROVE  StockInv' /\ Tame /\ Moved
<1>1. UNCHANGED <<item, links, status, version, returned, request, refunds>>
  BY DEF ConfirmRemaining, Abandon, ReturnWindowCloses, OrderAges, vars,
         stockVars, orderVars, returnVars
<1>2. (\E h \in Handler : Finish(h)) \/ UNCHANGED job
  BY DEF ConfirmRemaining, Abandon, ReturnWindowCloses, OrderAges, vars
<1>3. \A g \in Handler : job'[g] = job[g] \/ JobFits(g)'
  BY <1>2, FinishFits DEF StockInv
<1>4. Tame
  BY <1>1 DEF Tame, Exists, StockInv, TypeOK, TableTypeOK
<1>5. ShelfOK' /\ Moved
  BY <1>1, ShelfFrame DEF StockInv
<1>6. \A p \in Order : ReturnFits(p)'
  BY <1>1 DEF StockInv, WritesAreSound, ReturnFits
<1> QED
  BY <1>3, <1>4, <1>5, <1>6, StepKeeps

\* Operations that are not in use take no step.
LEMMA OutOfUse ==
  ASSUME Ops \subseteq DisciplinedOps
  PROVE  \A o \in Order :
           /\ ~ CourierDelivered(o)
           /\ \A h \in Handler :
                /\ ~ StartCancelMyOrder(h, o) /\ ~ StartConfirmDelivery(h, o)
                /\ ~ StartMarkItemAsCut(h, o) /\ ~ StartUpdateOrder(h, o)
                /\ ~ StartWebhook(h, o) /\ ~ StartConfirmArrival(h, o)
BY DEF StartCancelMyOrder, StartConfirmDelivery, StartMarkItemAsCut,
       StartUpdateOrder, StartWebhook, StartConfirmArrival, CourierDelivered,
       Arrives, DisciplinedOps

LEMMA HandlersOutOfUse ==
  ASSUME Ops \subseteq DisciplinedOps, StockInv, NEW h \in Handler
  PROVE  /\ ~ CancelMyOrder(h) /\ ~ RequestCancel(h) /\ ~ ConfirmSold(h)
         /\ ~ ConfirmAllocation(h) /\ ~ ConfirmOrder(h) /\ ~ MarkItemAsCut(h)
         /\ ~ UpdateOrder(h) /\ ~ WebhookMarks(h) /\ ~ WebhookReads(h)
         /\ ~ WebhookPays(h) /\ ~ ConfirmArrival(h)
         /\ ~ StartExpireReservations(h) /\ ~ ExpireReservations(h)
<1>1. job[h].at \in DisciplinedStages /\ job[h].todo = {}
  BY DEF StockInv, WritesAreSound, JobFits
<1>2. /\ ~ CancelMyOrder(h) /\ ~ RequestCancel(h) /\ ~ ConfirmSold(h)
      /\ ~ ConfirmAllocation(h) /\ ~ ConfirmOrder(h) /\ ~ MarkItemAsCut(h)
      /\ ~ UpdateOrder(h)
  BY <1>1 DEF CancelMyOrder, RequestCancel, ConfirmSold, ConfirmAllocation,
              ConfirmOrder, MarkItemAsCut, UpdateOrder, DisciplinedStages
<1>3. /\ ~ WebhookMarks(h) /\ ~ WebhookReads(h) /\ ~ WebhookPays(h)
      /\ ~ ConfirmArrival(h) /\ ~ ExpireReservations(h)
  BY <1>1 DEF WebhookMarks, WebhookReads, WebhookPays, ConfirmArrival,
              ExpireReservations, DisciplinedStages
<1>4. ~ StartExpireReservations(h)
  BY DEF StartExpireReservations, DisciplinedOps
<1> QED
  BY <1>2, <1>3, <1>4

\* StockInv is inductive.
LEMMA NextStockInv ==
  ASSUME Ops \subseteq DisciplinedOps, StockInv, [Next]_vars
  PROVE  StockInv' /\ Tame /\ Moved
<1>1. TypeOK'
  BY NextType DEF StockInv
<1>2. CASE OrderNext
  <2>1. ASSUME NEW o \in Order, NEW h \in Handler,
               \/ StartUpdateStatus(h, o) \/ StartCancelMyOrder(h, o)
               \/ StartConfirmDelivery(h, o) \/ StartConfirmRemaining(h, o)
               \/ StartMarkItemAsCut(h, o) \/ StartUpdateOrder(h, o)
        PROVE  StockInv' /\ Tame /\ Moved
    BY <1>1, <2>1, StartUpdateStatusKeeps, ReturnReadsKeep, OutOfUse
  <2>2. ASSUME NEW h \in Handler,
               \/ UpdateStatus(h) \/ CancelMyOrder(h) \/ RequestCancel(h)
               \/ ConfirmSold(h) \/ ConfirmAllocation(h) \/ ConfirmOrder(h)
               \/ ConfirmRemaining(h) \/ MarkItemAsCut(h) \/ UpdateOrder(h)
               \/ Abandon(h)
        PROVE  StockInv' /\ Tame /\ Moved
    BY <1>1, <2>2, UpdateStatusKeeps, OtherStepsKeep, HandlersOutOfUse
  <2>3. ASSUME NEW o \in Order,
               Create(o) \/ ReturnWindowCloses(o) \/ OrderAges(o)
        PROVE  StockInv' /\ Tame /\ Moved
    BY <1>1, <2>3, CreateKeeps, OtherStepsKeep
  <2> QED
    BY <1>2, <2>1, <2>2, <2>3 DEF OrderNext
<1>3. CASE ReturnNext
  <2>1. ASSUME NEW o \in Order, NEW h \in Handler,
               \/ StartCreateReturn(h, o) \/ StartRefund(h, o)
               \/ StartTelegramRefund(h, o) \/ StartTelegramReject(h, o)
               \/ StartAutoComplete(h, o)
        PROVE  StockInv' /\ Tame /\ Moved
    BY <1>1, <2>1, ReturnReadsKeep
  <2>2. ASSUME NEW h \in Handler,
               \/ CreateReturnRequest(h) \/ RefundReadsOrder(h)
               \/ TelegramRefundReadsRequest(h) \/ Refund(h)
               \/ TelegramReject(h) \/ AutoCompleteReads(h) \/ AutoComplete(h)
        PROVE  StockInv' /\ Tame /\ Moved
    BY <1>1, <2>2, LaterReadsKeep, ReturnWritesKeep, RefundKeeps
  <2> QED
    BY <1>1, <1>3, <2>1, <2>2, RejectReturnKeeps DEF ReturnNext
<1>4. CASE ShopNext
  BY <1>4, OutOfUse, HandlersOutOfUse DEF ShopNext
<1>5. CASE UNCHANGED vars
  BY <1>1, <1>5, OtherStepsKeep
<1> QED
  BY <1>2, <1>3, <1>4, <1>5 DEF Next

----------------------------------------------------------------------------
\* While only operations that check versions are in use, no carpet is kept by
\* two orders at once, however many handlers interleave.
THEOREM NoOrderSharesACarpet ==
  ASSUME Ops \subseteq DisciplinedOps
  PROVE  Spec => []NoDoubleAllocation
<1>1. StockInv => NoDoubleAllocation
  BY DEF StockInv, ShelfOK
<1> QED
  BY InitStockInv, NextStockInv, <1>1, PTL DEF Spec

\* Under the same operations the shelf holds exactly the carpets that no order
\* keeps: none is offered twice, and none is lost to the shop.
THEOREM TheShelfIsRight ==
  ASSUME Ops \subseteq DisciplinedOps
  PROVE  Spec => []OffShelfIffKept
<1>1. StockInv => OffShelfIffKept
  BY DEF StockInv, ShelfOK
<1> QED
  BY InitStockInv, NextStockInv, <1>1, PTL DEF Spec

\* And what an order keeps is sold exactly from the hand-over on.
THEOREM SoldAtTheHandOver ==
  ASSUME Ops \subseteq DisciplinedOps
  PROVE  Spec => []SoldIffHandedOver
<1>1. StockInv => SoldIffHandedOver
  BY DEF StockInv, ShelfOK
<1> QED
  BY InitStockInv, NextStockInv, <1>1, PTL DEF Spec

\* Under the same operations a finished order is final: no interleaving brings
\* a cancelled order back, or takes one back that was handed over.
THEOREM FinishedIsFinal ==
  ASSUME Ops \subseteq DisciplinedOps
  PROVE  Spec => FinishedStaysFinished
<1>1. StockInv /\ [Next]_vars =>
        [\A o \in Order :
           /\ status[o] \in After => status'[o] \in After
           /\ status[o] = "CANCELLED" => status'[o] = "CANCELLED"]_vars
  BY NextStockInv DEF Tame
<1> QED
  BY InitStockInv, NextStockInv, <1>1, PTL DEF Spec, FinishedStaysFinished

\* The reason: no handler writes what it decided on an outdated read.
THEOREM HandlersWriteWhatStillHolds ==
  ASSUME Ops \subseteq DisciplinedOps
  PROVE  Spec => []WritesAreSound
<1>1. StockInv => WritesAreSound
  BY DEF StockInv
<1> QED
  BY InitStockInv, NextStockInv, <1>1, PTL DEF Spec

(***************************************************************************)
(* The return window: what the cron may not do while it lasts.             *)
(***************************************************************************)
\* A status that is about to be written was not read from a delivered order, and
\* the window of an order the cron has found due is over, as long as the order
\* is a delivered one.
JobIsTimely(h) ==
  LET o == job[h].o IN
  /\ job[h].at = "updateStatus" /\ UpToDate(h) => status[o] # "DELIVERED"
  /\ job[h].at \in {"autoCompleteRead", "autoComplete"} /\ status[o] = "DELIVERED"
       => window[o].deadline = "past"

DeadlineInv ==
  /\ \A h \in Handler : JobIsTimely(h)
  /\ \A o \in Order : request[o] # "NONE" => status[o] # "DELIVERED"

\* What a step may do to an order: deliver it, under a new version, and not leave
\* the window, or turn it back, before it is over.
Unhurried(o) ==
  /\ status[o] # "DELIVERED" /\ status'[o] = "DELIVERED"
       => status[o] \notin After /\ version'[o] # version[o] /\ request'[o] = request[o]
  /\ status[o] = "DELIVERED" /\ status'[o] = "DELIVERED"
       => /\ window[o].deadline = "past" => window'[o].deadline = "past"
          /\ request'[o] = request[o]
  /\ status[o] = "DELIVERED" /\ status'[o] = "COMPLETED" => window[o].deadline = "past"

Timely == \A o \in Order : Unhurried(o)

\* An order nobody turns to.
LEMMA LeftAlone ==
  ASSUME NEW o \in Order, status'[o] = status[o], window'[o] = window[o],
         request'[o] = request[o]
  PROVE  Unhurried(o)
BY DEF Unhurried

\* Steps that keep every order within its window keep the invariant.
LEMMA DeadlineKept ==
  ASSUME StockInv, DeadlineInv, TypeOK', Tame, Timely,
         \A g \in Handler : job'[g] = job[g] \/ JobIsTimely(g)'
  PROVE  DeadlineInv'
<1>1. ASSUME NEW g \in Handler, job'[g] = job[g]
      PROVE  JobIsTimely(g)'
  <2> DEFINE o == job[g].o
  <2>1. CASE job[g].at \notin {"updateStatus", "autoCompleteRead", "autoComplete"}
    BY <1>1, <2>1 DEF JobIsTimely
  <2>2. CASE job[g].at \in {"updateStatus", "autoCompleteRead", "autoComplete"}
    <3>1. JobFits(g) /\ o \in Order /\ JobIsTimely(g)
      BY <2>2 DEF StockInv, TypeOK, JobTypeOK, WritesAreSound, DeadlineInv
    <3>2. /\ version[o] \in Nat /\ version'[o] \in Nat /\ job[g].ver \in Nat
          /\ version[o] <= version'[o] /\ Unhurried(o)
      BY <3>1 DEF StockInv, TypeOK, TableTypeOK, JobTypeOK, Job, Tame, Timely
    <3>3. job[g].at = "updateStatus" /\ UpToDate(g)' => status'[o] # "DELIVERED"
      <4> SUFFICES ASSUME job[g].at = "updateStatus", version'[o] = job[g].ver,
                          status'[o] = "DELIVERED"
                   PROVE  FALSE
        BY <1>1 DEF UpToDate
      <4>1. job[g].ver <= version[o]
        BY <3>1 DEF JobFits
      <4>2. version[o] = job[g].ver /\ version'[o] = version[o]
        BY <3>2, <4>1
      <4>3. status[o] # "DELIVERED"
        BY <3>1, <4>2 DEF JobIsTimely, UpToDate
      <4> QED
        BY <3>2, <4>2, <4>3 DEF Unhurried
    <3>4. job[g].at \in {"autoCompleteRead", "autoComplete"} /\ status'[o] = "DELIVERED"
            => window'[o].deadline = "past"
      <4> SUFFICES ASSUME job[g].at \in {"autoCompleteRead", "autoComplete"},
                          status'[o] = "DELIVERED"
                   PROVE  window'[o].deadline = "past"
        OBVIOUS
      <4>1. status[o] \in After
        BY <3>1 DEF JobFits
      <4>2. status[o] = "DELIVERED"
        BY <3>2, <4>1 DEF Unhurried
      <4>3. window[o].deadline = "past"
        BY <3>1, <4>2 DEF JobIsTimely
      <4> QED
        BY <3>2, <4>2, <4>3 DEF Unhurried
    <3> QED
      BY <1>1, <3>3, <3>4 DEF JobIsTimely
  <2> QED
    BY <2>1, <2>2
<1>2. ASSUME NEW o \in Order, request'[o] # "NONE"
      PROVE  status'[o] # "DELIVERED"
  <2> SUFFICES ASSUME status'[o] = "DELIVERED" PROVE FALSE
    OBVIOUS
  <2>1. Unhurried(o)
    BY DEF Timely
  <2>2. request[o] # "NONE"
    BY <1>2, <2>1 DEF Unhurried
  <2>3. status[o] # "DELIVERED" /\ status[o] \in After
    BY <2>2 DEF DeadlineInv, StockInv, WritesAreSound, ReturnFits
  <2> QED
    BY <2>1, <2>3 DEF Unhurried
<1> QED
  BY <1>1, <1>2 DEF DeadlineInv

\* A handler that has finished, or was left alone, is timely.
LEMMA FinishIsTimely ==
  ASSUME TypeOK, NEW h \in Handler, Finish(h)
  PROVE  \A g \in Handler : job'[g] = job[g] \/ JobIsTimely(g)'
BY DEF TypeOK, JobTypeOK, Finish, JobIsTimely, Idle

\* updateStatus: the order it writes is not a delivered one.
LEMMA UpdateStatusIsTimely ==
  ASSUME StockInv, DeadlineInv, NEW h \in Handler, UpdateStatus(h)
  PROVE  Timely /\ \A g \in Handler : job'[g] = job[g] \/ JobIsTimely(g)'
<1>1. PICK o \in Order : o = job[h].o
  BY DEF UpdateStatus, StockInv, TypeOK, JobTypeOK
<1>2. UpToDate(h) /\ JobFits(h) /\ JobIsTimely(h)
  BY DEF UpdateStatus, VersionHolds, UpToDate, StockInv, WritesAreSound, DeadlineInv
<1>3. status[o] # "DELIVERED" /\ StatusJobFits(h)
  BY <1>1, <1>2 DEF UpdateStatus, JobIsTimely, JobFits
<1>4. /\ status' = [status EXCEPT ![o] = job[h].to]
      /\ version' = [version EXCEPT ![o] = @ + 1]
      /\ \A p \in Order \ {o} : window'[p] = window[p]
      /\ request' = request /\ Finish(h)
  BY <1>1 DEF UpdateStatus, returnVars, StockInv, TypeOK, TableTypeOK
<1>5. status \in [Order -> OrderStatus \cup {"NONE"}] /\ version \in [Order -> Nat]
  BY DEF StockInv, TypeOK, TableTypeOK
<1>6. ASSUME NEW p \in Order
      PROVE  Unhurried(p)
  <2>1. CASE p = o
    <3>1. version'[o] # version[o]
      BY <1>4, <1>5
    <3>2. status'[o] = "DELIVERED" => status[o] \notin After
      BY <1>1, <1>3, <1>4, <1>5 DEF StatusJobFits, Before, After
    <3> QED
      BY <1>3, <1>4, <2>1, <3>1, <3>2 DEF Unhurried
  <2>2. CASE p # o
    BY <1>4, <1>5, <2>2, LeftAlone
  <2> QED
    BY <2>1, <2>2
<1> QED
  BY <1>4, <1>6, FinishIsTimely DEF StockInv, Timely

\* The cron, the requests and the decisions about them.
LEMMA ReturnWritesAreTimely ==
  ASSUME StockInv, DeadlineInv,
         \/ \E h \in Handler : CreateReturnRequest(h) \/ TelegramReject(h) \/ Refund(h)
                               \/ AutoComplete(h)
         \/ \E o \in Order : RejectReturn(o)
  PROVE  Timely /\ \A g \in Handler : job'[g] = job[g] \/ JobIsTimely(g)'
<1>0. /\ status \in [Order -> OrderStatus \cup {"NONE"}]
      /\ request = [o \in Order |-> request[o]]
  BY DEF StockInv, TypeOK, TableTypeOK
<1>1. window' = window
  BY DEF CreateReturnRequest, TelegramReject, Refund, AutoComplete, RejectReturn
<1>2. \A g \in Handler : job'[g] = job[g] \/ JobIsTimely(g)'
  <2>1. CASE \E h \in Handler : Finish(h)
    BY <2>1, FinishIsTimely DEF StockInv
  <2>2. CASE job' = job
    BY <2>2
  <2> QED
    BY <2>1, <2>2 DEF CreateReturnRequest, TelegramReject, Refund, AutoComplete, RejectReturn
<1>3. PICK o \in Order :
        /\ \A p \in Order \ {o} : status'[p] = status[p] /\ request'[p] = request[p]
        /\ status'[o] # "DELIVERED"
        /\ status[o] = "DELIVERED" /\ status'[o] = "COMPLETED" => window[o].deadline = "past"
  <2>1. ASSUME NEW h \in Handler, CreateReturnRequest(h) \/ TelegramReject(h) \/ Refund(h)
        PROVE  \E o \in Order :
                 /\ \A p \in Order \ {o} : status'[p] = status[p] /\ request'[p] = request[p]
                 /\ status'[o] \notin {"DELIVERED", "COMPLETED"}
    <3>1. job[h].o \in Order
      BY <2>1 DEF CreateReturnRequest, TelegramReject, Refund, StockInv, TypeOK, JobTypeOK
    <3> QED
      BY <1>0, <2>1, <3>1 DEF CreateReturnRequest, TelegramReject, Refund
  <2>2. ASSUME NEW h \in Handler, AutoComplete(h)
        PROVE  \E o \in Order :
                 /\ \A p \in Order \ {o} : status'[p] = status[p] /\ request'[p] = request[p]
                 /\ status'[o] = "COMPLETED"
                 /\ status[o] = "DELIVERED" => window[o].deadline = "past"
    <3>1. job[h].o \in Order /\ JobIsTimely(h)
      BY <2>2 DEF AutoComplete, StockInv, TypeOK, JobTypeOK, DeadlineInv
    <3> QED
      BY <1>0, <2>2, <3>1 DEF AutoComplete, JobIsTimely, returnVars
  <2>3. ASSUME NEW o \in Order, RejectReturn(o)
        PROVE  /\ \A p \in Order \ {o} : status'[p] = status[p] /\ request'[p] = request[p]
               /\ status'[o] = "COMPLETED" /\ status[o] # "DELIVERED"
    BY <1>0, <2>3 DEF RejectReturn, DeadlineInv
  <2> QED
    BY <2>1, <2>2, <2>3, SMTT(60)
<1>4. \A p \in Order : Unhurried(p)
  BY <1>1, <1>3 DEF Unhurried
<1> QED
  BY <1>2, <1>4 DEF Timely

\* Reads: an update is not begun for a delivered order, and the cron begins with
\* what is due.
LEMMA ReadsAreTimely ==
  ASSUME StockInv, DeadlineInv, NEW h \in Handler,
         UNCHANGED <<stockVars, orderVars, returnVars>>,
         \/ \E o \in Order : \/ StartUpdateStatus(h, o) \/ StartAutoComplete(h, o)
                             \/ StartCreateReturn(h, o) \/ StartRefund(h, o)
                             \/ StartTelegramRefund(h, o) \/ StartTelegramReject(h, o)
                             \/ StartConfirmRemaining(h, o)
         \/ RefundReadsOrder(h) \/ TelegramRefundReadsRequest(h) \/ AutoCompleteReads(h)
  PROVE  Timely /\ \A g \in Handler : job'[g] = job[g] \/ JobIsTimely(g)'
<1>0. job = [g \in Handler |-> job[g]] /\ UNCHANGED <<status, version, window, request>>
  BY DEF StockInv, TypeOK, JobTypeOK, orderVars, returnVars
<1>1. Timely
  BY <1>0, LeftAlone DEF Timely
<1>2. \A g \in Handler \ {h} : job'[g] = job[g]
  <2>1. \E j : Begin(h, j)
    BY DEF StartUpdateStatus, StartAutoComplete, StartCreateReturn, StartRefund,
       StartTelegramRefund, StartTelegramReject, StartConfirmRemaining, RefundReadsOrder,
       TelegramRefundReadsRequest, AutoCompleteReads, ReadItems
  <2> QED
    BY <2>1, BeginFits, SMTT(60) DEF StockInv
<1>3. ASSUME NEW o \in Order, StartUpdateStatus(h, o)
      PROVE  JobIsTimely(h)'
  <2>1. status[o] # "DELIVERED"
    BY <1>3 DEF StartUpdateStatus, Requestable
  <2>2. job'[h].at = "updateStatus" /\ job'[h].o = o
    BY <1>0, <1>3, ZenonT(60) DEF StartUpdateStatus, Begin, Idle
  <2> QED
    BY <1>0, <2>1, <2>2 DEF JobIsTimely
<1>4. ASSUME NEW o \in Order, StartAutoComplete(h, o)
      PROVE  JobIsTimely(h)'
  <2>1. window[o].deadline = "past"
    BY <1>4 DEF StartAutoComplete, DueForCompletion
  <2>2. job'[h].at = "autoCompleteRead" /\ job'[h].o = o
    BY <1>0, <1>4 DEF StartAutoComplete, Begin, Idle
  <2> QED
    BY <1>0, <2>1, <2>2 DEF JobIsTimely
<1>5. ASSUME AutoCompleteReads(h)
      PROVE  JobIsTimely(h)'
  <2>1. window[job[h].o].deadline = "past"
    BY <1>5 DEF AutoCompleteReads, DeadlineInv, JobIsTimely
  <2>2. job'[h].at = "autoComplete" /\ job'[h].o = job[h].o
    <3>1. job[h] \in Job
      BY DEF StockInv, TypeOK, JobTypeOK
    <3> QED
      BY <1>0, <1>5, <3>1 DEF AutoCompleteReads, Begin, Job
  <2> QED
    BY <1>0, <2>1, <2>2 DEF JobIsTimely
<1>6. ASSUME \/ \E o \in Order : \/ StartCreateReturn(h, o) \/ StartRefund(h, o)
                                 \/ StartTelegramRefund(h, o) \/ StartTelegramReject(h, o)
                                 \/ StartConfirmRemaining(h, o)
             \/ RefundReadsOrder(h) \/ TelegramRefundReadsRequest(h)
      PROVE  JobIsTimely(h)'
  <2>1. job[h] \in Job
    BY DEF StockInv, TypeOK, JobTypeOK
  <2>2. job'[h].at \in {"createReturn", "refundRead", "tgRefundRead", "tgReject",
                        "confirmRemaining", "refund", "tgRefund"}
    <3> USE <1>0 DEF Begin
    <3>1. ASSUME NEW o \in Order, StartCreateReturn(h, o) \/ StartRefund(h, o)
          PROVE  job'[h].at \in {"createReturn", "refundRead"}
      BY <3>1, ZenonT(60) DEF StartCreateReturn, StartRefund, Idle
    <3>2. ASSUME NEW o \in Order, StartTelegramRefund(h, o) \/ StartTelegramReject(h, o)
          PROVE  job'[h].at \in {"tgRefundRead", "tgReject"}
      BY <3>2 DEF StartTelegramRefund, StartTelegramReject, Idle
    <3>3. ASSUME NEW o \in Order, StartConfirmRemaining(h, o)
          PROVE  job'[h].at = "confirmRemaining"
      BY <3>3 DEF StartConfirmRemaining, Idle
    <3>4. ASSUME RefundReadsOrder(h)
          PROVE  job'[h].at = "refund"
      BY <2>1, <3>4 DEF RefundReadsOrder, ReadItems, Job
    <3>5. ASSUME TelegramRefundReadsRequest(h)
          PROVE  job'[h].at = "tgRefund"
      BY <2>1, <3>5 DEF TelegramRefundReadsRequest, Job
    <3> QED
      BY <1>6, <3>1, <3>2, <3>3, <3>4, <3>5
  <2> QED
    BY <2>2 DEF JobIsTimely
<1>7. JobIsTimely(h)'
  BY <1>3, <1>4, <1>5, <1>6
<1> QED
  BY <1>1, <1>2, <1>7

\* Everything else moves no status of an order that was delivered.
LEMMA OthersAreTimely ==
  ASSUME StockInv, DeadlineInv,
         \/ \E h \in Handler : ConfirmRemaining(h) \/ Abandon(h)
         \/ \E o \in Order : Create(o) \/ ReturnWindowCloses(o) \/ OrderAges(o)
         \/ UNCHANGED vars
  PROVE  Timely /\ \A g \in Handler : job'[g] = job[g] \/ JobIsTimely(g)'
<1>0. /\ status \in [Order -> OrderStatus \cup {"NONE"}] /\ window \in [Order -> Window]
      /\ request = [o \in Order |-> request[o]]
  BY DEF StockInv, TypeOK, TableTypeOK
<1>1. \A g \in Handler : job'[g] = job[g] \/ JobIsTimely(g)'
  <2>1. CASE \E h \in Handler : Finish(h)
    BY <2>1, FinishIsTimely DEF StockInv
  <2>2. CASE job' = job
    BY <2>2
  <2> QED
    BY <2>1, <2>2 DEF ConfirmRemaining, Abandon, Create, ReturnWindowCloses, OrderAges, vars
<1>2. CASE \/ \E h \in Handler : ConfirmRemaining(h) \/ Abandon(h)
           \/ \E o \in Order : OrderAges(o)
           \/ UNCHANGED vars
  <2>1. UNCHANGED <<status, window, request>>
    BY <1>2 DEF ConfirmRemaining, Abandon, OrderAges, vars, orderVars, returnVars
  <2> QED
    BY <1>1, <2>1, LeftAlone DEF Timely
<1>3. ASSUME NEW o \in Order, Create(o)
      PROVE  Timely
  <2>1. /\ status[o] = "NONE" /\ status' = [status EXCEPT ![o] = "PENDING"]
        /\ UNCHANGED <<window, request>>
    BY <1>3 DEF Create, Exists, returnVars
  <2> QED
    BY <1>0, <2>1 DEF Timely, Unhurried
<1>4. ASSUME NEW o \in Order, ReturnWindowCloses(o)
      PROVE  Timely
  <2>1. /\ UNCHANGED <<status, request>>
        /\ \A p \in Order \ {o} : window'[p] = window[p]
        /\ window[o].deadline = "past" => window'[o].deadline = "past"
    BY <1>0, <1>4 DEF ReturnWindowCloses, returnVars, Window
  <2> QED
    BY <2>1 DEF Timely, Unhurried
<1> QED
  BY <1>1, <1>2, <1>3, <1>4

\* DeadlineInv is inductive.
LEMMA NextDeadline ==
  ASSUME Ops \subseteq DisciplinedOps, StockInv, DeadlineInv, [Next]_vars
  PROVE  DeadlineInv' /\ Timely
<1>1. TypeOK' /\ Tame
  BY NextStockInv DEF StockInv
<1>2. Timely /\ \A g \in Handler : job'[g] = job[g] \/ JobIsTimely(g)'
  <2>1. CASE OrderNext
    <3>1. ASSUME NEW o \in Order, NEW h \in Handler,
                 \/ StartUpdateStatus(h, o) \/ StartCancelMyOrder(h, o)
                 \/ StartConfirmDelivery(h, o) \/ StartConfirmRemaining(h, o)
                 \/ StartMarkItemAsCut(h, o) \/ StartUpdateOrder(h, o)
          PROVE  Timely /\ \A g \in Handler : job'[g] = job[g] \/ JobIsTimely(g)'
      <4>1. StartUpdateStatus(h, o) \/ StartConfirmRemaining(h, o)
        BY <3>1, OutOfUse
      <4>2. UNCHANGED <<stockVars, orderVars, returnVars>>
        BY <4>1 DEF StartUpdateStatus, StartConfirmRemaining
      <4> QED
        BY <4>1, <4>2, ReadsAreTimely
    <3>2. ASSUME NEW h \in Handler,
                 \/ UpdateStatus(h) \/ CancelMyOrder(h) \/ RequestCancel(h)
                 \/ ConfirmSold(h) \/ ConfirmAllocation(h) \/ ConfirmOrder(h)
                 \/ ConfirmRemaining(h) \/ MarkItemAsCut(h) \/ UpdateOrder(h)
                 \/ Abandon(h)
          PROVE  Timely /\ \A g \in Handler : job'[g] = job[g] \/ JobIsTimely(g)'
      BY <3>2, HandlersOutOfUse, UpdateStatusIsTimely, OthersAreTimely
    <3>3. ASSUME NEW o \in Order, Create(o) \/ ReturnWindowCloses(o) \/ OrderAges(o)
          PROVE  Timely /\ \A g \in Handler : job'[g] = job[g] \/ JobIsTimely(g)'
      BY <3>3, OthersAreTimely
    <3> QED
      BY <2>1, <3>1, <3>2, <3>3 DEF OrderNext
  <2>2. CASE ReturnNext
    <3>1. ASSUME NEW o \in Order, NEW h \in Handler,
                 \/ StartCreateReturn(h, o) \/ StartRefund(h, o)
                 \/ StartTelegramRefund(h, o) \/ StartTelegramReject(h, o)
                 \/ StartAutoComplete(h, o)
          PROVE  Timely /\ \A g \in Handler : job'[g] = job[g] \/ JobIsTimely(g)'
      <4>1. UNCHANGED <<stockVars, orderVars, returnVars>>
        BY <3>1 DEF StartCreateReturn, StartRefund, StartTelegramRefund, StartTelegramReject,
           StartAutoComplete
      <4> QED
        BY <3>1, <4>1, ReadsAreTimely
    <3>2. ASSUME NEW h \in Handler, \/ RefundReadsOrder(h) \/ TelegramRefundReadsRequest(h)
                                    \/ AutoCompleteReads(h)
          PROVE  Timely /\ \A g \in Handler : job'[g] = job[g] \/ JobIsTimely(g)'
      <4>1. UNCHANGED <<stockVars, orderVars, returnVars>>
        BY <3>2 DEF RefundReadsOrder, TelegramRefundReadsRequest, AutoCompleteReads
      <4> QED
        BY <3>2, <4>1, ReadsAreTimely
    <3> QED
      BY <2>2, <3>1, <3>2, ReturnWritesAreTimely DEF ReturnNext
  <2>3. CASE ShopNext
    BY <2>3, OutOfUse, HandlersOutOfUse DEF ShopNext
  <2>4. CASE UNCHANGED vars
    BY <2>4, OthersAreTimely
  <2> QED
    BY <2>1, <2>2, <2>3, <2>4 DEF Next
<1> QED
  BY <1>1, <1>2, DeadlineKept

\* The cron never cuts the customer's 24 hours short: whatever else is written
\* between its query, its second read and its write, an order leaves DELIVERED for
\* COMPLETED only once its deadline has passed (handleReturnDeadlineExpiration).
THEOREM NeverCompletedEarly ==
  ASSUME Ops \subseteq DisciplinedOps
  PROVE  Spec => [][\A o \in Order : status[o] = "DELIVERED" /\ status'[o] = "COMPLETED"
                                       => window[o].deadline = "past"]_vars
<1>1. Init => DeadlineInv
  BY DEF Init, DeadlineInv, JobIsTimely, Idle
<1>2. StockInv /\ DeadlineInv /\ [Next]_vars => StockInv' /\ DeadlineInv'
  BY NextStockInv, NextDeadline
<1>3. StockInv /\ DeadlineInv /\ [Next]_vars =>
        [\A o \in Order : status[o] = "DELIVERED" /\ status'[o] = "COMPLETED"
                            => window[o].deadline = "past"]_vars
  BY NextDeadline DEF Timely, Unhurried
<1> QED
  BY InitStockInv, <1>1, <1>2, <1>3, PTL DEF Spec

(***************************************************************************)
(* The database implements CarpetStock: seen as shelf and owners, every    *)
(* step of the disciplined operations is one order taking carpets from the *)
(* shelf, selling all of them or giving all of them back, or it is no step *)
(* at all.                                                                 *)
(***************************************************************************)
\* An item that is kept has one owner; one that is not kept is on the shelf.
LEMMA OwnerIs ==
  ASSUME StockInv, NEW i \in Item
  PROVE  /\ \A o \in Order : Owner(i) = o <=> Keeps(o) /\ i \in links[o]
         /\ Owner(i) = NoOrder <=> item[i] = "ACTIVE"
<1>1. CASE \E o \in Order : Keeps(o) /\ i \in links[o]
  <2>1. PICK o \in Order : Keeps(o) /\ i \in links[o]
    BY <1>1
  <2>2. \A p \in Order : Keeps(p) /\ i \in links[p] => p = o
    BY <2>1 DEF StockInv, ShelfOK, NoDoubleAllocation
  <2>3. Owner(i) = o
    BY <2>1, <2>2 DEF Owner
  <2>4. item[i] # "ACTIVE"
    BY <2>1 DEF StockInv, ShelfOK, OffShelfIffKept
  <2> QED
    BY <2>1, <2>2, <2>3, <2>4, NoOrderAssumption
<1>2. CASE ~ \E o \in Order : Keeps(o) /\ i \in links[o]
  BY <1>2, NoOrderAssumption DEF Owner, StockInv, ShelfOK, OffShelfIffKept
<1> QED
  BY <1>1, <1>2

\* The same after the step.
LEMMA OwnerWillBe ==
  ASSUME StockInv', NEW i \in Item
  PROVE  /\ \A o \in Order : Owner(i)' = o <=> Keeps(o)' /\ i \in links'[o]
         /\ Owner(i)' = NoOrder <=> item'[i] = "ACTIVE"
<1>1. CASE \E o \in Order : Keeps(o)' /\ i \in links'[o]
  <2>1. PICK o \in Order : Keeps(o)' /\ i \in links'[o]
    BY <1>1
  <2>2. \A p \in Order : Keeps(p)' /\ i \in links'[p] => p = o
    BY <2>1 DEF StockInv, ShelfOK, NoDoubleAllocation
  <2>3. Owner(i)' = o
    BY <2>1, <2>2 DEF Owner
  <2>4. item'[i] # "ACTIVE"
    BY <2>1 DEF StockInv, ShelfOK, OffShelfIffKept
  <2> QED
    BY <2>1, <2>2, <2>3, <2>4, NoOrderAssumption
<1>2. CASE ~ \E o \in Order : Keeps(o)' /\ i \in links'[o]
  BY <1>2, NoOrderAssumption DEF Owner, StockInv, ShelfOK, OffShelfIffKept
<1> QED
  BY <1>1, <1>2

\* An item belongs to somebody known, or to nobody.
LEMMA OwnerKnown ==
  ASSUME NEW i \in Item
  PROVE  Owner(i) \in Order \cup {NoOrder} /\ Owner(i)' \in Order \cup {NoOrder}
BY DEF Owner

\* What CarpetStock sees.
Stock == [i \in Item |-> [by |-> Owner(i), is |-> item[i]]]

LEMMA InitPromise == Init => Promise!StockInit
<1> SUFFICES ASSUME Init PROVE Promise!StockInit
  OBVIOUS
<1>1. StockInv
  BY InitStockInv
<1>2. \A i \in Item : item[i] = "ACTIVE" /\ Owner(i) = NoOrder
  BY <1>1, OwnerIs DEF Init, StockInit
<1> QED
  BY <1>2 DEF Promise!StockInit, Promise!Shelf

\* Checkout takes carpets from the shelf.
LEMMA TakesIsTake ==
  ASSUME StockInv, StockInv', NEW o \in Order, NEW S, Takes(o, S)
  PROVE  S \in SUBSET Item /\ Promise!Take(o, S)
<1>1. \A i \in Item : Owner(i) # o
  BY OwnerIs DEF Takes
<1>2. \A i \in S : i \in Item /\ item[i] = "ACTIVE" /\ Owner(i) = NoOrder
  BY OwnerIs DEF Takes
<1>3. \A i \in Item :
        /\ item'[i] = IF i \in S THEN "RESERVED" ELSE item[i]
        /\ Owner(i)' = IF i \in S THEN o ELSE Owner(i)
  <2> SUFFICES ASSUME NEW i \in Item
               PROVE  Owner(i)' = IF i \in S THEN o ELSE Owner(i)
    BY DEF Takes
  <2>1. CASE i \in S
    BY <2>1, OwnerWillBe DEF Takes
  <2>2. CASE i \notin S
    <3>1. Owner(i)' # o /\ \A p \in Order : Owner(i)' = p <=> Owner(i) = p
      BY <2>2, <1>1, OwnerIs, OwnerWillBe DEF Takes, AsBefore
    <3> QED
      BY <2>2, <3>1, OwnerKnown
  <2> QED
    BY <2>1, <2>2
<1>4. Promise!Of(o) = {}
  BY <1>1 DEF Promise!Of
<1>5. \A i \in S : Stock[i] = Promise!Shelf
  BY <1>2 DEF Stock, Promise!Shelf
<1>6. Stock' = [i \in Item |-> IF i \in S THEN [by |-> o, is |-> "RESERVED"]
                               ELSE Stock[i]]
  BY <1>3 DEF Stock
<1> QED
  BY <1>2, <1>4, <1>5, <1>6 DEF Promise!Take, Stock

\* The hand-over sells all of an order's carpets.
LEMMA SellsIsSell ==
  ASSUME StockInv, StockInv', NEW o \in Order, Sells(o)
  PROVE  Promise!Sell(o)
<1>1. \A i \in Item : Owner(i)' = Owner(i)
  <2> SUFFICES ASSUME NEW i \in Item PROVE Owner(i)' = Owner(i)
    OBVIOUS
  <2>1. \A p \in Order : Owner(i)' = p <=> Owner(i) = p
    BY OwnerIs, OwnerWillBe DEF Sells, AsBefore
  <2> QED
    BY <2>1, OwnerKnown
<1>2. \A i \in Item : i \in links[o] <=> Owner(i) = o
  BY OwnerIs DEF Sells
<1>3. Promise!Of(o) = {i \in Item : i \in links[o]}
  BY <1>2 DEF Promise!Of
<1>4. \A i \in Promise!Of(o) : Stock[i].is = "RESERVED"
  BY <1>3 DEF Sells, Stock
<1>5. Stock' = [i \in Item |-> IF i \in Promise!Of(o)
                               THEN [by |-> o, is |-> "SOLD"] ELSE Stock[i]]
  BY <1>1, <1>2, <1>3 DEF Sells, Stock
<1> QED
  BY <1>4, <1>5 DEF Promise!Sell, Promise!Mark, Stock

\* Cancellation and refund put all of them back.
LEMMA PutsBackIsGiveBack ==
  ASSUME StockInv, StockInv', NEW o \in Order, PutsBack(o)
  PROVE  Promise!GiveBack(o)
<1>1. \A i \in Item : i \in links[o] <=> Owner(i) = o
  BY OwnerIs DEF PutsBack
<1>2. \A i \in Item :
        Owner(i)' = IF i \in links[o] THEN NoOrder ELSE Owner(i)
  <2> SUFFICES ASSUME NEW i \in Item
               PROVE  Owner(i)' = IF i \in links[o] THEN NoOrder ELSE Owner(i)
    OBVIOUS
  <2>1. CASE i \in links[o]
    BY <2>1, OwnerWillBe DEF PutsBack
  <2>2. CASE i \notin links[o]
    <3>1. \A p \in Order : Owner(i)' = p <=> Owner(i) = p
      BY <2>2, OwnerIs, OwnerWillBe DEF PutsBack, AsBefore
    <3> QED
      BY <2>2, <3>1, OwnerKnown
  <2> QED
    BY <2>1, <2>2
<1>3. Promise!Of(o) = {i \in Item : i \in links[o]}
  BY <1>1 DEF Promise!Of
<1>4. Stock' = [i \in Item |-> IF i \in Promise!Of(o) THEN Promise!Shelf
                               ELSE Stock[i]]
  BY <1>2, <1>3 DEF PutsBack, Stock, Promise!Shelf
<1> QED
  BY <1>4 DEF Promise!GiveBack, Promise!Mark, Stock

\* Every step is a step of the promise, or invisible to it.
LEMMA NextPromise ==
  ASSUME StockInv, StockInv', Moved
  PROVE  Promise!StockNext \/ Stock' = Stock
<1>1. CASE item' = item /\ \A p \in Order : AsBefore(p)
  <2>1. \A i \in Item : Owner(i)' = Owner(i)
    <3> SUFFICES ASSUME NEW i \in Item PROVE Owner(i)' = Owner(i)
      OBVIOUS
    <3>1. \A p \in Order : Owner(i)' = p <=> Owner(i) = p
      BY <1>1, OwnerIs, OwnerWillBe DEF AsBefore
    <3> QED
      BY <3>1, OwnerKnown
  <2> QED
    BY <1>1, <2>1 DEF Stock
<1>2. CASE \E o \in Order : Sells(o) \/ PutsBack(o) \/ \E S : Takes(o, S)
  BY <1>2, SellsIsSell, PutsBackIsGiveBack, TakesIsTake DEF Promise!StockNext
<1> QED
  BY <1>1, <1>2 DEF Moved

----------------------------------------------------------------------------
\* The shop keeps the promise of CarpetStock while the operations in use check
\* versions, whatever the numbers of orders, items and handlers.
THEOREM TheShopKeepsItsPromise ==
  ASSUME Ops \subseteq DisciplinedOps
  PROVE  Spec => StockPromise
<1>1. StockInv /\ [Next]_vars =>
        StockInv' /\ (Promise!StockNext \/ Stock' = Stock)
  BY NextStockInv, NextPromise
<1>2. StockInv /\ [Next]_vars =>
        [Promise!StockNext]_([i \in Item |-> [by |-> Owner(i), is |-> item[i]]])
  BY <1>1 DEF Stock
<1> QED
  BY InitPromise, InitStockInv, NextStockInv, <1>2, PTL
  DEF Spec, StockPromise, Promise!StockSpec
=============================================================================
