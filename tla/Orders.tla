------------------------------- MODULE Orders -------------------------------
(***************************************************************************)
(* The life of an order: orders.service.ts over the stock of Inventory.    *)
(*                                                                         *)
(* A request handler reads the order outside any transaction, decides on   *)
(* what it read and writes later.  Action StartX is that read with the     *)
(* early returns that follow it; what the handler remembers goes into      *)
(* job[h].  The action named after the handler is its write: one           *)
(* interactive transaction, or one autocommitted statement.  Abandon drops *)
(* a job whose write throws, or whose process dies, where it stands.       *)
(***************************************************************************)
EXTENDS Inventory

CONSTANTS
  Handler,     \* handlers in flight at one time
  Cron,        \* those of them that run the scheduled jobs
  Ops,         \* the operations the environment calls
  Methods,     \* payment methods: TRUE is online (Click, Payme), FALSE cash
  Baskets,     \* carts: how many ready carpets, what length of the roll
  NoOrder,     \* "no order": the order of an idle handler
  MaxVersion,  \* bound on version: status updates stop there, and refunds
               \* and automatic completions one write later
  MaxEdits     \* bound on the edits of an order's items

ASSUME BasketsAssumption == Baskets \subseteq [qty : Nat, len : Nat]
ASSUME MethodsAssumption == Methods \subseteq BOOLEAN
ASSUME NoOrderAssumption == NoOrder \notin Order
ASSUME CronAssumption == Cron \subseteq Handler
ASSUME BoundsAssumption == MaxVersion \in Nat /\ MaxEdits \in Nat

OrderStatus ==
  {"PENDING", "ACCEPTED", "CUTTING", "READY_FOR_DELIVERY", "ON_WAY",
   "DELIVERED", "COMPLETED", "CANCEL_REQUESTED", "CANCELLED",
   "RETURN_REQUESTED", "RETURN_APPROVED", "RETURN_REJECTED", "REFUNDED"}

PaymentStatus ==
  {"UNPAID", "DEPOSIT_REQUIRED", "PARTIALLY_PAID", "FULLY_PAID", "FAILED"}

RequestStatus == {"RETURN_REQUESTED", "RETURN_APPROVED", "RETURN_REJECTED"}

Clock == {"unset", "open", "past"}   \* a date, against 24 hours later

VARIABLES
  status,    \* status, "NONE" before the order exists
  version,   \* the optimistic-lock counter
  window,    \* deliveryCompletedAt and returnDeadline
  basket,    \* what its order items ask for
  edition,   \* generation of its order items: updateOrder replaces them
  returned,  \* isReturnedInventoryCreated of its order items
  pay,       \* paidAmount, remainingAmount, paymentStatus
  payTx,     \* status of its deposit PaymentTransaction
  button,    \* who holds a Telegram arrival button for it
  old,       \* orders created more than 24 hours ago
  request,   \* status of its ReturnRequest, "NONE" without one
  refunds,   \* number of REFUND rows in its PaymentHistory
  job        \* job[h]: what handler h read and is about to write

orderVars ==
  <<status, version, window, basket, edition, returned, pay, payTx, button,
    old>>

returnVars == <<request, refunds>>   \* written by module Returns only

vars == <<stockVars, orderVars, returnVars, job>>

NoBasket == [qty |-> 0, len |-> 0]
NoWindow == [done |-> "unset", deadline |-> "unset"]
Window == [done : Clock, deadline : Clock]

Stage ==
  {"updateStatus", "cancel", "requestCancel", "confirmDelivery",
   "confirmRemaining", "markCut", "updateOrder", "createReturn",
   "refundRead", "refund", "tgRefundRead", "tgRefund", "tgReject",
   "autoCompleteRead", "autoComplete", "webhookMark", "webhookRead",
   "webhookPay", "tgArrival", "expire"}

DeliveryStep == {"sold", "alloc", "order"}

Job ==
  [at : Stage \cup {"idle"}, o : Order \cup {NoOrder},
   to : OrderStatus \cup {"NONE"}, ver : Nat, ed : Nat,
   b : [qty : Nat, len : Nat], win : Window, flag : BOOLEAN, rest : Nat,
   todo : SUBSET DeliveryStep, scan : SUBSET Item]

Idle ==
  [at |-> "idle", o |-> NoOrder, to |-> "NONE", ver |-> 0, ed |-> 0,
   b |-> NoBasket, win |-> NoWindow, flag |-> FALSE, rest |-> 0,
   todo |-> {}, scan |-> {}]

TableTypeOK ==
  /\ status \in [Order -> OrderStatus \cup {"NONE"}]
  /\ version \in [Order -> Nat]
  /\ window \in [Order -> Window]
  /\ basket \in [Order -> [qty : Nat, len : Nat]]
  /\ edition \in [Order -> Nat]
  /\ returned \in [Order -> BOOLEAN]
  /\ pay \in [Order -> [paid : Nat, rest : Nat, st : PaymentStatus]]
  /\ payTx \in [Order -> {"NONE", "PENDING", "SUCCESS", "FAILED"}]
  /\ button \in [Order -> {"nobody", "courier", "customer"}]
  /\ old \in SUBSET Order
  /\ request \in [Order -> RequestStatus \cup {"NONE"}]
  /\ refunds \in [Order -> Nat]

JobTypeOK ==
  /\ job \in [Handler -> Job]
  /\ \A h \in Handler :
       job[h].at \notin {"idle", "expire"} => job[h].o \in Order

TypeOK == StockTypeOK /\ TableTypeOK /\ JobTypeOK

Init ==
  /\ StockInit
  /\ status = [o \in Order |-> "NONE"]
  /\ version = [o \in Order |-> 0]
  /\ window = [o \in Order |-> NoWindow]
  /\ basket = [o \in Order |-> NoBasket]
  /\ edition = [o \in Order |-> 0]
  /\ returned = [o \in Order |-> FALSE]
  /\ pay = [o \in Order |-> [paid |-> 0, rest |-> 0, st |-> "UNPAID"]]
  /\ payTx = [o \in Order |-> "NONE"]
  /\ button = [o \in Order |-> "nobody"]
  /\ old = {}
  /\ request = [o \in Order |-> "NONE"]
  /\ refunds = [o \in Order |-> 0]
  /\ job = [h \in Handler |-> Idle]

Exists(o) == status[o] # "NONE"

\* A request of kind op arrives at an idle handler, which reads order o.
Arrives(h, o, op) ==
  op \in Ops /\ h \notin Cron /\ job[h].at = "idle" /\ Exists(o)

\* Fault: writes whatever became of the order.
VersionIgnored(j) == TRUE

\* The condition on the first write of a versioned transaction.
VersionHolds(j) == version[j.o] = j.ver

Begin(h, j) == job' = [job EXCEPT ![h] = j]
Finish(h) == job' = [job EXCEPT ![h] = Idle]

Abandon(h) ==
  /\ job[h].at # "idle"
  /\ Finish(h)
  /\ UNCHANGED <<stockVars, orderVars, returnVars>>

----------------------------------------------------------------------------
(* create *)

Total(b) == b.qty + b.len   \* one price unit per carpet and per unit length

\* Fault: takes the deposit off what remains, for both payment methods.
DepositTakenOff(b, online) ==
  [paid |-> 0, rest |-> Total(b) - 2, st |-> "DEPOSIT_REQUIRED"]

InitialPayment(b, online) ==
  [paid |-> 0, rest |-> Total(b),
   st |-> IF online \/ b.len > 0 THEN "DEPOSIT_REQUIRED" ELSE "UNPAID"]

\* The checkout transaction.  Its row locks (FOR UPDATE on the carpet and the
\* roll) make the stock check and the allocation one step.
Create(o) ==
  /\ "create" \in Ops
  /\ status[o] = "NONE"
  /\ \E b \in Baskets, online \in Methods :
       \E S \in Picks(item, b.qty) :
         /\ b.len <= RollFree
         /\ item' = SetStatus(item, S, "RESERVED")
         /\ links' = [links EXCEPT ![o] = S]
         /\ roll' = ReserveRollLength(roll, b.len)
         /\ alloc' = [alloc EXCEPT
                        ![o] = IF b.len > 0 THEN "RESERVED" ELSE "NONE"]
         /\ soldCount' = soldCount + b.qty
         /\ basket' = [basket EXCEPT ![o] = b]
         /\ pay' = [pay EXCEPT ![o] = InitialPayment(b, online)]
         /\ payTx' = [payTx EXCEPT
                        ![o] = IF online THEN "PENDING" ELSE "NONE"]
  /\ status' = [status EXCEPT ![o] = "PENDING"]
  /\ UNCHANGED <<pieces, version, window, edition, returned, button, old, job,
                 returnVars>>

----------------------------------------------------------------------------
(* updateStatus *)

orderTransitionMap ==
  [s \in OrderStatus |->
     CASE s = "PENDING" -> {"ACCEPTED", "CANCELLED"}
       [] s = "ACCEPTED" -> {"CUTTING", "READY_FOR_DELIVERY", "CANCELLED",
                             "CANCEL_REQUESTED"}
       [] s = "CUTTING" -> {"READY_FOR_DELIVERY", "CANCELLED",
                            "CANCEL_REQUESTED"}
       [] s = "READY_FOR_DELIVERY" -> {"ON_WAY", "CANCELLED",
                                       "CANCEL_REQUESTED"}
       [] s = "ON_WAY" -> {"DELIVERED"}
       [] s = "DELIVERED" -> {"COMPLETED", "RETURN_REQUESTED"}
       [] s = "CANCEL_REQUESTED" -> {"CANCELLED", "ACCEPTED", "CUTTING",
                                     "READY_FOR_DELIVERY"}
       [] s = "RETURN_REQUESTED" -> {"RETURN_APPROVED", "RETURN_REJECTED"}
       [] s = "RETURN_APPROVED" -> {"REFUNDED"}
       [] s = "RETURN_REJECTED" -> {"COMPLETED"}
       [] OTHER -> {}]

canTransition(from, to) == to \in orderTransitionMap[from]

\* The statuses the endpoint lets through from s.  Without a status in the
\* request (or with the current one) the order keeps s and is written anyway.
Requestable(s) ==
  IF s \in {"DELIVERED", "CANCELLED"} THEN {}
  ELSE {to \in OrderStatus :
          /\ s = "ON_WAY" => to = "DELIVERED"
          /\ to = s \/ canTransition(s, to)}

StartUpdateStatus(h, o) ==
  /\ Arrives(h, o, "updateStatus")
  /\ \E to \in Requestable(status[o]) :
       Begin(h, [Idle EXCEPT !.at = "updateStatus", !.o = o, !.to = to,
                             !.ver = version[o], !.win = window[o]])
  /\ UNCHANGED <<stockVars, orderVars, returnVars>>

\* ACCEPTED: the allocation waits to be cut.
SendToCutting(o) ==
  /\ alloc' = [alloc EXCEPT ![o] = IF @ = "RESERVED" THEN "CUTTING" ELSE @]
  /\ UNCHANGED <<item, links, pieces, roll, soldCount>>

\* Fault: does not look whether the roll has been cut.
AlwaysUncut(s) == s # "NONE"

Uncut(s) == s \notin {"NONE", "CUT"}

\* READY_FOR_DELIVERY, ON_WAY, DELIVERED: cut the roll unless the allocation
\* says it is cut, and on delivery turn everything reserved into sold.
CutAndHandOver(o, to) ==
  LET uncut == Uncut(alloc[o])
      sold == to = "DELIVERED"
      cut == IF uncut
             THEN Append(pieces[o], IF sold THEN "SOLD" ELSE "RESERVED")
             ELSE pieces[o]
  IN  /\ roll' = IF uncut THEN CutRollSegment(roll, basket[o].len) ELSE roll
      /\ pieces' = [pieces EXCEPT
                      ![o] = IF sold THEN MarkPiecesSold(cut) ELSE cut]
      /\ alloc' = [alloc EXCEPT
                     ![o] = IF @ = "NONE" THEN "NONE"
                            ELSE IF sold THEN "DELIVERED" ELSE "CUT"]
      /\ item' = IF sold THEN MarkInventorySold(item, links[o]) ELSE item
      /\ UNCHANGED <<links, soldCount>>

\* CANCELLED: items and cut pieces become sellable, uncut length is released.
GiveBack(o) ==
  /\ item' = ReleaseInventory(item, links[o])
  /\ pieces' = [pieces EXCEPT ![o] = ReleasePieces(@)]
  /\ roll' = IF Uncut(alloc[o])
             THEN ReleaseRollReservation(roll, basket[o].len) ELSE roll
  /\ alloc' = [alloc EXCEPT ![o] = IF @ = "NONE" THEN @ ELSE "AVAILABLE"]
  /\ UNCHANGED <<links, soldCount>>

\* The transaction opens with an update conditioned on the version that was
\* read; when another versioned write came first it throws (Abandon).
UpdateStatus(h) ==
  LET j == job[h]
      o == j.o
  IN  /\ j.at = "updateStatus"
      /\ VersionHolds(j)
      /\ j.ver < MaxVersion
      /\ status' = [status EXCEPT ![o] = j.to]
      /\ version' = [version EXCEPT ![o] = @ + 1]
      /\ window' = [window EXCEPT
                      ![o] = IF j.to = "DELIVERED"
                             THEN [done |-> "open", deadline |-> "open"]
                             ELSE j.win]
      /\ \/ /\ j.to = "ACCEPTED"
            /\ SendToCutting(o)
         \/ /\ j.to \in {"READY_FOR_DELIVERY", "ON_WAY", "DELIVERED"}
            /\ CutAndHandOver(o, j.to)
         \/ /\ j.to = "CANCELLED"
            /\ GiveBack(o)
         \/ /\ j.to \notin {"ACCEPTED", "READY_FOR_DELIVERY", "ON_WAY",
                            "DELIVERED", "CANCELLED"}
            /\ UNCHANGED stockVars
      /\ \/ UNCHANGED button
         \/ /\ j.to = "ON_WAY"           \* a courier is named: he is notified
            /\ "arrivalButtons" \in Ops
            /\ button[o] = "nobody"
            /\ button' = [button EXCEPT ![o] = "courier"]
      /\ Finish(h)
      /\ UNCHANGED <<basket, edition, returned, pay, payTx, old, returnVars>>

----------------------------------------------------------------------------
(* cancelMyOrder: the customer's cancellation.  No version is checked. *)

StartCancelMyOrder(h, o) ==
  /\ Arrives(h, o, "cancelMyOrder")
  /\ status[o] \in {"PENDING", "ACCEPTED", "CUTTING", "READY_FOR_DELIVERY"}
  /\ Begin(h, [Idle EXCEPT !.at = IF status[o] = "PENDING" THEN "cancel"
                                  ELSE "requestCancel",
                           !.o = o, !.ed = edition[o], !.b = basket[o]])
  /\ UNCHANGED <<stockVars, orderVars, returnVars>>

\* An order read as PENDING: release, count back, cancel.  soldCount goes
\* down by the quantity of every order item, and a roll item has quantity 1.
CancelMyOrder(h) ==
  LET j == job[h]
      o == j.o
      ours == j.ed = edition[o]    \* the order items read still exist
  IN  /\ j.at = "cancel"
      /\ item' = IF ours THEN ReleaseInventory(item, links[o]) ELSE item
      /\ pieces' = [pieces EXCEPT ![o] = IF ours THEN ReleasePieces(@) ELSE @]
      /\ soldCount' = soldCount - j.b.qty - (IF j.b.len > 0 THEN 1 ELSE 0)
      /\ status' = [status EXCEPT ![o] = "CANCELLED"]
      /\ Finish(h)
      /\ UNCHANGED <<links, alloc, roll, version, window, basket, edition,
                     returned, pay, payTx, button, old, returnVars>>

\* Any other order: ask the administrators.
RequestCancel(h) ==
  /\ job[h].at = "requestCancel"
  /\ status' = [status EXCEPT ![job[h].o] = "CANCEL_REQUESTED"]
  /\ Finish(h)
  /\ UNCHANGED <<stockVars, version, window, basket, edition, returned, pay,
                 payTx, button, old, returnVars>>

----------------------------------------------------------------------------
(* confirmDelivery: three autocommitted statements; the first is started   *)
(* and never awaited, so it may land at any time, or not at all.           *)

StartConfirmDelivery(h, o) ==
  /\ Arrives(h, o, "confirmDelivery")
  /\ status[o] = "ON_WAY"
  /\ Begin(h, [Idle EXCEPT !.at = "confirmDelivery", !.o = o,
                           !.ed = edition[o], !.todo = DeliveryStep])
  /\ UNCHANGED <<stockVars, orderVars, returnVars>>

Tick(h, step) ==
  IF job[h].todo = {step} THEN Finish(h)
  ELSE job' = [job EXCEPT ![h].todo = @ \ {step}]

ConfirmSold(h) ==
  LET o == job[h].o
      ours == job[h].ed = edition[o]
  IN  /\ "sold" \in job[h].todo
      /\ item' = IF ours THEN MarkInventorySold(item, links[o]) ELSE item
      /\ pieces' = [pieces EXCEPT ![o] = IF ours THEN MarkPiecesSold(@) ELSE @]
      /\ Tick(h, "sold")
      /\ UNCHANGED <<links, alloc, roll, soldCount, orderVars, returnVars>>

ConfirmAllocation(h) ==
  LET o == job[h].o
  IN  /\ "alloc" \in job[h].todo
      /\ alloc' = [alloc EXCEPT
                     ![o] = IF /\ job[h].ed = edition[o]
                               /\ @ \in {"RESERVED", "CUTTING", "CUT"}
                            THEN "DELIVERED" ELSE @]
      /\ Tick(h, "alloc")
      /\ UNCHANGED <<item, links, pieces, roll, soldCount, orderVars, returnVars>>

ConfirmOrder(h) ==
  LET o == job[h].o
  IN  /\ "order" \in job[h].todo
      /\ "alloc" \notin job[h].todo
      /\ status' = [status EXCEPT ![o] = "DELIVERED"]
      /\ window' = [window EXCEPT ![o].done = "open"]
      /\ Tick(h, "order")
      /\ UNCHANGED <<stockVars, version, basket, edition, returned, pay,
                     payTx, button, old, returnVars>>

----------------------------------------------------------------------------
(* confirmRemainingPayment and markItemAsCut *)

StartConfirmRemaining(h, o) ==
  /\ Arrives(h, o, "confirmRemaining")
  /\ pay[o].st # "FULLY_PAID"
  /\ Begin(h, [Idle EXCEPT !.at = "confirmRemaining", !.o = o,
                           !.rest = Total(basket[o])])
  /\ UNCHANGED <<stockVars, orderVars, returnVars>>

ConfirmRemaining(h) ==
  /\ job[h].at = "confirmRemaining"
  /\ pay' = [pay EXCEPT ![job[h].o] =
               [paid |-> job[h].rest, rest |-> 0, st |-> "FULLY_PAID"]]
  /\ Finish(h)
  /\ UNCHANGED <<stockVars, status, version, window, basket, edition,
                 returned, payTx, button, old, returnVars>>

StartMarkItemAsCut(h, o) ==
  /\ Arrives(h, o, "markItemAsCut")
  /\ Uncut(alloc[o])
  /\ Begin(h, [Idle EXCEPT !.at = "markCut", !.o = o, !.ed = edition[o],
                           !.b = basket[o]])
  /\ UNCHANGED <<stockVars, orderVars, returnVars>>

\* Cuts the roll but creates no inventory item for the piece.  Nothing stops
\* the length from going below zero; the model stops at -RollLength.
MarkItemAsCut(h) ==
  /\ job[h].at = "markCut"
  /\ job[h].b.len <= roll.current + RollLength
  /\ job[h].ed = edition[job[h].o]
  /\ roll' = CutRollSegment(roll, job[h].b.len)
  /\ alloc' = [alloc EXCEPT ![job[h].o] = "CUT"]
  /\ Finish(h)
  /\ UNCHANGED <<item, links, pieces, soldCount, orderVars, returnVars>>

----------------------------------------------------------------------------
(* updateOrder: replaces the order items.  No version is checked. *)

StartUpdateOrder(h, o) ==
  /\ Arrives(h, o, "updateOrder")
  /\ status[o] \notin {"READY_FOR_DELIVERY", "ON_WAY", "DELIVERED",
                       "COMPLETED"}
  /\ Begin(h, [Idle EXCEPT !.at = "updateOrder", !.o = o, !.ed = edition[o],
                           !.b = basket[o]])
  /\ UNCHANGED <<stockVars, orderVars, returnVars>>

\* Release what was read, delete the order items there are now, allocate the
\* new ones.  The roll reservation is released whatever became of it.
UpdateOrder(h) ==
  LET j == job[h]
      o == j.o
      freed == IF j.ed = edition[o] THEN ReleaseInventory(item, links[o])
               ELSE item
      wound == ReleaseRollReservation(roll, j.b.len)
  IN  /\ j.at = "updateOrder"
      /\ edition[o] < MaxEdits
      /\ \E b \in Baskets : \E S \in Picks(freed, b.qty) :
           /\ b.len <= wound.current - wound.reserved
           /\ item' = SetStatus(freed, S, "RESERVED")
           /\ links' = [links EXCEPT ![o] = S]
           /\ roll' = ReserveRollLength(wound, b.len)
           /\ alloc' = [alloc EXCEPT
                          ![o] = IF b.len > 0 THEN "RESERVED" ELSE "NONE"]
           /\ soldCount' = soldCount + b.qty
           /\ basket' = [basket EXCEPT ![o] = b]
           /\ pay' = [pay EXCEPT ![o].paid = 0, ![o].rest = Total(b)]
      /\ pieces' = [pieces EXCEPT ![o] = <<>>]
      /\ edition' = [edition EXCEPT ![o] = @ + 1]
      /\ returned' = [returned EXCEPT ![o] = FALSE]
      /\ Finish(h)
      /\ UNCHANGED <<status, version, window, payTx, button, old, returnVars>>

----------------------------------------------------------------------------
(* The passing of a day *)

\* 24 hours pass since the delivery of o.
ReturnWindowCloses(o) ==
  LET late(c) == IF c = "open" THEN "past" ELSE c
  IN  /\ "open" \in {window[o].done, window[o].deadline}
      /\ window' = [window EXCEPT ![o] = [done |-> late(@.done),
                                          deadline |-> late(@.deadline)]]
      /\ UNCHANGED <<stockVars, status, version, basket, edition, returned,
                     pay, payTx, button, old, job, returnVars>>

\* 24 hours pass since the creation of o.
OrderAges(o) ==
  /\ "expireReservations" \in Ops
  /\ Exists(o) /\ o \notin old
  /\ old' = old \cup {o}
  /\ UNCHANGED <<stockVars, status, version, window, basket, edition,
                 returned, pay, payTx, button, job, returnVars>>

OrderNext ==
  \/ \E o \in Order : Create(o) \/ ReturnWindowCloses(o) \/ OrderAges(o)
  \/ \E h \in Handler, o \in Order :
       \/ StartUpdateStatus(h, o)
       \/ StartCancelMyOrder(h, o)
       \/ StartConfirmDelivery(h, o)
       \/ StartConfirmRemaining(h, o)
       \/ StartMarkItemAsCut(h, o)
       \/ StartUpdateOrder(h, o)
  \/ \E h \in Handler :
       \/ UpdateStatus(h)
       \/ CancelMyOrder(h)
       \/ RequestCancel(h)
       \/ ConfirmSold(h)
       \/ ConfirmAllocation(h)
       \/ ConfirmOrder(h)
       \/ ConfirmRemaining(h)
       \/ MarkItemAsCut(h)
       \/ UpdateOrder(h)
       \/ Abandon(h)
=============================================================================
