---------------------------- MODULE MoneyProofs ----------------------------
(***************************************************************************)
(* Refunds and payments.                                                   *)
(*                                                                         *)
(* An order's money is given back at most once for each generation of its  *)
(* items, whatever operations are in use: the two refund transactions need *)
(* neither the status of the order nor that of the request for it, only    *)
(* the version, the order items and the flag on them.  That is not         *)
(* inductive: a refund job that is allowed to write must be known to write *)
(* for the first time (JobRecalls).  And a request whose refund was given  *)
(* never waits for a decision again.                                       *)
(*                                                                         *)
(* What was paid and what remains add up to the price while payment        *)
(* callbacks are processed one at a time: not inductive either, since a    *)
(* callback must still find what it read (JobPays).                        *)
(***************************************************************************)
EXTENDS ShopProofs

RefundStages == {"tgRefundRead", "refund", "tgRefund"}

\* What refund handler h remembers is not newer than the order, and while
\* neither version nor items moved, an unset flag is still unset.
JobRecalls(h) ==
  LET j == job[h]
      o == j.o
  IN  /\ j.at \in RefundStages => j.ver <= version[o]
      /\ j.at \in {"refund", "tgRefund"} =>
           /\ j.ed <= edition[o]
           /\ j.ver = version[o] /\ j.ed = edition[o] /\ ~ j.flag
              => ~ returned[o]

\* The refunds of an order: one for each replaced generation of its items at
\* most, and one for the current generation if its flag is set.
RefundsCounted(o) ==
  /\ refunds[o] <= edition[o] + 1
  /\ ~ returned[o] => refunds[o] <= edition[o]

RefundInv ==
  /\ TypeOK
  /\ \A h \in Handler : JobRecalls(h)
  /\ \A o \in Order : RefundsCounted(o)

LEMMA InitRefundInv == Init => RefundInv
<1> SUFFICES ASSUME Init PROVE RefundInv
  OBVIOUS
<1>1. TypeOK
  BY InitTypeOK
<1>2. \A h \in Handler : JobRecalls(h)
  BY DEF Init, JobRecalls, RefundStages, Idle
<1>3. \A o \in Order : RefundsCounted(o)
  BY DEF Init, RefundsCounted
<1> QED
  BY <1>1, <1>2, <1>3 DEF RefundInv

\* What a step may do to the orders: a flag is set under a new version and
\* reset with new items.
Counts ==
  \A p \in Order :
    /\ version[p] <= version'[p]
    /\ edition[p] <= edition'[p]
    /\ version'[p] = version[p] /\ edition'[p] = edition[p]
       => returned'[p] = returned[p]

\* What becomes of handler g: it remembers what it did, or it is in no refund.
Remembers(g) ==
  \/ job'[g].at \notin RefundStages
  \/ /\ job'[g].at = job[g].at /\ job'[g].o = job[g].o
     /\ job'[g].ver = job[g].ver /\ job'[g].ed = job[g].ed
     /\ job'[g].flag = job[g].flag

LEMMA StillRecalls ==
  ASSUME TypeOK, TypeOK', Counts, NEW g \in Handler, JobRecalls(g),
         Remembers(g)
  PROVE  JobRecalls(g)'
<1>1. CASE job'[g].at \notin RefundStages
  BY <1>1 DEF JobRecalls, RefundStages
<1>2. CASE job'[g].at \in RefundStages
  <2>1. PICK p \in Order : p = job[g].o
    BY <1>2 DEF Remembers, RefundStages, TypeOK, JobTypeOK
  <2>2. /\ version[p] \in Nat /\ version'[p] \in Nat /\ edition[p] \in Nat
        /\ edition'[p] \in Nat /\ job[g].ver \in Nat /\ job[g].ed \in Nat
    BY <2>1 DEF TypeOK, TableTypeOK, JobTypeOK, Job
  <2>3. /\ version[p] <= version'[p]
        /\ edition[p] <= edition'[p]
        /\ version'[p] = version[p] /\ edition'[p] = edition[p]
           => returned'[p] = returned[p]
    BY DEF Counts
  <2> QED
    BY <1>2, <2>1, <2>2, <2>3 DEF JobRecalls, Remembers, RefundStages
<1> QED
  BY <1>1, <1>2

\* Putting a step together.
LEMMA StepCounts ==
  ASSUME RefundInv, TypeOK', Counts,
         \A g \in Handler : Remembers(g) \/ JobRecalls(g)',
         \A o \in Order : RefundsCounted(o)'
  PROVE  RefundInv'
BY StillRecalls DEF RefundInv

LEMMA FinishForgets ==
  ASSUME TypeOK, NEW h \in Handler, Finish(h)
  PROVE  \A g \in Handler : Remembers(g)
BY DEF TypeOK, JobTypeOK, Finish, Remembers, Idle, RefundStages

\* Handler h takes up a job that is no refund.
LEMMA BeginForgets ==
  ASSUME TypeOK, NEW h \in Handler, NEW j, j.at \notin RefundStages,
         Begin(h, j)
  PROVE  \A g \in Handler : Remembers(g)
BY DEF TypeOK, JobTypeOK, Begin, Remembers

LEMMA TickForgets ==
  ASSUME TypeOK, NEW h \in Handler, NEW step, Tick(h, step)
  PROVE  \A g \in Handler : Remembers(g)
<1>1. CASE job[h].todo = {step}
  BY <1>1, FinishForgets DEF Tick
<1>2. CASE job[h].todo # {step}
  <2>1. job = [g \in Handler |-> job[g]] /\ job[h] \in Job
    BY DEF TypeOK, JobTypeOK
  <2> QED
    BY <1>2, <2>1 DEF Tick, Remembers, Job
<1> QED
  BY <1>1, <1>2

\* Most steps touch nothing a refund depends on.
LEMMA QuietStep ==
  ASSUME RefundInv, TypeOK', UNCHANGED <<version, edition, returned, refunds>>,
         \A g \in Handler : Remembers(g) \/ JobRecalls(g)'
  PROVE  RefundInv'
<1>1. Counts
  BY DEF Counts, RefundInv, TypeOK, TableTypeOK
<1>2. \A o \in Order : RefundsCounted(o)'
  BY DEF RefundInv, RefundsCounted
<1> QED
  BY <1>1, <1>2, StepCounts

----------------------------------------------------------------------------
(* The two refunds *)

LEMMA StartRefundCounts ==
  ASSUME RefundInv, TypeOK', NEW h \in Handler, NEW o \in Order,
         StartRefund(h, o) \/ StartTelegramRefund(h, o)
  PROVE  RefundInv'
<1>1. UNCHANGED <<version, edition, returned, refunds>>
  BY DEF StartRefund, StartTelegramRefund, orderVars, returnVars
<1>2. job = [g \in Handler |-> job[g]] /\ version[o] \in Nat
  BY DEF RefundInv, TypeOK, JobTypeOK, TableTypeOK
<1>3. /\ \A g \in Handler \ {h} : job'[g] = job[g]
      /\ job'[h].o = o /\ job'[h].at \in {"refundRead", "tgRefundRead"}
      /\ job'[h].at = "tgRefundRead" => job'[h].ver = version[o]
  <2>1. CASE StartRefund(h, o)
    BY <2>1, <1>2 DEF StartRefund, Begin, Idle
  <2>2. CASE StartTelegramRefund(h, o)
    BY <2>2, <1>2 DEF StartTelegramRefund, Begin, Idle
  <2> QED
    BY <2>1, <2>2
<1>4. JobRecalls(h)'
  BY <1>1, <1>2, <1>3 DEF JobRecalls, RefundStages
<1>5. \A g \in Handler \ {h} : Remembers(g)
  BY <1>3 DEF Remembers
<1> QED
  BY <1>1, <1>4, <1>5, QuietStep

LEMMA RefundReadsCount ==
  ASSUME RefundInv, TypeOK', NEW h \in Handler,
         RefundReadsOrder(h) \/ TelegramRefundReadsRequest(h)
  PROVE  RefundInv'
<1>1. UNCHANGED <<version, edition, returned, refunds>>
  BY DEF RefundReadsOrder, TelegramRefundReadsRequest, orderVars, returnVars
<1>2. PICK o \in Order : o = job[h].o
  BY DEF RefundReadsOrder, TelegramRefundReadsRequest, RefundInv, TypeOK,
         JobTypeOK
<1>3. /\ job = [g \in Handler |-> job[g]] /\ job[h] \in Job
      /\ version[o] \in Nat /\ edition[o] \in Nat /\ JobRecalls(h)
  BY DEF RefundInv, TypeOK, JobTypeOK, TableTypeOK
<1>4. /\ \A g \in Handler \ {h} : job'[g] = job[g]
      /\ job'[h].o = o /\ job'[h].ed = edition[o]
      /\ job'[h].flag = returned[o]
      /\ job'[h].ver <= version[o]
  <2>1. CASE RefundReadsOrder(h)
    <3>1. job'[h] = [job[h] EXCEPT !.at = "refund", !.ver = version[o],
                                   !.ed = edition[o], !.b = basket[o],
                                   !.flag = returned[o]]
          /\ \A g \in Handler \ {h} : job'[g] = job[g]
      BY <2>1, <1>2, <1>3 DEF RefundReadsOrder, ReadItems, Begin
    <3>2. version[o] <= version[o]
      BY <1>3
    <3> QED
      BY <3>1, <3>2, <1>2, <1>3 DEF Job
  <2>2. CASE TelegramRefundReadsRequest(h)
    <3>1. job[h].ver <= version[o]
      BY <2>2, <1>2, <1>3
      DEF TelegramRefundReadsRequest, JobRecalls, RefundStages
    <3> QED
      BY <2>2, <3>1, <1>2, <1>3 DEF TelegramRefundReadsRequest, Begin, Job
  <2> QED
    BY <2>1, <2>2
<1>5. JobRecalls(h)'
  BY <1>1, <1>3, <1>4 DEF JobRecalls, RefundStages
<1>6. \A g \in Handler \ {h} : Remembers(g)
  BY <1>4 DEF Remembers
<1> QED
  BY <1>1, <1>5, <1>6, QuietStep

\* The first refund of a generation of items is the only one.
LEMMA RefundCounts ==
  ASSUME RefundInv, TypeOK', NEW h \in Handler, Refund(h)
  PROVE  RefundInv'
<1>1. PICK o \in Order : o = job[h].o
  BY DEF Refund, RefundInv, TypeOK, JobTypeOK
<1>2. /\ version' = [version EXCEPT ![o] = @ + 1]
      /\ refunds' = [refunds EXCEPT ![o] = @ + 1]
      /\ returned' = [returned EXCEPT ![o] = TRUE]
      /\ edition' = edition
      /\ Finish(h)
  BY <1>1 DEF Refund
<1>3. version \in [Order -> Nat] /\ edition \in [Order -> Nat]
      /\ refunds \in [Order -> Nat] /\ returned \in [Order -> BOOLEAN]
  BY DEF RefundInv, TypeOK, TableTypeOK
<1>4. ~ returned[o]
  BY <1>1 DEF Refund, VersionHolds, RefundInv, JobRecalls
<1>5. Counts
  <2> SUFFICES ASSUME NEW p \in Order
               PROVE  /\ version[p] <= version'[p]
                      /\ edition[p] <= edition'[p]
                      /\ version'[p] = version[p] /\ edition'[p] = edition[p]
                         => returned'[p] = returned[p]
    BY DEF Counts
  <2>1. CASE p = o
    <3>1. version'[p] = version[p] + 1 /\ edition'[p] = edition[p]
      BY <2>1, <1>2, <1>3
    <3>2. version[p] \in Nat /\ edition[p] \in Nat
      BY <1>3
    <3> QED
      BY <3>1, <3>2
  <2>2. CASE p # o
    <3>1. /\ version'[p] = version[p] /\ edition'[p] = edition[p]
          /\ returned'[p] = returned[p]
      BY <2>2, <1>2, <1>3
    <3>2. version[p] \in Nat /\ edition[p] \in Nat
      BY <1>3
    <3> QED
      BY <3>1, <3>2
  <2> QED
    BY <2>1, <2>2
<1>6. \A p \in Order : RefundsCounted(p)'
  BY <1>2, <1>3, <1>4 DEF RefundInv, RefundsCounted
<1> QED
  BY <1>2, <1>5, <1>6, FinishForgets, StepCounts DEF RefundInv

----------------------------------------------------------------------------
(* New versions and new items *)

LEMMA NewVersionCounts ==
  ASSUME RefundInv, TypeOK', NEW h \in Handler,
         UpdateStatus(h) \/ AutoComplete(h)
  PROVE  RefundInv'
<1>1. /\ version' = [version EXCEPT ![job[h].o] = @ + 1]
      /\ UNCHANGED <<edition, returned, refunds>>
      /\ Finish(h)
  BY DEF UpdateStatus, AutoComplete, returnVars
<1>2. version \in [Order -> Nat] /\ edition \in [Order -> Nat]
  BY DEF RefundInv, TypeOK, TableTypeOK
<1>3. Counts
  BY <1>1, <1>2 DEF Counts
<1>4. \A p \in Order : RefundsCounted(p)'
  BY <1>1 DEF RefundInv, RefundsCounted
<1> QED
  BY <1>1, <1>3, <1>4, FinishForgets, StepCounts DEF RefundInv

LEMMA UpdateOrderCounts ==
  ASSUME RefundInv, TypeOK', NEW h \in Handler, UpdateOrder(h)
  PROVE  RefundInv'
<1>1. PICK o \in Order : o = job[h].o
  BY DEF UpdateOrder, RefundInv, TypeOK, JobTypeOK
<1>2. /\ edition' = [edition EXCEPT ![o] = @ + 1]
      /\ returned' = [returned EXCEPT ![o] = FALSE]
      /\ UNCHANGED <<version, refunds>>
      /\ Finish(h)
  BY <1>1 DEF UpdateOrder, returnVars
<1>3. /\ version \in [Order -> Nat] /\ edition \in [Order -> Nat]
      /\ refunds \in [Order -> Nat] /\ returned \in [Order -> BOOLEAN]
  BY DEF RefundInv, TypeOK, TableTypeOK
<1>4. Counts
  <2> SUFFICES ASSUME NEW p \in Order
               PROVE  /\ version[p] <= version'[p]
                      /\ edition[p] <= edition'[p]
                      /\ version'[p] = version[p] /\ edition'[p] = edition[p]
                         => returned'[p] = returned[p]
    BY DEF Counts
  <2>1. CASE p = o
    <3>1. version'[p] = version[p] /\ edition'[p] = edition[p] + 1
      BY <2>1, <1>2, <1>3
    <3>2. version[p] \in Nat /\ edition[p] \in Nat
      BY <1>3
    <3> QED
      BY <3>1, <3>2
  <2>2. CASE p # o
    <3>1. /\ version'[p] = version[p] /\ edition'[p] = edition[p]
          /\ returned'[p] = returned[p]
      BY <2>2, <1>2, <1>3
    <3>2. version[p] \in Nat /\ edition[p] \in Nat
      BY <1>3
    <3> QED
      BY <3>1, <3>2
  <2> QED
    BY <2>1, <2>2
<1>5. \A p \in Order : RefundsCounted(p)'
  BY <1>2, <1>3 DEF RefundInv, RefundsCounted
<1> QED
  BY <1>2, <1>4, <1>5, FinishForgets, StepCounts DEF RefundInv

----------------------------------------------------------------------------
(* Everything else is quiet. *)

LEMMA QuietReads ==
  ASSUME RefundInv, TypeOK', NEW h \in Handler, NEW o \in Order,
         \/ StartUpdateStatus(h, o) \/ StartCancelMyOrder(h, o)
         \/ StartConfirmDelivery(h, o) \/ StartConfirmRemaining(h, o)
         \/ StartMarkItemAsCut(h, o) \/ StartUpdateOrder(h, o)
         \/ StartCreateReturn(h, o) \/ StartTelegramReject(h, o)
         \/ StartAutoComplete(h, o) \/ StartWebhook(h, o)
         \/ StartConfirmArrival(h, o)
  PROVE  RefundInv'
<1>1. UNCHANGED <<version, edition, returned, refunds>>
  BY DEF StartUpdateStatus, StartCancelMyOrder, StartConfirmDelivery,
         StartConfirmRemaining, StartMarkItemAsCut, StartUpdateOrder,
         StartCreateReturn, StartTelegramReject, StartAutoComplete,
         StartWebhook, StartConfirmArrival, orderVars, returnVars
<1>2. \E j : j.at \notin RefundStages /\ Begin(h, j)
  <2> USE DEF Idle, RefundStages
  <2>1. CASE StartUpdateStatus(h, o)
    BY <2>1 DEF StartUpdateStatus
  <2>2. CASE StartCancelMyOrder(h, o)
    BY <2>2 DEF StartCancelMyOrder
  <2>3. CASE StartConfirmDelivery(h, o)
    BY <2>3 DEF StartConfirmDelivery
  <2>4. CASE StartConfirmRemaining(h, o)
    BY <2>4 DEF StartConfirmRemaining
  <2>5. CASE StartMarkItemAsCut(h, o)
    BY <2>5 DEF StartMarkItemAsCut
  <2>6. CASE StartUpdateOrder(h, o)
    BY <2>6 DEF StartUpdateOrder
  <2>7. CASE StartCreateReturn(h, o)
    BY <2>7 DEF StartCreateReturn
  <2>8. CASE StartTelegramReject(h, o)
    BY <2>8 DEF StartTelegramReject
  <2>9. CASE StartAutoComplete(h, o)
    BY <2>9 DEF StartAutoComplete
  <2>10. CASE StartWebhook(h, o)
    BY <2>10 DEF StartWebhook
  <2>11. CASE StartConfirmArrival(h, o)
    BY <2>11 DEF StartConfirmArrival
  <2> QED
    BY <2>1, <2>2, <2>3, <2>4, <2>5, <2>6, <2>7, <2>8, <2>9, <2>10, <2>11
<1> QED
  BY <1>1, <1>2, BeginForgets, QuietStep DEF RefundInv

LEMMA QuietHandlers ==
  ASSUME RefundInv, TypeOK', NEW h \in Handler,
         \/ StartExpireReservations(h) \/ AutoCompleteReads(h)
         \/ WebhookMarks(h) \/ WebhookReads(h)
  PROVE  RefundInv'
<1>1. UNCHANGED <<version, edition, returned, refunds>>
  BY DEF StartExpireReservations, AutoCompleteReads, WebhookMarks,
         WebhookReads, orderVars, returnVars
<1>2. \E j : j.at \notin RefundStages /\ Begin(h, j)
  <2>0. job[h] \in Job
    BY DEF RefundInv, TypeOK, JobTypeOK
  <2> USE <2>0 DEF Idle, RefundStages, Job
  <2>1. CASE StartExpireReservations(h)
    BY <2>1 DEF StartExpireReservations
  <2>2. CASE AutoCompleteReads(h)
    BY <2>2 DEF AutoCompleteReads
  <2>3. CASE WebhookMarks(h)
    BY <2>3 DEF WebhookMarks
  <2>4. CASE WebhookReads(h)
    BY <2>4 DEF WebhookReads
  <2> QED
    BY <2>1, <2>2, <2>3, <2>4
<1> QED
  BY <1>1, <1>2, BeginForgets, QuietStep DEF RefundInv

LEMMA QuietWrites ==
  ASSUME RefundInv, TypeOK', NEW h \in Handler,
         \/ CancelMyOrder(h) \/ RequestCancel(h) \/ ConfirmSold(h)
         \/ ConfirmAllocation(h) \/ ConfirmOrder(h) \/ ConfirmRemaining(h)
         \/ MarkItemAsCut(h) \/ CreateReturnRequest(h) \/ TelegramReject(h)
         \/ WebhookPays(h) \/ ConfirmArrival(h) \/ ExpireReservations(h)
         \/ Abandon(h)
  PROVE  RefundInv'
<1>1. UNCHANGED <<version, edition, returned, refunds>>
  BY DEF CancelMyOrder, RequestCancel, ConfirmSold, ConfirmAllocation,
         ConfirmOrder, ConfirmRemaining, MarkItemAsCut, CreateReturnRequest,
         TelegramReject, WebhookPays, ConfirmArrival, ExpireReservations,
         Abandon, orderVars, returnVars
<1>2. Finish(h) \/ \E step : Tick(h, step)
  BY DEF CancelMyOrder, RequestCancel, ConfirmSold, ConfirmAllocation,
         ConfirmOrder, ConfirmRemaining, MarkItemAsCut, CreateReturnRequest,
         TelegramReject, WebhookPays, ConfirmArrival, ExpireReservations,
         Abandon
<1> QED
  BY <1>1, <1>2, FinishForgets, TickForgets, QuietStep DEF RefundInv

LEMMA QuietSteps ==
  ASSUME RefundInv, TypeOK',
         \/ \E o \in Order : \/ Create(o) \/ ReturnWindowCloses(o)
                           \/ OrderAges(o) \/ RejectReturn(o)
                           \/ CourierDelivered(o)
         \/ UNCHANGED vars
  PROVE  RefundInv'
<1>1. UNCHANGED <<version, edition, returned, refunds, job>>
  BY DEF Create, ReturnWindowCloses, OrderAges, RejectReturn,
         CourierDelivered, vars, orderVars, returnVars
<1>2. \A g \in Handler : Remembers(g)
  BY <1>1 DEF Remembers
<1> QED
  BY <1>1, <1>2, QuietStep

\* RefundInv is inductive.
LEMMA NextRefundInv ==
  ASSUME RefundInv, [Next]_vars
  PROVE  RefundInv'
<1>1. TypeOK'
  BY NextType DEF RefundInv
<1>2. CASE OrderNext
  BY <1>1, <1>2, QuietReads, QuietWrites, QuietSteps, NewVersionCounts,
     UpdateOrderCounts
  DEF OrderNext
<1>3. CASE ReturnNext
  BY <1>1, <1>3, QuietReads, QuietHandlers, QuietWrites, QuietSteps,
     StartRefundCounts, RefundReadsCount, RefundCounts, NewVersionCounts
  DEF ReturnNext
<1>4. CASE ShopNext
  BY <1>1, <1>4, QuietReads, QuietHandlers, QuietWrites, QuietSteps
  DEF ShopNext
<1>5. CASE UNCHANGED vars
  BY <1>1, <1>5, QuietSteps
<1> QED
  BY <1>2, <1>3, <1>4, <1>5 DEF Next

\* Whatever operations are in use and however they interleave, an order is
\* refunded at most once for each generation of its items.
THEOREM NoDoubleRefund == Spec => []RefundOncePerEdition
<1>1. RefundInv => RefundOncePerEdition
  BY DEF RefundInv, RefundsCounted, RefundOncePerEdition
<1> QED
  BY InitRefundInv, NextRefundInv, <1>1, PTL DEF Spec

----------------------------------------------------------------------------
(* Decided requests *)

\* Steps that write neither requests nor refunds.
LEMMA OrdersDecideNothing ==
  ASSUME OrderNext \/ ShopNext
  PROVE  UNCHANGED <<request, refunds>>
<1>1. CASE OrderNext
  <2>1. ASSUME NEW h \in Handler, NEW o \in Order,
               \/ StartUpdateStatus(h, o) \/ StartCancelMyOrder(h, o)
               \/ StartConfirmDelivery(h, o) \/ StartConfirmRemaining(h, o)
               \/ StartMarkItemAsCut(h, o) \/ StartUpdateOrder(h, o)
        PROVE  UNCHANGED returnVars
    BY <2>1, ZenonT(60) DEF StartUpdateStatus, StartCancelMyOrder, StartConfirmDelivery,
                StartConfirmRemaining, StartMarkItemAsCut, StartUpdateOrder
  <2>2. ASSUME NEW h \in Handler,
               \/ UpdateStatus(h) \/ CancelMyOrder(h) \/ RequestCancel(h)
               \/ ConfirmSold(h) \/ ConfirmAllocation(h) \/ ConfirmOrder(h)
               \/ ConfirmRemaining(h) \/ MarkItemAsCut(h) \/ UpdateOrder(h)
               \/ Abandon(h)
        PROVE  UNCHANGED returnVars
    BY <2>2 DEF UpdateStatus, CancelMyOrder, RequestCancel, ConfirmSold,
                ConfirmAllocation, ConfirmOrder, ConfirmRemaining,
                MarkItemAsCut, UpdateOrder, Abandon
  <2>3. ASSUME NEW o \in Order,
               Create(o) \/ ReturnWindowCloses(o) \/ OrderAges(o)
        PROVE  UNCHANGED returnVars
    BY <2>3 DEF Create, ReturnWindowCloses, OrderAges
  <2> QED
    BY <1>1, <2>1, <2>2, <2>3 DEF OrderNext, returnVars
<1>2. CASE ShopNext
  <2>1. UNCHANGED returnVars
    BY <1>2 DEF ShopNext, CourierDelivered, StartWebhook, StartConfirmArrival,
                WebhookMarks, WebhookReads, WebhookPays, ConfirmArrival,
                StartExpireReservations, ExpireReservations
  <2> QED
    BY <2>1, SMTT(60) DEF returnVars
<1> QED
  BY <1>1, <1>2

\* RefundIsDecided is inductive by itself: a new request needs that there is
\* none, and an order without a request was never refunded.
LEMMA NextDecided ==
  ASSUME TypeOK, RefundIsDecided, [Next]_vars
  PROVE  RefundIsDecided'
<1>0. request \in [Order -> RequestStatus \cup {"NONE"}]
      /\ refunds \in [Order -> Nat]
  BY DEF TypeOK, TableTypeOK
<1>1. CASE UNCHANGED <<request, refunds>>
  BY <1>1 DEF RefundIsDecided, Decided
<1>2. ASSUME NEW h \in Handler, CreateReturnRequest(h)
      PROVE  RefundIsDecided'
  BY <1>0, <1>2 DEF CreateReturnRequest, RefundIsDecided, Decided
<1>3. ASSUME NEW h \in Handler, Refund(h)
      PROVE  RefundIsDecided'
  <2>1. /\ request' = [request EXCEPT ![job[h].o] = "RETURN_APPROVED"]
        /\ refunds' = [refunds EXCEPT ![job[h].o] = @ + 1]
    BY <1>3 DEF Refund
  <2> QED
    BY <1>0, <2>1 DEF RefundIsDecided, Decided
<1>4. ASSUME NEW h \in Handler, TelegramReject(h)
      PROVE  RefundIsDecided'
  BY <1>0, <1>4 DEF TelegramReject, RefundIsDecided, Decided
<1>5. ASSUME NEW o \in Order, RejectReturn(o)
      PROVE  RefundIsDecided'
  BY <1>0, <1>5 DEF RejectReturn, RefundIsDecided, Decided
<1>6. CASE ReturnNext
  <2>1. ASSUME NEW h \in Handler, NEW o \in Order,
               \/ StartCreateReturn(h, o) \/ StartRefund(h, o)
               \/ StartTelegramRefund(h, o) \/ StartTelegramReject(h, o)
               \/ StartAutoComplete(h, o)
        PROVE  UNCHANGED <<request, refunds>>
    BY <2>1 DEF StartCreateReturn, StartRefund, StartTelegramRefund,
                StartTelegramReject, StartAutoComplete, returnVars
  <2>2. ASSUME NEW h \in Handler,
               \/ RefundReadsOrder(h) \/ TelegramRefundReadsRequest(h)
               \/ AutoCompleteReads(h) \/ AutoComplete(h)
        PROVE  UNCHANGED <<request, refunds>>
    BY <2>2 DEF RefundReadsOrder, TelegramRefundReadsRequest,
                AutoCompleteReads, AutoComplete, returnVars
  <2> QED
    BY <1>1, <1>2, <1>3, <1>4, <1>5, <1>6, <2>1, <2>2 DEF ReturnNext
<1>7. CASE UNCHANGED vars
  BY <1>1, <1>7 DEF vars, returnVars
<1> QED
  BY <1>1, <1>6, <1>7, OrdersDecideNothing DEF Next

\* Whatever operations are in use, a request whose refund was given is decided
\* and stays so: neither a second request nor a late decision reopens it.
THEOREM RefundsStayDecided == Spec => []RefundIsDecided
<1>1. Init => TypeOK /\ RefundIsDecided
  BY InitTypeOK DEF Init, RefundIsDecided
<1>2. TypeOK /\ RefundIsDecided /\ [Next]_vars => (TypeOK /\ RefundIsDecided)'
  BY NextType, NextDecided
<1> QED
  BY <1>1, <1>2, PTL DEF Spec

----------------------------------------------------------------------------
(* Paid and remaining *)

\* What MoneyAddsUp needs: no two requests at a time, so that a callback finds
\* what it read (WebhookTwice shows the other case), no administrator who
\* confirms the rest while a deposit is on its way, and no cart cheaper than
\* the deposit (calculateDepositDetails caps the deposit at the total).
PaymentsInTurn ==
  /\ \A g, h \in Handler \ Cron : g = h
  /\ "confirmRemaining" \notin Ops
  /\ \A b \in Baskets : Deposit <= Total(b)

WebhookStages == {"webhookMark", "webhookRead", "webhookPay"}

\* Nothing was paid for o, and the deposit is still to come.
Owes(o) == pay[o].paid = 0 /\ pay[o].rest >= Deposit

JobPays(h) ==
  LET j == job[h]
      o == j.o
  IN  /\ j.at # "confirmRemaining"
      /\ j.at = "updateStatus" => j.to # "NONE"
      /\ j.at \in WebhookStages \cup {"updateOrder"} => h \notin Cron
      /\ j.at = "webhookMark" => ~ j.flag
      /\ j.at \in {"webhookMark", "webhookRead"} => Exists(o) /\ Owes(o)
      /\ j.at = "webhookRead" => payTx[o] = "SUCCESS"
      /\ j.at = "webhookPay" /\ j.flag =>
           /\ Exists(o) /\ Owes(o)
           /\ j.rest = pay[o].rest
           /\ payTx[o] = "SUCCESS"

OrderPays(o) ==
  /\ pay[o].paid + pay[o].rest = Total(basket[o])
  /\ payTx[o] \in {"PENDING", "FAILED"} => Owes(o)

MoneyInv ==
  /\ TypeOK
  /\ \A h \in Handler : JobPays(h)
  /\ \A o \in Order : OrderPays(o)

\* Stages in which nothing about money is remembered.
Moneyless ==
  (Stage \cup {"idle"}) \ (WebhookStages \cup
                          {"confirmRemaining", "updateStatus", "updateOrder"})

\* Handler g does what it did, or nothing about money.
Carries(g) ==
  \/ job'[g].at \in Moneyless
  \/ /\ job'[g].at = job[g].at /\ job'[g].o = job[g].o
     /\ job'[g].to = job[g].to /\ job'[g].flag = job[g].flag
     /\ job'[g].rest = job[g].rest

LEMMA InitMoneyInv == Init => MoneyInv
<1> SUFFICES ASSUME Init PROVE MoneyInv
  OBVIOUS
<1>1. TypeOK
  BY InitTypeOK
<1>2. \A h \in Handler : JobPays(h)
  BY DEF Init, JobPays, WebhookStages, Idle
<1>3. \A o \in Order : OrderPays(o)
  BY DEF Init, OrderPays, Total, NoBasket
<1> QED
  BY <1>1, <1>2, <1>3 DEF MoneyInv

\* Most steps touch no money and lose no order.
LEMMA MoneyStays ==
  ASSUME MoneyInv, TypeOK', UNCHANGED <<pay, payTx, basket>>,
         \A o \in Order : Exists(o) => Exists(o)',
         \A g \in Handler : Carries(g) \/ JobPays(g)'
  PROVE  MoneyInv'
<1>1. \A o \in Order : OrderPays(o)'
  BY DEF MoneyInv, OrderPays, Owes
<1>2. ASSUME NEW g \in Handler, Carries(g) PROVE JobPays(g)'
  <2>1. CASE job'[g].at \in Moneyless
    BY <2>1 DEF JobPays, Moneyless, WebhookStages
  <2>2. CASE job'[g].at \notin Moneyless
    <3>1. /\ job'[g].at = job[g].at /\ job'[g].o = job[g].o
          /\ job'[g].to = job[g].to /\ job'[g].flag = job[g].flag
          /\ job'[g].rest = job[g].rest
      BY <1>2, <2>2 DEF Carries
    <3>2. job[g].at \in WebhookStages => job[g].o \in Order
      BY DEF MoneyInv, TypeOK, JobTypeOK, WebhookStages
    <3> QED
      BY <3>1, <3>2 DEF MoneyInv, JobPays, Owes, WebhookStages
  <2> QED
    BY <2>1, <2>2
<1> QED
  BY <1>1, <1>2 DEF MoneyInv

LEMMA FinishCarries ==
  ASSUME TypeOK, NEW h \in Handler, Finish(h)
  PROVE  \A g \in Handler : Carries(g)
BY DEF TypeOK, JobTypeOK, Finish, Carries, Idle, Moneyless, WebhookStages

LEMMA BeginCarries ==
  ASSUME TypeOK, NEW h \in Handler, NEW j, j.at \in Moneyless, Begin(h, j)
  PROVE  \A g \in Handler : Carries(g)
BY DEF TypeOK, JobTypeOK, Begin, Carries

LEMMA TickCarries ==
  ASSUME TypeOK, NEW h \in Handler, NEW step, Tick(h, step)
  PROVE  \A g \in Handler : Carries(g)
<1>1. CASE job[h].todo = {step}
  BY <1>1, FinishCarries DEF Tick
<1>2. CASE job[h].todo # {step}
  <2>1. job = [g \in Handler |-> job[g]] /\ job[h] \in Job
    BY DEF TypeOK, JobTypeOK
  <2> QED
    BY <1>2, <2>1 DEF Tick, Carries, Job
<1> QED
  BY <1>1, <1>2

\* All reads but those of the callbacks.
LEMMA ReadsPay ==
  ASSUME MoneyInv, TypeOK', PaymentsInTurn, NEW h \in Handler, NEW o \in Order,
         \/ StartUpdateStatus(h, o) \/ StartCancelMyOrder(h, o)
         \/ StartConfirmDelivery(h, o) \/ StartConfirmRemaining(h, o)
         \/ StartMarkItemAsCut(h, o) \/ StartUpdateOrder(h, o)
         \/ StartCreateReturn(h, o) \/ StartRefund(h, o)
         \/ StartTelegramRefund(h, o) \/ StartTelegramReject(h, o)
         \/ StartAutoComplete(h, o) \/ StartConfirmArrival(h, o)
  PROVE  MoneyInv'
<1>1. UNCHANGED <<pay, payTx, basket, status>>
  BY DEF StartUpdateStatus, StartCancelMyOrder, StartConfirmDelivery,
         StartConfirmRemaining, StartMarkItemAsCut, StartUpdateOrder,
         StartCreateReturn, StartRefund, StartTelegramRefund,
         StartTelegramReject, StartAutoComplete, StartConfirmArrival,
         orderVars
<1>2. \A p \in Order : Exists(p) => Exists(p)'
  BY <1>1 DEF Exists
<1>3. job = [g \in Handler |-> job[g]]
  BY DEF MoneyInv, TypeOK, JobTypeOK
<1>4. CASE StartUpdateStatus(h, o)
  <2>1. PICK to \in Requestable(status[o]) :
          Begin(h, [Idle EXCEPT !.at = "updateStatus", !.o = o, !.to = to,
                                !.ver = version[o], !.win = window[o]])
    BY <1>4 DEF StartUpdateStatus
  <2>2. to \in OrderStatus
    BY DEF Requestable
  <2>3. job'[h].at = "updateStatus" /\ job'[h].to # "NONE"
    BY <1>3, <2>1, <2>2 DEF Begin, Idle, OrderStatus
  <2>4. JobPays(h)'
    BY <2>3 DEF JobPays, WebhookStages
  <2>5. \A g \in Handler \ {h} : Carries(g)
    BY <1>3, <2>1 DEF Begin, Carries
  <2> QED
    BY <1>1, <1>2, <2>4, <2>5, MoneyStays
<1>5. CASE StartUpdateOrder(h, o)
  <2>1. h \notin Cron /\ job'[h].at = "updateOrder"
    BY <1>3, <1>5 DEF StartUpdateOrder, Arrives, Begin, Idle
  <2>2. JobPays(h)'
    BY <2>1 DEF JobPays, WebhookStages
  <2>3. \A g \in Handler \ {h} : Carries(g)
    BY <1>3, <1>5 DEF StartUpdateOrder, Begin, Carries
  <2> QED
    BY <1>1, <1>2, <2>2, <2>3, MoneyStays
<1>6. CASE ~ StartUpdateStatus(h, o) /\ ~ StartUpdateOrder(h, o)
  <2>1. \E j : j.at \in Moneyless /\ Begin(h, j)
    <3> USE DEF Idle, Moneyless, Stage, WebhookStages
    <3>1. CASE StartCancelMyOrder(h, o)
      BY <3>1 DEF StartCancelMyOrder
    <3>2. CASE StartConfirmDelivery(h, o)
      BY <3>2 DEF StartConfirmDelivery
    <3>3. ~ StartConfirmRemaining(h, o)
      BY DEF StartConfirmRemaining, Arrives, PaymentsInTurn
    <3>4. CASE StartMarkItemAsCut(h, o)
      BY <3>4 DEF StartMarkItemAsCut
    <3>5. CASE StartCreateReturn(h, o)
      BY <3>5 DEF StartCreateReturn
    <3>6. CASE StartRefund(h, o)
      BY <3>6 DEF StartRefund
    <3>7. CASE StartTelegramRefund(h, o)
      BY <3>7 DEF StartTelegramRefund
    <3>8. CASE StartTelegramReject(h, o)
      BY <3>8 DEF StartTelegramReject
    <3>9. CASE StartAutoComplete(h, o)
      BY <3>9 DEF StartAutoComplete
    <3>10. CASE StartConfirmArrival(h, o)
      BY <3>10 DEF StartConfirmArrival
    <3> QED
      BY <1>6, <3>1, <3>2, <3>3, <3>4, <3>5, <3>6, <3>7, <3>8, <3>9, <3>10
  <2> QED
    BY <1>1, <1>2, <2>1, BeginCarries, MoneyStays DEF MoneyInv
<1> QED
  BY <1>4, <1>5, <1>6

LEMMA LaterReadsPay ==
  ASSUME MoneyInv, TypeOK', NEW h \in Handler,
         \/ RefundReadsOrder(h) \/ TelegramRefundReadsRequest(h)
         \/ AutoCompleteReads(h) \/ StartExpireReservations(h)
  PROVE  MoneyInv'
<1>1. UNCHANGED <<pay, payTx, basket, status>>
  BY DEF RefundReadsOrder, TelegramRefundReadsRequest, AutoCompleteReads,
         StartExpireReservations, orderVars
<1>2. \A p \in Order : Exists(p) => Exists(p)'
  BY <1>1 DEF Exists
<1>3. \E j : j.at \in Moneyless /\ Begin(h, j)
  <2>0. job[h] \in Job
    BY DEF MoneyInv, TypeOK, JobTypeOK
  <2> USE <2>0 DEF Idle, Moneyless, Stage, WebhookStages, Job
  <2>1. CASE RefundReadsOrder(h)
    BY <2>1 DEF RefundReadsOrder, ReadItems
  <2>2. CASE TelegramRefundReadsRequest(h)
    BY <2>2 DEF TelegramRefundReadsRequest
  <2>3. CASE AutoCompleteReads(h)
    BY <2>3 DEF AutoCompleteReads
  <2>4. CASE StartExpireReservations(h)
    BY <2>4 DEF StartExpireReservations
  <2> QED
    BY <2>1, <2>2, <2>3, <2>4
<1> QED
  BY <1>1, <1>2, <1>3, BeginCarries, MoneyStays DEF MoneyInv

\* An order that is written still exists.
LEMMA WritesKeepOrders ==
  ASSUME MoneyInv, NEW h \in Handler,
         \/ UpdateStatus(h) \/ CancelMyOrder(h) \/ RequestCancel(h)
         \/ ConfirmOrder(h) \/ CreateReturnRequest(h) \/ Refund(h)
         \/ TelegramReject(h) \/ AutoComplete(h) \/ ConfirmArrival(h)
  PROVE  \A p \in Order : Exists(p) => Exists(p)'
<1>1. \E o, s : s # "NONE" /\ status' = [status EXCEPT ![o] = s]
  <2>1. CASE UpdateStatus(h)
    <3>1. job[h].to # "NONE"
      BY <2>1 DEF UpdateStatus, MoneyInv, JobPays
    <3> QED
      BY <2>1, <3>1 DEF UpdateStatus
  <2>2. CASE CancelMyOrder(h)
    BY <2>2 DEF CancelMyOrder
  <2>3. CASE RequestCancel(h)
    BY <2>3 DEF RequestCancel
  <2>4. CASE ConfirmOrder(h)
    BY <2>4 DEF ConfirmOrder
  <2>5. CASE CreateReturnRequest(h)
    BY <2>5 DEF CreateReturnRequest
  <2>6. CASE Refund(h)
    BY <2>6 DEF Refund
  <2>7. CASE TelegramReject(h)
    BY <2>7 DEF TelegramReject
  <2>8. CASE AutoComplete(h)
    BY <2>8 DEF AutoComplete
  <2>9. CASE ConfirmArrival(h)
    BY <2>9 DEF ConfirmArrival
  <2> QED
    BY <2>1, <2>2, <2>3, <2>4, <2>5, <2>6, <2>7, <2>8, <2>9
<1>2. status \in [Order -> OrderStatus \cup {"NONE"}]
  BY DEF MoneyInv, TypeOK, TableTypeOK
<1> QED
  BY <1>1, <1>2 DEF Exists

\* All writes that are no payment.
LEMMA WritesPay ==
  ASSUME MoneyInv, TypeOK', NEW h \in Handler,
         \/ UpdateStatus(h) \/ CancelMyOrder(h) \/ RequestCancel(h)
         \/ ConfirmSold(h) \/ ConfirmAllocation(h) \/ ConfirmOrder(h)
         \/ MarkItemAsCut(h) \/ Abandon(h) \/ CreateReturnRequest(h)
         \/ Refund(h) \/ TelegramReject(h) \/ AutoComplete(h)
         \/ ConfirmArrival(h) \/ ExpireReservations(h)
  PROVE  MoneyInv'
<1>1. UNCHANGED <<pay, payTx, basket>>
  BY DEF UpdateStatus, CancelMyOrder, RequestCancel, ConfirmSold,
         ConfirmAllocation, ConfirmOrder, MarkItemAsCut, Abandon,
         CreateReturnRequest, Refund, TelegramReject, AutoComplete,
         ConfirmArrival, ExpireReservations, orderVars
<1>2. Finish(h) \/ \E step : Tick(h, step)
  BY DEF UpdateStatus, CancelMyOrder, RequestCancel, ConfirmSold,
         ConfirmAllocation, ConfirmOrder, MarkItemAsCut, Abandon,
         CreateReturnRequest, Refund, TelegramReject, AutoComplete,
         ConfirmArrival, ExpireReservations
<1>3. \A p \in Order : Exists(p) => Exists(p)'
  <2>1. ASSUME \/ ConfirmSold(h) \/ ConfirmAllocation(h) \/ MarkItemAsCut(h)
               \/ Abandon(h) \/ ExpireReservations(h)
        PROVE  status' = status
    BY <2>1 DEF ConfirmSold, ConfirmAllocation, MarkItemAsCut, Abandon,
                ExpireReservations, orderVars
  <2> QED
    BY <2>1, WritesKeepOrders DEF Exists
<1>4. \A g \in Handler : Carries(g)
  BY <1>2, FinishCarries, TickCarries DEF MoneyInv
<1> QED
  BY <1>1, <1>3, <1>4, MoneyStays, SMTT(60)

LEMMA DaysPay ==
  ASSUME MoneyInv, TypeOK',
         \/ \E o \in Order : \/ ReturnWindowCloses(o) \/ OrderAges(o)
                           \/ RejectReturn(o) \/ CourierDelivered(o)
         \/ UNCHANGED vars
  PROVE  MoneyInv'
<1>1. UNCHANGED <<pay, payTx, basket, job>>
  BY DEF ReturnWindowCloses, OrderAges, RejectReturn, CourierDelivered, vars,
         orderVars
<1>2. \/ status' = status
      \/ \E o \in Order : status' = [status EXCEPT ![o] = "COMPLETED"]
  BY DEF ReturnWindowCloses, OrderAges, RejectReturn, CourierDelivered, vars,
         orderVars
<1>3. \A p \in Order : Exists(p) => Exists(p)'
  BY <1>2 DEF Exists, MoneyInv, TypeOK, TableTypeOK
<1>4. \A g \in Handler : Carries(g)
  BY <1>1 DEF Carries
<1> QED
  BY <1>1, <1>3, <1>4, MoneyStays

----------------------------------------------------------------------------
(* Steps that write money: one order at a time. *)

\* Putting such a step together: nobody else is in the middle of a payment of
\* the order.
LEMMA MoneyMoves ==
  ASSUME MoneyInv, TypeOK', NEW o \in Order, OrderPays(o)',
         \A p \in Order \ {o} : /\ pay'[p] = pay[p] /\ payTx'[p] = payTx[p]
                               /\ basket'[p] = basket[p],
         \A p \in Order : Exists(p) => Exists(p)',
         \A g \in Handler :
           \/ JobPays(g)'
           \/ job'[g] = job[g] /\ ~ (job[g].at \in WebhookStages
                                    /\ job[g].o = o)
  PROVE  MoneyInv'
<1>1. \A p \in Order : OrderPays(p)'
  BY DEF MoneyInv, OrderPays, Owes
<1>2. ASSUME NEW g \in Handler, job'[g] = job[g],
             ~ (job[g].at \in WebhookStages /\ job[g].o = o)
      PROVE  JobPays(g)'
  <2>1. job[g].at \in WebhookStages => job[g].o \in Order \ {o}
    BY <1>2 DEF MoneyInv, TypeOK, JobTypeOK, WebhookStages
  <2> QED
    BY <1>2, <2>1 DEF MoneyInv, JobPays, Owes, WebhookStages
<1> QED
  BY <1>1, <1>2 DEF MoneyInv

LEMMA CreatePays ==
  ASSUME MoneyInv, TypeOK', PaymentsInTurn, NEW o \in Order, Create(o)
  PROVE  MoneyInv'
<1>1. PICK b \in Baskets, online \in Methods :
        /\ basket' = [basket EXCEPT ![o] = b]
        /\ pay' = [pay EXCEPT ![o] = InitialPayment(b, online)]
        /\ payTx' = [payTx EXCEPT ![o] = IF online THEN "PENDING" ELSE "NONE"]
  BY DEF Create
<1>2. /\ status[o] = "NONE" /\ status' = [status EXCEPT ![o] = "PENDING"]
      /\ job' = job
  BY DEF Create
<1>3. b \in [qty : Nat, len : Nat]
  BY BasketsAssumption
<1>4. Total(b) \in Nat /\ Deposit <= Total(b) /\ Deposit \in Nat
  BY <1>3 DEF Total, PaymentsInTurn, Deposit
<1>5. /\ basket'[o] = b /\ pay'[o] = InitialPayment(b, online)
      /\ \A p \in Order \ {o} : /\ pay'[p] = pay[p] /\ payTx'[p] = payTx[p]
                               /\ basket'[p] = basket[p]
  BY <1>1 DEF MoneyInv, TypeOK, TableTypeOK
<1>6. pay'[o].paid = 0 /\ pay'[o].rest = Total(b)
  BY <1>5 DEF InitialPayment
<1>7. OrderPays(o)'
  BY <1>4, <1>5, <1>6 DEF OrderPays, Owes
<1>8. \A p \in Order : Exists(p) => Exists(p)'
  BY <1>2 DEF Exists, MoneyInv, TypeOK, TableTypeOK
<1>9. \A g \in Handler : JobPays(g)' \/
        (job'[g] = job[g] /\ ~ (job[g].at \in WebhookStages /\ job[g].o = o))
  <2> SUFFICES ASSUME NEW g \in Handler, job[g].at \in WebhookStages,
                      job[g].o = o
               PROVE  JobPays(g)'
    BY <1>2
  <2>1. job[g].at = "webhookPay" /\ ~ job[g].flag
    BY <1>2 DEF MoneyInv, JobPays, Exists, WebhookStages
  <2> QED
    BY <1>2, <2>1 DEF MoneyInv, JobPays, WebhookStages
<1> QED
  BY <1>5, <1>7, <1>8, <1>9, MoneyMoves

\* The handler that edits an order is the only one.
LEMMA UpdateOrderPays ==
  ASSUME MoneyInv, TypeOK', PaymentsInTurn, NEW h \in Handler, UpdateOrder(h)
  PROVE  MoneyInv'
<1>1. PICK o \in Order : o = job[h].o
  BY SMTT(60) DEF UpdateOrder, MoneyInv, TypeOK, JobTypeOK
<1>2. PICK b \in Baskets :
        /\ basket' = [basket EXCEPT ![o] = b]
        /\ pay' = [pay EXCEPT ![o].paid = 0, ![o].rest = Total(b)]
  BY <1>1 DEF UpdateOrder
<1>3. UNCHANGED <<status, payTx>> /\ Finish(h) /\ job[h].at = "updateOrder"
  BY DEF UpdateOrder
<1>4. b \in [qty : Nat, len : Nat]
  BY BasketsAssumption
<1>5. Total(b) \in Nat /\ Deposit <= Total(b) /\ Deposit \in Nat
  BY <1>4 DEF Total, PaymentsInTurn, Deposit
<1>6. /\ basket'[o] = b /\ pay'[o] = [pay[o] EXCEPT !.paid = 0, !.rest = Total(b)]
      /\ pay[o] \in [paid : Nat, rest : Nat, st : PaymentStatus]
      /\ \A p \in Order \ {o} : /\ pay'[p] = pay[p] /\ payTx'[p] = payTx[p]
                               /\ basket'[p] = basket[p]
  BY <1>2, <1>3 DEF MoneyInv, TypeOK, TableTypeOK
<1>7. pay'[o].paid = 0 /\ pay'[o].rest = Total(b)
  BY <1>6
<1>8. OrderPays(o)'
  BY <1>5, <1>6, <1>7 DEF OrderPays, Owes
<1>9. \A g \in Handler : Carries(g) /\ (g # h => job'[g] = job[g])
  BY <1>3, FinishCarries DEF MoneyInv, TypeOK, JobTypeOK, Finish
<1>10. job'[h].at = "idle"
  BY <1>3 DEF MoneyInv, TypeOK, JobTypeOK, Finish, Idle
<1>11. JobPays(h)'
  BY <1>10 DEF JobPays, WebhookStages
<1>12. \A g \in Handler \ {h} : job[g].at \notin WebhookStages
  BY <1>3 DEF PaymentsInTurn, MoneyInv, JobPays
<1> QED
  BY <1>3, <1>6, <1>8, <1>9, <1>11, <1>12, MoneyMoves DEF Exists

----------------------------------------------------------------------------
(* The payment callbacks *)

LEMMA StartWebhookPays ==
  ASSUME MoneyInv, TypeOK', NEW h \in Handler, NEW o \in Order,
         StartWebhook(h, o)
  PROVE  MoneyInv'
<1>1. /\ UNCHANGED <<pay, payTx, basket, status>>
      /\ h \notin Cron /\ Exists(o) /\ payTx[o] \in {"PENDING", "FAILED"}
  BY DEF StartWebhook, orderVars, Arrives
<1>2. /\ job'[h].at = "webhookMark" /\ job'[h].o = o
      /\ \A g \in Handler \ {h} : job'[g] = job[g]
      /\ ~ job'[h].flag
  BY DEF StartWebhook, Begin, Idle, MoneyInv, TypeOK, JobTypeOK
<1>3. Owes(o)
  BY <1>1 DEF MoneyInv, OrderPays
<1>4. JobPays(h)'
  BY <1>1, <1>2, <1>3 DEF JobPays, Owes, Exists, WebhookStages
<1> QED
  BY <1>1, <1>2, <1>4, MoneyStays DEF Carries, Exists

LEMMA WebhookMarksPays ==
  ASSUME MoneyInv, TypeOK', PaymentsInTurn, NEW h \in Handler, WebhookMarks(h)
  PROVE  MoneyInv'
<1>1. PICK o \in Order : o = job[h].o
  BY DEF WebhookMarks, MoneyInv, TypeOK, JobTypeOK
<1>2. PICK ok \in BOOLEAN :
        /\ payTx' = [payTx EXCEPT ![o] = IF ok THEN "SUCCESS" ELSE "FAILED"]
        /\ Begin(h, [job[h] EXCEPT !.at = IF ok THEN "webhookRead"
                                          ELSE "webhookPay"])
  BY <1>1 DEF WebhookMarks
<1>3. UNCHANGED <<pay, basket, status>> /\ job[h].at = "webhookMark"
  BY DEF WebhookMarks
<1>4. h \notin Cron /\ Exists(o) /\ Owes(o)
  BY <1>1, <1>3 DEF MoneyInv, JobPays, WebhookStages
<1>5. /\ job[h] \in Job
      /\ job'[h] = [job[h] EXCEPT !.at = IF ok THEN "webhookRead"
                                         ELSE "webhookPay"]
      /\ \A g \in Handler \ {h} : job'[g] = job[g]
  BY <1>2 DEF Begin, MoneyInv, TypeOK, JobTypeOK
<1>6. /\ job'[h].at = IF ok THEN "webhookRead" ELSE "webhookPay"
      /\ job'[h].o = o /\ job'[h].flag = job[h].flag
  BY <1>1, <1>5 DEF Job
<1>7. /\ payTx'[o] = IF ok THEN "SUCCESS" ELSE "FAILED"
      /\ \A p \in Order \ {o} : payTx'[p] = payTx[p]
  BY <1>2 DEF MoneyInv, TypeOK, TableTypeOK
<1>8. OrderPays(o)'
  BY <1>3, <1>4 DEF MoneyInv, OrderPays, Owes
<1>9. JobPays(h)'
  <2>1. ~ job[h].flag
    BY <1>3 DEF MoneyInv, JobPays
  <2> QED
    BY <2>1, <1>3, <1>4, <1>6, <1>7 DEF JobPays, Owes, Exists, WebhookStages
<1>10. \A g \in Handler \ {h} : job[g].at \notin WebhookStages
  BY <1>4 DEF PaymentsInTurn, MoneyInv, JobPays
<1> QED
  BY <1>3, <1>5, <1>7, <1>8, <1>9, <1>10, MoneyMoves DEF Exists

LEMMA WebhookReadsPays ==
  ASSUME MoneyInv, TypeOK', NEW h \in Handler, WebhookReads(h)
  PROVE  MoneyInv'
<1>1. PICK o \in Order : o = job[h].o
  BY DEF WebhookReads, MoneyInv, TypeOK, JobTypeOK
<1>2. /\ UNCHANGED <<pay, payTx, basket, status>>
      /\ job[h].at = "webhookRead"
  BY DEF WebhookReads, orderVars
<1>3. h \notin Cron /\ Exists(o) /\ Owes(o) /\ payTx[o] = "SUCCESS"
  BY <1>1, <1>2 DEF MoneyInv, JobPays, WebhookStages
<1>4. /\ job[h] \in Job
      /\ job'[h] = [job[h] EXCEPT !.at = "webhookPay", !.flag = TRUE,
                                 !.rest = pay[o].rest]
      /\ \A g \in Handler \ {h} : job'[g] = job[g]
  BY <1>1 DEF WebhookReads, Begin, MoneyInv, TypeOK, JobTypeOK
<1>5. job'[h].at = "webhookPay" /\ job'[h].o = o /\ job'[h].rest = pay[o].rest
  BY <1>1, <1>4 DEF Job
<1>6. JobPays(h)'
  BY <1>2, <1>3, <1>5 DEF JobPays, Owes, Exists, WebhookStages
<1> QED
  BY <1>2, <1>4, <1>6, MoneyStays DEF Carries, Exists

\* The callback finds what it read: the deposit moves from what remains to
\* what was paid.
LEMMA WebhookPaysPays ==
  ASSUME MoneyInv, TypeOK', PaymentsInTurn, NEW h \in Handler, WebhookPays(h)
  PROVE  MoneyInv'
<1>1. PICK o \in Order : o = job[h].o
  BY DEF WebhookPays, MoneyInv, TypeOK, JobTypeOK
<1>2. /\ UNCHANGED <<payTx, basket>> /\ Finish(h) /\ job[h].at = "webhookPay"
  BY DEF WebhookPays
<1>3. /\ pay \in [Order -> [paid : Nat, rest : Nat, st : PaymentStatus]]
      /\ status \in [Order -> OrderStatus \cup {"NONE"}]
  BY DEF MoneyInv, TypeOK, TableTypeOK
<1>4. \A g \in Handler \ {h} :
        job'[g] = job[g] /\ job[g].at \notin WebhookStages
  <2>1. \A g \in Handler \ {h} : job'[g] = job[g]
    BY <1>2 DEF MoneyInv, TypeOK, JobTypeOK, Finish
  <2>2. h \notin Cron
    BY <1>2 DEF MoneyInv, JobPays, WebhookStages
  <2> QED
    BY <2>1, <2>2 DEF MoneyInv, JobPays, PaymentsInTurn
<1>5. JobPays(h)'
  <2>1. job'[h].at = "idle"
    BY <1>2 DEF MoneyInv, TypeOK, JobTypeOK, Finish, Idle
  <2> QED
    BY <2>1 DEF JobPays, WebhookStages
<1>6. OrderPays(o) /\ basket[o] \in [qty : Nat, len : Nat]
  BY DEF MoneyInv, TypeOK, TableTypeOK
<1>7. CASE job[h].flag
  <2>1. /\ Owes(o) /\ job[h].rest = pay[o].rest /\ payTx[o] = "SUCCESS"
    BY <1>1, <1>2, <1>7 DEF MoneyInv, JobPays
  <2>2. /\ status' = [status EXCEPT ![o] = "ACCEPTED"]
        /\ pay' = [pay EXCEPT ![o] = [paid |-> Deposit,
                                     rest |-> Less(pay[o].rest, Deposit),
                                     st |-> "PARTIALLY_PAID"]]
    BY <1>1, <1>7, <2>1 DEF WebhookPays
  <2>3. OrderPays(o)'
    <3>1. /\ pay'[o].paid = Deposit
          /\ pay'[o].rest = Less(pay[o].rest, Deposit)
      BY <1>3, <2>2
    <3>2. pay[o].rest \in Nat /\ pay[o].paid \in Nat
      BY <1>3
    <3>3. Less(pay[o].rest, Deposit) = pay[o].rest - Deposit
      BY <2>1, <3>2 DEF Owes, Less, Deposit
    <3>4. pay[o].rest = Total(basket[o])
      BY <1>6, <2>1, <3>2 DEF OrderPays, Owes
    <3>5. pay'[o].paid + pay'[o].rest = Total(basket[o])
      BY <3>1, <3>2, <3>3, <3>4 DEF Deposit
    <3> QED
      BY <1>2, <2>1, <3>5 DEF OrderPays
  <2>4. /\ \A p \in Order \ {o} : pay'[p] = pay[p]
        /\ \A p \in Order : Exists(p) => Exists(p)'
    BY <1>3, <2>2 DEF Exists
  <2> QED
    BY <1>2, <1>4, <1>5, <2>3, <2>4, MoneyMoves
<1>8. CASE ~ job[h].flag
  <2>1. status' = status /\ pay' = [pay EXCEPT ![o].st = "FAILED"]
    BY <1>1, <1>8 DEF WebhookPays
  <2>2. /\ pay'[o].paid = pay[o].paid /\ pay'[o].rest = pay[o].rest
        /\ \A p \in Order \ {o} : pay'[p] = pay[p]
    BY <1>3, <2>1
  <2>3. OrderPays(o)'
    BY <1>2, <1>6, <2>2 DEF OrderPays, Owes
  <2> QED
    BY <1>2, <1>4, <1>5, <2>1, <2>2, <2>3, MoneyMoves DEF Exists
<1> QED
  BY <1>7, <1>8

\* MoneyInv is inductive.
LEMMA NextMoneyInv ==
  ASSUME PaymentsInTurn, MoneyInv, [Next]_vars
  PROVE  MoneyInv'
<1>1. TypeOK'
  BY NextType DEF MoneyInv
<1>2. \A h \in Handler : ~ ConfirmRemaining(h)
  BY DEF MoneyInv, JobPays, ConfirmRemaining
<1>3. CASE OrderNext
  BY <1>1, <1>2, <1>3, ReadsPay, WritesPay, DaysPay, CreatePays,
     UpdateOrderPays
  DEF OrderNext
<1>4. CASE ReturnNext
  BY <1>1, <1>4, ReadsPay, LaterReadsPay, WritesPay, DaysPay DEF ReturnNext
<1>5. CASE ShopNext
  BY <1>1, <1>5, ReadsPay, LaterReadsPay, WritesPay, DaysPay,
     StartWebhookPays, WebhookMarksPays, WebhookReadsPays, WebhookPaysPays
  DEF ShopNext
<1>6. CASE UNCHANGED vars
  BY <1>1, <1>6, DaysPay
<1> QED
  BY <1>3, <1>4, <1>5, <1>6 DEF Next

\* While callbacks are processed one at a time, what was paid and what remains
\* add up to the price of the order, through every edit, failed payment,
\* repeated callback and handler that dies half-way, for all carts.
THEOREM PaidAndRemainingAddUp ==
  ASSUME PaymentsInTurn
  PROVE  Spec => []MoneyAddsUp
<1>1. MoneyInv => MoneyAddsUp
  BY DEF MoneyInv, OrderPays, MoneyAddsUp
<1> QED
  BY InitMoneyInv, NextMoneyInv, <1>1, PTL DEF Spec
=============================================================================
