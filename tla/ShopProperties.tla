--------------------------- MODULE ShopProperties ---------------------------
(***************************************************************************)
(* What should be true of orders, their stock, their returns and their     *)
(* money.  Which operations have to be in use, or out of use, for each     *)
(* property is said by the configuration that checks it.                   *)
(***************************************************************************)
EXTENDS Shop

\* The operations that check the version of the order they write, or cannot
\* disturb one that does.
DisciplinedOps ==
  {"create", "updateStatus", "createReturnRequest", "approveRefund",
   "confirmReturnButton", "rejectReturn", "rejectReturnButton",
   "autoComplete", "confirmRemaining"}

\* Statuses before, and from, the hand-over to the customer.
Before == {"PENDING", "ACCEPTED", "CUTTING", "READY_FOR_DELIVERY", "ON_WAY",
           "CANCEL_REQUESTED"}
After == {"DELIVERED", "COMPLETED", "RETURN_REQUESTED", "RETURN_APPROVED",
          "RETURN_REJECTED", "REFUNDED"}

\* The order keeps its carpets: neither cancelled nor refunded.
Keeps(o) == status[o] \notin {"NONE", "CANCELLED"} /\ refunds[o] = 0

----------------------------------------------------------------------------
(* Ready-made carpets *)

\* No two orders that keep their carpets are allocated the same item, however
\* checkouts, status updates, returns and refunds interleave.
NoDoubleAllocation ==
  \A o, p \in Order :
    o # p /\ Keeps(o) /\ Keeps(p) => links[o] \cap links[p] = {}

\* An item is off the shelf exactly while some order keeps it: allocateFIFO is
\* never given a promised carpet, and no carpet is lost to the shop.
OffShelfIffKept ==
  \A i \in Item :
    item[i] # "ACTIVE" <=> \E o \in Order : Keeps(o) /\ i \in links[o]

\* Once an order is handed over, every item it keeps is SOLD and no longer
\* RESERVED, and until then none is SOLD (markInventorySold).
SoldIffHandedOver ==
  \A o \in Order :
    Keeps(o) =>
      \A i \in links[o] : item[i] = "SOLD" <=> status[o] \in After

\* The order that keeps item i.
Owner(i) ==
  IF \E o \in Order : Keeps(o) /\ i \in links[o]
  THEN CHOOSE o \in Order : Keeps(o) /\ i \in links[o]
  ELSE NoOrder

\* Ready-made stock keeps the promise of CarpetStock: orders take from the
\* shelf, and sell or give back everything they took in one step.
Promise ==
  INSTANCE CarpetStock WITH
    Nobody <- NoOrder,
    stock <- [i \in Item |-> [by |-> Owner(i), is |-> item[i]]]

StockPromise == Promise!StockSpec

----------------------------------------------------------------------------
(* Why the disciplined operations keep the stock in order: what a handler  *)
(* remembers is still true, or its version is not the order's any more.    *)

DisciplinedStages ==
  {"idle", "updateStatus", "createReturn", "refundRead", "refund",
   "tgRefundRead", "tgRefund", "tgReject", "autoCompleteRead",
   "autoComplete", "confirmRemaining"}

UpToDate(h) == version[job[h].o] = job[h].ver

StatusJobFits(h) ==
  LET from == status[job[h].o]
      to == job[h].to
  IN  \/ from = "ON_WAY" /\ to = "DELIVERED"
      \/ from \in Before /\ to \in Before \cup {"CANCELLED"}
      \/ from \in After /\ to \in After \ {"DELIVERED"}

JobFits(h) ==
  LET j == job[h]
      o == j.o
  IN  /\ j.at \in DisciplinedStages /\ j.todo = {}
      /\ j.at # "idle" => Exists(o)
      /\ j.at \in {"updateStatus", "refund", "tgRefundRead", "tgRefund",
                   "autoComplete"} => j.ver <= version[o]
      /\ j.at = "updateStatus" /\ UpToDate(h) => StatusJobFits(h)
      /\ j.at \in {"createReturn", "refundRead", "refund", "tgRefund",
                   "tgReject", "autoCompleteRead", "autoComplete"}
           => status[o] \in After
      /\ j.at \in {"refund", "tgRefund"} /\ UpToDate(h) /\ ~ j.flag
           => refunds[o] = 0

ReturnFits(o) ==
  /\ request[o] # "NONE" => status[o] \in After
  /\ refunds[o] > 0 => status[o] \in After /\ returned[o]

\* What every handler read still allows what it is about to write: a stale
\* status is caught by the version, and what changes a status without one
\* (returns, rejections) only happens after the hand-over.
WritesAreSound ==
  /\ \A h \in Handler : JobFits(h)
  /\ \A o \in Order : ReturnFits(o)

----------------------------------------------------------------------------
(* The roll *)

\* A sum over all orders, counted in units of length: the units of order o
\* are numbered from 1 to f[o].
Units(f) == UNION {{o} \X (1 .. f[o]) : o \in Order}
SumOf(f) == Cardinality(Units(f))

LengthReserved ==
  [o \in Order |-> IF alloc[o] \in {"RESERVED", "CUTTING"}
                   THEN basket[o].len ELSE 0]

LengthCut == [o \in Order |-> basket[o].len * Len(pieces[o])]

\* Length reserved on the roll is the length of the allocations still to be
\* cut, and what is left of the roll covers it.
RollCoversReservations ==
  /\ roll.reserved = SumOf(LengthReserved)
  /\ roll.reserved <= roll.current

\* No length is lost: the roll and the pieces cut from it add up to the roll
\* the shop started with.
RollLengthConserved == roll.current + SumOf(LengthCut) = RollLength

\* An order for a length that was made ready is cut exactly once, whatever
\* detour its status took (cancel requests refused, statuses set twice).
CutExactlyOnce ==
  \A o \in Order :
    /\ Len(pieces[o]) <= 1
    /\ /\ basket[o].len > 0
       /\ status[o] \in {"READY_FOR_DELIVERY", "ON_WAY"} \cup After
       => Len(pieces[o]) = 1

\* A cancelled order leaves nothing allocated: no length reserved, no piece or
\* item marked for it (updateStatus: "Release reservation if uncut").
CancelledLeavesNothing ==
  \A o \in Order :
    status[o] = "CANCELLED" =>
      /\ alloc[o] \in {"NONE", "AVAILABLE"}
      /\ \A n \in DOMAIN pieces[o] : pieces[o][n] = "ACTIVE"

----------------------------------------------------------------------------
(* The life of an order *)

Moves(o) == status'[o] # status[o]

\* Every change of status is one the transition map allows from the status
\* the order has at that moment, not from one that was read earlier.
StatusFollowsMap ==
  [][\A o \in Order :
       Moves(o) => \/ status[o] = "NONE" /\ status'[o] = "PENDING"
                   \/ Exists(o) /\ canTransition(status[o], status'[o])]_vars

\* What is handed over stays handed over, what is cancelled stays cancelled.
\* updateStatus promises it: "Yakunlangan buyurtma holatini o'zgartirib
\* bo'lmaydi" (the status of a finished order cannot be changed).
FinishedStaysFinished ==
  [][\A o \in Order :
       /\ status[o] \in After => status'[o] \in After
       /\ status[o] = "CANCELLED" => status'[o] = "CANCELLED"]_vars

----------------------------------------------------------------------------
(* Returns *)

\* The money of an order is given back at most once more often than its items
\* were replaced, from whichever of the two places refunds are approved.
RefundOncePerEdition == \A o \in Order : refunds[o] <= edition[o] + 1

\* A refunded order's request never waits for a decision again.
RefundIsDecided == \A o \in Order : refunds[o] > 0 => Decided(o)

----------------------------------------------------------------------------
(* Money *)

\* What was paid and what remains add up to the price of the order.
MoneyAddsUp ==
  \A o \in Order :
    Exists(o) => pay[o].paid + pay[o].rest = Total(basket[o])

----------------------------------------------------------------------------
(* Liveness: the days pass, handlers end, and the cron, which is tried     *)
(* again every five minutes, does not fail for ever.                       *)

Fairness ==
  /\ \A o \in Order : WF_vars(ReturnWindowCloses(o))
  /\ \A h \in Handler : WF_vars(Abandon(h))
  /\ \A h \in Cron :
       /\ \A o \in Order : SF_vars(StartAutoComplete(h, o))
       /\ SF_vars(AutoCompleteReads(h))
       /\ SF_vars(AutoComplete(h))

FairSpec == Spec /\ Fairness

\* A delivered order does not stay in its return window for ever: the customer
\* asks for a return, or the cron completes the order ("Return deadline (24
\* hours) expired").
DeliveredIsClosed ==
  \A o \in Order : status[o] = "DELIVERED" ~> status[o] # "DELIVERED"
=============================================================================
