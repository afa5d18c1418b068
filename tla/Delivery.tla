------------------------------ MODULE Delivery ------------------------------
(***************************************************************************)
(* The days of delivery (delivery.service.ts) and the checkouts, changes   *)
(* of date, cancellations and payments of orders that count on them        *)
(* (orders.service.ts, payment-webhook.controller.ts).  A day is read and  *)
(* written by separate statements, and the order itself in a transaction   *)
(* between them.                                                           *)
(***************************************************************************)
EXTENDS Integers, FiniteSets

CONSTANTS Day,     \* days that can be asked for, in order: 1 .. n
          Booking, \* orders
          Caller,  \* requests that run at the same time
          Default, \* defaultCapacity
          Capacities \* what administrators may set

ASSUME DeliveryAssumption ==
  /\ Day \subseteq Nat \ {0} /\ Default \in Nat \ {0} /\ Capacities \subseteq Nat
  /\ IsFiniteSet(Booking) /\ IsFiniteSet(Caller)

VARIABLES day,     \* delivery_schedules: rows [stored, reserved, capacity, free, status]
          booking, \* every order: its state, and its date of delivery
          caller,  \* what each request is in the middle of
          stale,   \* cancellations whose order has got a new version since it was read
          raced,   \* history: days two requests had read at the same time
          extra    \* history: slots of a day that no order of it holds, less the orders
                   \* of the day that hold none

deliveryVars == <<day, booking, caller, stale, raced, extra>>

Untouched == [stored |-> FALSE, reserved |-> 0, capacity |-> Default, free |-> Default,
              status |-> "AVAILABLE"]
NoCall == [kind |-> "none"]

DeliveryInit ==
  /\ day = [d \in Day |-> Untouched]
  /\ booking = [o \in Booking |-> [state |-> "none", day |-> 0]]
  /\ caller = [r \in Caller |-> NoCall] /\ stale = {}
  /\ raced = {} /\ extra = [d \in Day |-> 0]

NotBelowZero(n) == IF n < 0 THEN 0 ELSE n
StatusFor(free) == IF free = 0 THEN "FULL" ELSE "AVAILABLE"

\* Full, or closed, as reserveSlot and validateAndReserveSlot see it.
Refuses(d) == day[d].reserved >= day[d].capacity \/ day[d].status = "CLOSED"

\* getAvailability: the first day that is neither full nor closed.
Open(d) == ~Refuses(d) /\ day[d].status # "FULL"
Available == {d \in Day : Open(d) /\ \A e \in Day : e < d => ~Open(e)}

Reading == {"book", "release", "capacity"}
Reads(r, d) ==
  raced' = IF \E q \in Caller \ {r} : caller[q].kind \in Reading /\ caller[q].day = d
           THEN raced \cup {d} ELSE raced

\* What a request writes of the count and the capacity it has read.
Counted(c, n) ==
  LET free == NotBelowZero(c.capacity - n)
  IN day' = [day EXCEPT ![c.day] = [stored |-> TRUE, reserved |-> n, capacity |-> @.capacity,
                                    free |-> free, status |-> StatusFor(free)]]

\* A request at a step of its own for an order; "owes" that a slot is counted for it.
At(kind, d, o, owes) ==
  [kind |-> kind, day |-> d, order |-> o, owes |-> owes,
   count |-> day[d].reserved, capacity |-> day[d].capacity]

----------------------------------------------------------------------------
\* create, validateAndReserveSlot: the day that is asked for, or the first one.
Checkout(r, o, d) ==
  /\ caller[r] = NoCall /\ booking[o].state = "none"
  /\ Available # {} /\ ~Refuses(d)
  /\ booking' = [booking EXCEPT ![o] = [state |-> "checkout", day |-> d]]
  /\ caller' = [caller EXCEPT ![r] = At("reserve", d, o, FALSE)]
  /\ UNCHANGED <<day, stale, raced, extra>>

\* reserveSlot reads the day again ...
ReadDay(r) ==
  LET d == caller[r].day
      o == caller[r].order
  IN
  /\ caller[r].kind = "reserve"
  /\ IF Refuses(d)
     THEN /\ caller' = [caller EXCEPT ![r] = NoCall]
          /\ booking' = [booking EXCEPT ![o].state = "gone"]
          /\ UNCHANGED raced
     ELSE /\ caller' = [caller EXCEPT ![r] = At("book", d, o, FALSE)]
          /\ Reads(r, d)
          /\ UNCHANGED booking
  /\ UNCHANGED <<day, stale, extra>>

\* ... and writes it.
WriteDay(r) ==
  LET c == caller[r] IN
  /\ c.kind = "book"
  /\ Counted(c, c.count + 1)
  /\ caller' = [caller EXCEPT ![r] = At("order", c.day, c.order, TRUE)]
  /\ UNCHANGED <<booking, stale, raced, extra>>

\* The transaction of the order commits, or fails and the slot is given back.
CommitOrder(r) ==
  /\ caller[r].kind = "order"
  /\ booking' = [booking EXCEPT ![caller[r].order].state = "live"]
  /\ caller' = [caller EXCEPT ![r] = NoCall]
  /\ UNCHANGED <<day, stale, raced, extra>>

\* Fault: the slot of a failed order is not given back.
FailOrderOnly(r) ==
  LET c == caller[r] IN
  /\ c.kind = "order"
  /\ booking' = [booking EXCEPT ![c.order].state = "gone"]
  /\ caller' = [caller EXCEPT ![r] = NoCall]
  /\ UNCHANGED <<day, stale, raced, extra>>

FailOrder(r) ==
  LET c == caller[r] IN
  /\ c.kind = "order"
  /\ booking' = [booking EXCEPT ![c.order].state = "gone"]
  /\ caller' = [caller EXCEPT ![r] = At("giveBack", c.day, c.order, TRUE)]
  /\ UNCHANGED <<day, stale, raced, extra>>

\* What is counted for nobody, and the other way round, when an order to be
\* delivered gets the date d: no slot moves with it.
Moved(o, d) == [e \in Day |-> extra[e] + (IF e = booking[o].day THEN 1 ELSE 0)
                                        - (IF e = d THEN 1 ELSE 0)]

Outdated(o) == {r \in Caller : caller[r].kind = "cancel" /\ caller[r].order = o}

\* updateOrder writes the date it is given, of a cancelled order too.
MoveDate(o, d) ==
  /\ booking[o].state \in {"live", "cancelled"}
  /\ booking' = [booking EXCEPT ![o].day = d]
  /\ extra' = IF booking[o].state = "live" THEN Moved(o, d) ELSE extra
  /\ UNCHANGED <<day, caller, stale, raced>>

\* updateStatus to another status: it writes the date it is given, or the one
\* it has read, and a new version.
UpdateStatus(o, d) ==
  /\ booking[o].state = "live"
  /\ booking' = [booking EXCEPT ![o].day = d]
  /\ extra' = Moved(o, d)
  /\ stale' = stale \cup Outdated(o)
  /\ UNCHANGED <<day, caller, raced>>

\* updateStatus to CANCELLED reads the order ...
ReadOrder(r, o) ==
  /\ caller[r] = NoCall /\ booking[o].state = "live"
  /\ caller' = [caller EXCEPT ![r] = At("cancel", booking[o].day, o, FALSE)]
  /\ UNCHANGED <<day, booking, stale, raced, extra>>

\* ... and writes it, unless it has a new version, with the date it is given or
\* has read; the slot of that date is released.  The customer may have cancelled
\* the order meanwhile, and a payment may have revived it.
CancelByStaff(r, d) ==
  LET o == caller[r].order
      live == booking[o].state = "live"
  IN
  /\ caller[r].kind = "cancel" /\ r \notin stale
  /\ booking[o].state \in {"live", "cancelled"}
  /\ booking' = [booking EXCEPT ![o] = [state |-> "cancelled", day |-> d]]
  /\ extra' = IF live THEN Moved(o, d) ELSE extra
  /\ stale' = (stale \cup Outdated(o)) \ {r}
  /\ caller' = [caller EXCEPT ![r] = At("giveBack", d, o, live)]
  /\ UNCHANGED <<day, raced>>

\* The release is started inside the transaction, which may still be rolled back.
CancelRolledBack(r, d) ==
  /\ caller[r].kind = "cancel" /\ r \notin stale
  /\ caller' = [caller EXCEPT ![r] = At("giveBack", d, caller[r].order, FALSE)]
  /\ UNCHANGED <<day, booking, stale, raced, extra>>

RefuseCancel(r) ==
  /\ caller[r].kind = "cancel" /\ r \in stale
  /\ caller' = [caller EXCEPT ![r] = NoCall] /\ stale' = stale \ {r}
  /\ UNCHANGED <<day, booking, raced, extra>>

\* cancelMyOrder gives back nothing, and writes no version.
CancelByCustomer(o) ==
  /\ booking[o].state = "live"
  /\ extra' = [extra EXCEPT ![booking[o].day] = @ + 1]
  /\ booking' = [booking EXCEPT ![o].state = "cancelled"]
  /\ UNCHANGED <<day, caller, stale, raced>>

\* A payment arrives late (handleClickWebhook, handlePaymeWebhook): the order is
\* accepted whatever its status, and no slot is counted for it.  An updateStatus
\* that had read the order before its customer cancelled it does the same, which
\* is this step and UpdateStatus.
Revive(o) ==
  /\ booking[o].state = "cancelled"
  /\ extra' = [extra EXCEPT ![booking[o].day] = @ - 1]
  /\ booking' = [booking EXCEPT ![o].state = "live"]
  /\ UNCHANGED <<day, caller, stale, raced>>

\* What giving back leaves counted for nobody: a slot, or one less than none.
LeftOver(c) ==
  (IF c.owes THEN 1 ELSE 0) - (IF c.count > 0 THEN 1 ELSE 0)

\* releaseSlot: a day nobody has booked or changed has no row to be written.
ReadRelease(r) ==
  LET c == caller[r] IN
  /\ c.kind = "giveBack"
  /\ IF day[c.day].stored
     THEN /\ caller' = [caller EXCEPT ![r] = At("release", c.day, c.order, c.owes)]
          /\ Reads(r, c.day)
          /\ UNCHANGED extra
     ELSE /\ caller' = [caller EXCEPT ![r] = NoCall]
          /\ extra' = [extra EXCEPT ![c.day] = IF c.owes THEN @ + 1 ELSE @]
          /\ UNCHANGED raced
  /\ UNCHANGED <<day, booking, stale>>

\* The count never falls below zero, and a closed day is open again.
WriteRelease(r) ==
  LET c == caller[r] IN
  /\ c.kind = "release"
  /\ Counted(c, NotBelowZero(c.count - 1))
  /\ extra' = [extra EXCEPT ![c.day] = @ + LeftOver(c)]
  /\ caller' = [caller EXCEPT ![r] = NoCall]
  /\ UNCHANGED <<booking, stale, raced>>

\* updateCapacity
ReadCapacity(r, d, n, closed) ==
  /\ caller[r] = NoCall
  /\ caller' = [caller EXCEPT ![r] = [kind |-> "capacity", day |-> d, to |-> n,
                                      closed |-> closed, count |-> day[d].reserved]]
  /\ Reads(r, d)
  /\ UNCHANGED <<day, booking, stale, extra>>

WriteCapacity(r) ==
  LET c == caller[r]
      free == NotBelowZero(c.to - c.count)
  IN
  /\ c.kind = "capacity"
  /\ day' = [day EXCEPT ![c.day] =
       [stored |-> TRUE, reserved |-> IF @.stored THEN @.reserved ELSE c.count,
        capacity |-> c.to, free |-> free,
        status |-> IF c.closed THEN "CLOSED" ELSE StatusFor(free)]]
  /\ caller' = [caller EXCEPT ![r] = NoCall]
  /\ UNCHANGED <<booking, stale, raced, extra>>

\* A request dies between two of its statements: what was counted for it stays.
Die(r) ==
  LET c == caller[r] IN
  /\ c.kind \in {"order", "giveBack", "release"}
  /\ extra' = [extra EXCEPT ![c.day] = IF c.owes THEN @ + 1 ELSE @]
  /\ booking' = [booking EXCEPT ![c.order].state = IF c.kind = "order" THEN "gone" ELSE @]
  /\ caller' = [caller EXCEPT ![r] = NoCall]
  /\ UNCHANGED <<day, stale, raced>>

CallerStep(r) ==
  ReadDay(r) \/ WriteDay(r) \/ CommitOrder(r) \/ FailOrder(r)
  \/ ReadRelease(r) \/ WriteRelease(r) \/ WriteCapacity(r) \/ Die(r) \/ RefuseCancel(r)

DeliveryNext ==
  \/ \E r \in Caller : CallerStep(r)
  \/ \E r \in Caller, o \in Booking, d \in Day : Checkout(r, o, d)
  \/ \E r \in Caller, o \in Booking : ReadOrder(r, o)
  \/ \E r \in Caller, d \in Day : CancelByStaff(r, d) \/ CancelRolledBack(r, d)
  \/ \E o \in Booking : CancelByCustomer(o) \/ Revive(o)
  \/ \E o \in Booking, d \in Day : MoveDate(o, d) \/ UpdateStatus(o, d)
  \/ \E r \in Caller, d \in Day, n \in Capacities, closed \in BOOLEAN :
       ReadCapacity(r, d, n, closed)

DeliverySpec == DeliveryInit /\ [][DeliveryNext]_deliveryVars
----------------------------------------------------------------------------
DeliveryTypeOK ==
  /\ day \in [Day -> [stored : BOOLEAN, reserved : Nat, capacity : Nat, free : Nat,
                      status : {"AVAILABLE", "FULL", "CLOSED"}]]
  /\ booking \in [Booking -> [state : {"none", "checkout", "live", "cancelled", "gone"},
                              day : Day \cup {0}]]
  /\ stale \subseteq Caller
  /\ extra \in [Day -> Int]

\* The orders to be delivered on a day, and the requests a slot of it is owed by.
LiveOn(d) == {o \in Booking : booking[o].state = "live" /\ booking[o].day = d}
OwedOn(d) == {r \in Caller : /\ caller[r].kind \in {"order", "giveBack", "release"}
                             /\ caller[r].day = d /\ caller[r].owes}
Holders(d) == Cardinality(LiveOn(d)) + Cardinality(OwedOn(d))

\* On a day no two requests had read at the same time, the count is that of the
\* orders to be delivered and of the checkouts and cancellations under way: but
\* more by the orders that were given another date, the orders their customers
\* cancelled and the requests a crash cut short, and less by the orders that were
\* given this date, the cancelled ones a late payment or a status written over the
\* customer's cancellation revived, and the cancellations that gave back a slot although they were rolled back, or the customer had been
\* first.  And what is shown as free fits the count.
SlotsAddUp ==
  \A d \in Day \ raced :
    /\ day[d].reserved = Holders(d) + extra[d]
    /\ day[d].free = NotBelowZero(day[d].capacity - day[d].reserved)
=============================================================================
