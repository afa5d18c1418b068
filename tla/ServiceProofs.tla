--------------------------- MODULE ServiceProofs ----------------------------
(***************************************************************************)
(* The slots of a day add up, for any number of days, orders and requests  *)
(* at the same time, as long as no two requests read the day at once: what *)
(* changes of date, late payments, cancellations by customers or rolled    *)
(* back, and requests that died, leave miscounted is known slot by slot.   *)
(* For any number of chats, workers and previews: a prompt of the seller's *)
(* panel is answered once, and a picture that was shown stays unless its   *)
(* job was delivered again after a crash.                                  *)
(***************************************************************************)
EXTENDS Services, FiniteSetTheorems, TLAPS

Status == {"AVAILABLE", "FULL", "CLOSED"}
State == {"none", "checkout", "live", "cancelled", "gone"}
DayRow == [stored : BOOLEAN, reserved : Nat, capacity : Nat, free : Nat, status : Status]
StepJob == [kind : {"reserve", "book", "order", "cancel", "giveBack", "release"},
            day : Day, order : Booking, owes : BOOLEAN, count : Nat, capacity : Nat]
CapacityJob == [kind : {"capacity"}, day : Day, to : Nat, closed : BOOLEAN, count : Nat]

Typed ==
  /\ day \in [Day -> DayRow]
  /\ booking \in [Booking -> [state : State, day : Day \cup {0}]]
  /\ caller \in [Caller -> {NoCall} \cup StepJob \cup CapacityJob]
  /\ extra \in [Day -> Int] /\ raced \in SUBSET Day /\ stale \in SUBSET Caller

\* A checkout works for an order of its own, and has its slot counted once
\* reserveSlot has written.
ForCheckout(r) == caller[r].kind \in {"reserve", "book", "order"}
CheckoutFits(r) ==
  ForCheckout(r) =>
    /\ booking[caller[r].order] = [state |-> "checkout", day |-> caller[r].day]
    /\ caller[r].kind = "order" => caller[r].owes
    /\ \A q \in Caller \ {r} : ForCheckout(q) => caller[q].order # caller[r].order

\* On a day without a race one request at most has read and not yet written,
\* and what it has read is still there.
Reader(r, d) == caller[r].kind \in Reading /\ caller[r].day = d
ReaderKnows(r, d) ==
  Reader(r, d) =>
    /\ caller[r].count = day[d].reserved
    /\ caller[r].kind # "capacity" => caller[r].capacity = day[d].capacity
    /\ \A q \in Caller \ {r} : ~Reader(q, d)

Dated == \A o \in Booking : booking[o].state # "none" => booking[o].day \in Day

DeliveryInv ==
  /\ Typed /\ Dated
  /\ \A r \in Caller : CheckoutFits(r)
  /\ \A d \in Day \ raced, r \in Caller : ReaderKnows(r, d)
  /\ SlotsAddUp

----------------------------------------------------------------------------
(* Counting *)

LEMMA Joins ==
  ASSUME NEW S, IsFiniteSet(S), NEW x, x \notin S
  PROVE  Cardinality(S \cup {x}) = Cardinality(S) + 1
BY FS_AddElement

LEMMA Leaves ==
  ASSUME NEW S, IsFiniteSet(S), NEW x, x \in S
  PROVE  Cardinality(S \ {x}) = Cardinality(S) - 1
BY FS_RemoveElement

LEMMA Finite ==
  ASSUME NEW d
  PROVE  /\ IsFiniteSet(LiveOn(d)) /\ IsFiniteSet(OwedOn(d))
         /\ Cardinality(LiveOn(d)) \in Nat /\ Cardinality(OwedOn(d)) \in Nat
         /\ Holders(d) \in Nat
<1>1. LiveOn(d) \in SUBSET Booking /\ OwedOn(d) \in SUBSET Caller
  BY DEF LiveOn, OwedOn
<1>2. IsFiniteSet(LiveOn(d)) /\ IsFiniteSet(OwedOn(d))
  BY <1>1, DeliveryAssumption, FS_Subset
<1>3. Cardinality(LiveOn(d)) \in Nat /\ Cardinality(OwedOn(d)) \in Nat
  BY <1>2, FS_CardinalityType
<1> QED
  BY <1>2, <1>3 DEF Holders

LEMMA FinitePrime ==
  ASSUME NEW d
  PROVE  /\ Cardinality(LiveOn(d))' \in Nat /\ Cardinality(OwedOn(d))' \in Nat
         /\ Holders(d)' \in Nat
<1>1. LiveOn(d)' \in SUBSET Booking /\ OwedOn(d)' \in SUBSET Caller
  BY DEF LiveOn, OwedOn
<1>2. IsFiniteSet(LiveOn(d)') /\ IsFiniteSet(OwedOn(d)')
  BY <1>1, DeliveryAssumption, FS_Subset
<1>3. Cardinality(LiveOn(d)') \in Nat /\ Cardinality(OwedOn(d)') \in Nat
  BY <1>2, FS_CardinalityType
<1> QED
  BY <1>3 DEF Holders

Owes(r, d) == /\ caller[r].kind \in {"order", "giveBack", "release"}
              /\ caller[r].day = d /\ caller[r].owes
IsLive(o, d) == booking[o].state = "live" /\ booking[o].day = d

\* One request changes: the requests a slot is owed by.
LEMMA OwedChanges ==
  ASSUME NEW r \in Caller, NEW d, \A q \in Caller \ {r} : caller'[q] = caller[q]
  PROVE  Cardinality(OwedOn(d))' = Cardinality(OwedOn(d))
           + (IF Owes(r, d)' THEN 1 ELSE 0) - (IF Owes(r, d) THEN 1 ELSE 0)
<1>1. \A q \in Caller \ {r} : q \in OwedOn(d)' <=> q \in OwedOn(d)
  BY DEF OwedOn
<1>2. (r \in OwedOn(d)' <=> Owes(r, d)') /\ (r \in OwedOn(d) <=> Owes(r, d))
  BY DEF OwedOn, Owes
<1>3. OwedOn(d) \subseteq Caller /\ OwedOn(d)' \subseteq Caller
  BY DEF OwedOn
<1> DEFINE S == OwedOn(d)
           T == OwedOn(d)'
<1>4. IsFiniteSet(S) /\ Cardinality(S) \in Nat
  BY Finite
<1>5. Cardinality(T) = Cardinality(OwedOn(d))'
  OBVIOUS
<1>6. CASE Owes(r, d)' /\ ~Owes(r, d)
  <2>1. T = S \cup {r} /\ r \notin S
    BY <1>1, <1>2, <1>3, <1>6
  <2>2. Cardinality(T) = Cardinality(S) + 1
    BY <1>4, <2>1, Joins
  <2> QED
    BY <1>4, <1>5, <1>6, <2>2
<1>7. CASE ~Owes(r, d)' /\ Owes(r, d)
  <2>1. T = S \ {r} /\ r \in S
    BY <1>1, <1>2, <1>3, <1>7
  <2>2. Cardinality(T) = Cardinality(S) - 1
    BY <1>4, <2>1, Leaves
  <2> QED
    BY <1>4, <1>5, <1>7, <2>2
<1>8. CASE Owes(r, d)' <=> Owes(r, d)
  <2>1. T = S
    BY <1>1, <1>2, <1>3, <1>8
  <2> QED
    BY <1>4, <1>5, <1>8, <2>1
<1> QED
  BY <1>6, <1>7, <1>8

\* One order changes: the orders to be delivered on a day.
LEMMA LiveChanges ==
  ASSUME NEW o \in Booking, NEW d, \A p \in Booking \ {o} : booking'[p] = booking[p]
  PROVE  Cardinality(LiveOn(d))' = Cardinality(LiveOn(d))
           + (IF IsLive(o, d)' THEN 1 ELSE 0) - (IF IsLive(o, d) THEN 1 ELSE 0)
<1>1. \A p \in Booking \ {o} : p \in LiveOn(d)' <=> p \in LiveOn(d)
  BY DEF LiveOn
<1>2. (o \in LiveOn(d)' <=> IsLive(o, d)') /\ (o \in LiveOn(d) <=> IsLive(o, d))
  BY DEF LiveOn, IsLive
<1>3. LiveOn(d) \subseteq Booking /\ LiveOn(d)' \subseteq Booking
  BY DEF LiveOn
<1> DEFINE S == LiveOn(d)
           T == LiveOn(d)'
<1>4. IsFiniteSet(S) /\ Cardinality(S) \in Nat
  BY Finite
<1>5. Cardinality(T) = Cardinality(LiveOn(d))'
  OBVIOUS
<1>6. CASE IsLive(o, d)' /\ ~IsLive(o, d)
  <2>1. T = S \cup {o} /\ o \notin S
    BY <1>1, <1>2, <1>3, <1>6
  <2>2. Cardinality(T) = Cardinality(S) + 1
    BY <1>4, <2>1, Joins
  <2> QED
    BY <1>4, <1>5, <1>6, <2>2
<1>7. CASE ~IsLive(o, d)' /\ IsLive(o, d)
  <2>1. T = S \ {o} /\ o \in S
    BY <1>1, <1>2, <1>3, <1>7
  <2>2. Cardinality(T) = Cardinality(S) - 1
    BY <1>4, <2>1, Leaves
  <2> QED
    BY <1>4, <1>5, <1>7, <2>2
<1>8. CASE IsLive(o, d)' <=> IsLive(o, d)
  <2>1. T = S
    BY <1>1, <1>2, <1>3, <1>8
  <2> QED
    BY <1>4, <1>5, <1>8, <2>1
<1> QED
  BY <1>6, <1>7, <1>8

----------------------------------------------------------------------------
LEMMA InitDelivery == DeliveryInit => DeliveryInv
<1> SUFFICES ASSUME DeliveryInit PROVE DeliveryInv
  OBVIOUS
<1>1. Typed
  BY DeliveryAssumption DEF DeliveryInit, Typed, Untouched, DayRow, Status, State
<1>2. (\A r \in Caller : caller[r].kind = "none") /\ Dated
  BY DEF DeliveryInit, NoCall, Dated
<1>3. \A r \in Caller : CheckoutFits(r)
  BY <1>2 DEF CheckoutFits, ForCheckout
<1>4. \A d \in Day \ raced, r \in Caller : ReaderKnows(r, d)
  BY <1>2 DEF ReaderKnows, Reader, Reading
<1>5. SlotsAddUp
  <2> SUFFICES ASSUME NEW d \in Day
               PROVE  /\ day[d].reserved = Holders(d) + extra[d]
                      /\ day[d].free = NotBelowZero(day[d].capacity - day[d].reserved)
    BY DEF SlotsAddUp
  <2>1. LiveOn(d) = {} /\ OwedOn(d) = {}
    BY <1>2 DEF DeliveryInit, LiveOn, OwedOn
  <2>2. Holders(d) = 0
    BY <2>1, FS_EmptySet DEF Holders
  <2> QED
    BY <2>2, DeliveryAssumption DEF DeliveryInit, Untouched, NotBelowZero
<1> QED
  BY <1>1, <1>2, <1>3, <1>4, <1>5 DEF DeliveryInv

\* What the records of a request are.
LEMMA Kinds ==
  ASSUME Typed, NEW r \in Caller
  PROVE  /\ caller[r].kind = "none" => caller[r] = NoCall
         /\ caller[r].kind \in {"reserve", "book", "order", "cancel", "giveBack", "release"}
              => caller[r] \in StepJob
         /\ caller[r].kind = "capacity" => caller[r] \in CapacityJob
BY DEF Typed, NoCall, StepJob, CapacityJob

LEMMA AtIsStep ==
  ASSUME Typed, NEW d \in Day, NEW o \in Booking, NEW owes \in BOOLEAN,
         NEW kind \in {"reserve", "book", "order", "cancel", "giveBack", "release"}
  PROVE  At(kind, d, o, owes) \in StepJob
BY DEF At, Typed, DayRow, StepJob

\* What a request is about to write is a row, and shows as free what is left.
LEMMA CountedRow ==
  ASSUME Typed, NEW r \in Caller, caller[r] \in StepJob, NEW n \in Nat,
         Counted(caller[r], n)
  PROVE  /\ day' \in [Day -> DayRow]
         /\ \A e \in Day \ {caller[r].day} : day'[e] = day[e]
         /\ day'[caller[r].day].reserved = n
         /\ day'[caller[r].day].capacity = day[caller[r].day].capacity
         /\ day'[caller[r].day].free = NotBelowZero(caller[r].capacity - n)
<1> DEFINE d == caller[r].day
           free == NotBelowZero(caller[r].capacity - n)
           row == [stored |-> TRUE, reserved |-> n, capacity |-> day[d].capacity,
                   free |-> free, status |-> StatusFor(free)]
<1>1. d \in Day /\ caller[r].capacity \in Nat
  BY DEF StepJob
<1>2. free \in Nat
  BY <1>1 DEF NotBelowZero
<1>3. day[d].capacity \in Nat
  BY <1>1 DEF Typed, DayRow
<1>4. StatusFor(free) \in Status
  BY DEF StatusFor, Status
<1>5. row \in DayRow
  BY <1>2, <1>3, <1>4 DEF DayRow
<1>6. day' = [day EXCEPT ![d] = row]
  BY DEF Counted
<1> HIDE DEF row
<1>7. day'[d] = row /\ day' \in [Day -> DayRow] /\ \A e \in Day \ {d} : day'[e] = day[e]
  BY <1>1, <1>5, <1>6 DEF Typed
<1> QED
  BY <1>7 DEF row

----------------------------------------------------------------------------
(* Checkout *)

LEMMA CheckoutStep ==
  ASSUME DeliveryInv, NEW r \in Caller, NEW o \in Booking, NEW d \in Day, Checkout(r, o, d)
  PROVE  DeliveryInv'
<1> DEFINE c == At("reserve", d, o, FALSE)
           b == [state |-> "checkout", day |-> d]
<1>1. /\ caller[r] = NoCall /\ booking[o].state = "none"
      /\ booking' = [booking EXCEPT ![o] = b]
      /\ caller' = [caller EXCEPT ![r] = c]
      /\ UNCHANGED <<stale, day, raced, extra>>
  BY DEF Checkout
<1>2. /\ booking'[o] = b /\ \A p \in Booking \ {o} : booking'[p] = booking[p]
      /\ caller'[r] = c /\ \A q \in Caller \ {r} : caller'[q] = caller[q]
  BY <1>1 DEF DeliveryInv, Typed
<1>3. c.kind = "reserve" /\ c.order = o /\ c.day = d /\ c \in StepJob
  BY AtIsStep DEF At, DeliveryInv
<1>4. Typed'
  <2>1. b \in [state : State, day : Day \cup {0}]
    BY DEF State
  <2> HIDE DEF b, c
  <2> QED
    BY <1>1, <1>3, <2>1 DEF DeliveryInv, Typed
<1>9. Dated'
  BY <1>2 DEF DeliveryInv, Dated
<1>5. \A q \in Caller \ {r} : ForCheckout(q) => caller[q].order # o
  <2> SUFFICES ASSUME NEW q \in Caller \ {r}, ForCheckout(q), caller[q].order = o
               PROVE  FALSE
    OBVIOUS
  <2>1. booking[o] = [state |-> "checkout", day |-> caller[q].day]
    BY DEF DeliveryInv, CheckoutFits
  <2> QED
    BY <1>1, <2>1
<1>6. \A q \in Caller : CheckoutFits(q)'
  <2>1. CheckoutFits(r)'
    BY <1>2, <1>3, <1>5 DEF CheckoutFits, ForCheckout
  <2>2. ASSUME NEW q \in Caller \ {r} PROVE CheckoutFits(q)'
    <3> SUFFICES ASSUME ForCheckout(q) PROVE CheckoutFits(q)'
      BY <1>2 DEF CheckoutFits, ForCheckout
    <3>1. CheckoutFits(q) /\ caller[q].order \in Booking \ {o}
      BY <1>5, Kinds DEF DeliveryInv, ForCheckout, StepJob
    <3> HIDE DEF c
    <3> QED
      BY <1>2, <1>3, <3>1 DEF CheckoutFits, ForCheckout
  <2> QED
    BY <2>1, <2>2
<1>7. \A e \in Day \ raced', q \in Caller : ReaderKnows(q, e)'
  <2>1. ~(c.kind \in Reading)
    BY <1>3 DEF Reading
  <2> HIDE DEF c
  <2> QED
    BY <1>1, <1>2, <2>1 DEF DeliveryInv, ReaderKnows, Reader
<1>8. SlotsAddUp'
  <2> SUFFICES ASSUME NEW e \in Day \ raced
               PROVE  /\ day[e].reserved = Holders(e)' + extra[e]
                      /\ day[e].free = NotBelowZero(day[e].capacity - day[e].reserved)
    BY <1>1 DEF SlotsAddUp
  <2>1. Cardinality(LiveOn(e))' = Cardinality(LiveOn(e))
    <3>1. ~IsLive(o, e) /\ ~IsLive(o, e)'
      BY <1>1, <1>2 DEF IsLive
    <3> QED
      BY <1>2, <3>1, LiveChanges, Finite
  <2>2. Cardinality(OwedOn(e))' = Cardinality(OwedOn(e))
    <3> HIDE DEF c
    <3>1. caller[r].kind = "none" /\ caller'[r].kind = "reserve"
      BY <1>1, <1>2, <1>3 DEF NoCall
    <3>2. ~Owes(r, e) /\ ~Owes(r, e)'
      BY <3>1 DEF Owes
    <3> QED
      BY <1>2, <3>2, OwedChanges, Finite
  <2> QED
    BY <2>1, <2>2 DEF DeliveryInv, SlotsAddUp, Holders
<1> QED
  BY <1>4, <1>6, <1>7, <1>8, <1>9 DEF DeliveryInv

----------------------------------------------------------------------------
(* What the steps of a request have in common. *)

\* The other checkouts still have their orders.
LEMMA OthersFit ==
  ASSUME DeliveryInv, NEW r \in Caller,
         \A q \in Caller \ {r} : caller'[q] = caller[q],
         \A q \in Caller \ {r} :
           ForCheckout(q) => booking'[caller[q].order] = booking[caller[q].order],
         CheckoutFits(r)'
  PROVE  \A q \in Caller : CheckoutFits(q)'
<1> SUFFICES ASSUME NEW q \in Caller \ {r}, ForCheckout(q) PROVE CheckoutFits(q)'
  BY DEF CheckoutFits, ForCheckout
<1>1. CheckoutFits(q)
  BY DEF DeliveryInv
<1>2. \A p \in Caller \ {q} : ForCheckout(p)' => caller'[p].order # caller'[q].order
  BY <1>1 DEF CheckoutFits, ForCheckout
<1> QED
  BY <1>1, <1>2 DEF CheckoutFits, ForCheckout

\* A request for a checkout is alone with its order.
LEMMA AloneWithOrder ==
  ASSUME DeliveryInv, NEW r \in Caller, ForCheckout(r)
  PROVE  /\ caller[r] \in StepJob
         /\ booking[caller[r].order] = [state |-> "checkout", day |-> caller[r].day]
         /\ caller[r].kind = "order" => caller[r].owes
         /\ \A q \in Caller \ {r} : ForCheckout(q) => caller[q].order # caller[r].order
BY Kinds DEF DeliveryInv, CheckoutFits, ForCheckout

\* Nobody is in a checkout for an order that is not in one.
LEMMA NobodyFor ==
  ASSUME DeliveryInv, NEW o \in Booking, booking[o].state # "checkout"
  PROVE  \A q \in Caller : ForCheckout(q) => caller[q].order # o
<1> SUFFICES ASSUME NEW q \in Caller, ForCheckout(q), caller[q].order = o PROVE FALSE
  OBVIOUS
<1>1. booking[o] = [state |-> "checkout", day |-> caller[q].day]
  BY AloneWithOrder
<1> QED
  BY <1>1

\* After a write, or a step that neither reads nor writes a day.
LEMMA ReadersAfterWrite ==
  ASSUME DeliveryInv, NEW r \in Caller,
         \A q \in Caller \ {r} : caller'[q] = caller[q],
         caller'[r].kind \notin Reading, raced' = raced,
         \A e \in Day : Reader(r, e) \/ day'[e] = day[e]
  PROVE  \A e \in Day \ raced', q \in Caller : ReaderKnows(q, e)'
<1> SUFFICES ASSUME NEW e \in Day \ raced, NEW q \in Caller, Reader(q, e)'
             PROVE  ReaderKnows(q, e)'
  BY DEF ReaderKnows
<1>1. q # r /\ Reader(q, e) /\ caller'[q] = caller[q]
  BY DEF Reader
<1>2. ReaderKnows(q, e) /\ ReaderKnows(r, e)
  BY DEF DeliveryInv
<1>3. day'[e] = day[e]
  BY <1>1, <1>2 DEF ReaderKnows
<1>4. \A p \in Caller \ {q} : ~Reader(p, e)'
  BY <1>1, <1>2 DEF ReaderKnows, Reader
<1> QED
  BY <1>1, <1>2, <1>3, <1>4 DEF ReaderKnows

\* After a read.
LEMMA ReadersAfterRead ==
  ASSUME DeliveryInv, NEW r \in Caller, NEW d \in Day,
         \A q \in Caller \ {r} : caller'[q] = caller[q],
         caller'[r].day = d, caller'[r].count = day[d].reserved,
         caller'[r].kind # "capacity" => caller'[r].capacity = day[d].capacity,
         Reads(r, d), day' = day
  PROVE  \A e \in Day \ raced', q \in Caller : ReaderKnows(q, e)'
<1>1. raced \subseteq raced'
  BY DEF Reads
<1>2. d \notin raced' => \A q \in Caller \ {r} : ~Reader(q, d)
  BY DEF Reads, Reader
<1> SUFFICES ASSUME NEW e \in Day \ raced', NEW q \in Caller, Reader(q, e)'
             PROVE  ReaderKnows(q, e)'
  BY DEF ReaderKnows
<1>3. CASE q = r
  <2>1. e = d
    BY <1>3 DEF Reader
  <2>2. \A p \in Caller \ {r} : ~Reader(p, d)'
    BY <1>2, <2>1 DEF Reader
  <2> QED
    BY <1>3, <2>1, <2>2 DEF ReaderKnows
<1>4. CASE q # r
  <2>1. Reader(q, e) /\ e # d /\ ReaderKnows(q, e)
    BY <1>1, <1>2, <1>4 DEF Reader, DeliveryInv
  <2>2. \A p \in Caller \ {q} : ~Reader(p, e)'
    BY <2>1 DEF ReaderKnows, Reader
  <2> QED
    BY <1>4, <2>1, <2>2 DEF ReaderKnows
<1> QED
  BY <1>3, <1>4

\* The sum of a day is kept when the orders and the requests that count move.
LEMMA SumKept ==
  ASSUME DeliveryInv, NEW e \in Day \ raced,
         extra'[e] \in Int, day'[e].reserved \in Int,
         day'[e].reserved - day[e].reserved =
           (Cardinality(LiveOn(e))' - Cardinality(LiveOn(e)))
           + (Cardinality(OwedOn(e))' - Cardinality(OwedOn(e))) + (extra'[e] - extra[e])
  PROVE  day'[e].reserved = Holders(e)' + extra'[e]
<1>1. day[e].reserved = Cardinality(LiveOn(e)) + Cardinality(OwedOn(e)) + extra[e]
  BY DEF DeliveryInv, SlotsAddUp, Holders
<1>2. Holders(e)' = Cardinality(LiveOn(e))' + Cardinality(OwedOn(e))'
  BY DEF Holders
<1>3. /\ Cardinality(LiveOn(e)) \in Int /\ Cardinality(OwedOn(e)) \in Int
      /\ Cardinality(LiveOn(e))' \in Int /\ Cardinality(OwedOn(e))' \in Int
      /\ extra[e] \in Int /\ day[e].reserved \in Int
  BY Finite, FinitePrime DEF DeliveryInv, Typed, DayRow
<1> QED
  BY <1>1, <1>2, <1>3

\* As many orders are to be delivered on a day as before.
LEMMA LiveAlike ==
  ASSUME NEW e, booking' = booking \/ \E o \in Booking :
           /\ \A p \in Booking \ {o} : booking'[p] = booking[p]
           /\ ~IsLive(o, e) /\ ~IsLive(o, e)'
  PROVE  Cardinality(LiveOn(e))' = Cardinality(LiveOn(e))
<1>1. CASE booking' = booking
  <2>1. LiveOn(e)' = LiveOn(e)
    BY <1>1 DEF LiveOn
  <2> QED
    BY <2>1
<1>2. ASSUME NEW o \in Booking, \A p \in Booking \ {o} : booking'[p] = booking[p],
             ~IsLive(o, e), ~IsLive(o, e)'
      PROVE  Cardinality(LiveOn(e))' = Cardinality(LiveOn(e))
  BY <1>2, LiveChanges, Finite
<1> QED
  BY <1>1, <1>2

\* A step that leaves the days alone, and for which extra makes up.
LEMMA DaysAlone ==
  ASSUME DeliveryInv, NEW e \in Day \ raced, day' = day, extra'[e] \in Int,
         (Cardinality(LiveOn(e))' - Cardinality(LiveOn(e)))
           + (Cardinality(OwedOn(e))' - Cardinality(OwedOn(e))) + (extra'[e] - extra[e]) = 0
  PROVE  /\ day'[e].reserved = Holders(e)' + extra'[e]
         /\ day'[e].free = NotBelowZero(day'[e].capacity - day'[e].reserved)
<1>1. day[e].reserved \in Int /\ day'[e].reserved \in Int
  BY DEF DeliveryInv, Typed, DayRow
<1>2. day'[e].reserved - day[e].reserved = 0
  BY <1>1
<1>3. day'[e].reserved = Holders(e)' + extra'[e]
  BY <1>1, <1>2, SumKept
<1> QED
  BY <1>3 DEF DeliveryInv, SlotsAddUp

\* A step that leaves the days alone and moves nothing that counts.
LEMMA NothingMoves ==
  ASSUME DeliveryInv, NEW e \in Day \ raced, day' = day, extra' = extra,
         Cardinality(LiveOn(e))' = Cardinality(LiveOn(e)),
         Cardinality(OwedOn(e))' = Cardinality(OwedOn(e))
  PROVE  /\ day'[e].reserved = Holders(e)' + extra'[e]
         /\ day'[e].free = NotBelowZero(day'[e].capacity - day'[e].reserved)
<1>1. Cardinality(LiveOn(e)) \in Int /\ Cardinality(OwedOn(e)) \in Int /\ extra[e] \in Int
  BY Finite DEF DeliveryInv, Typed
<1> QED
  BY <1>1, DaysAlone

----------------------------------------------------------------------------
(* reserveSlot *)

LEMMA ReadDayStep ==
  ASSUME DeliveryInv, NEW r \in Caller, ReadDay(r), NEW d, NEW o,
         d = caller[r].day, o = caller[r].order
  PROVE  DeliveryInv'
<1> DEFINE c == At("book", d, o, FALSE)
<1>1. /\ caller[r].kind = "reserve" /\ ForCheckout(r) /\ d \in Day /\ o \in Booking
      /\ booking[o] = [state |-> "checkout", day |-> d]
      /\ \A q \in Caller \ {r} : ForCheckout(q) => caller[q].order # o
  BY AloneWithOrder DEF ReadDay, ForCheckout, StepJob
<1>2. UNCHANGED <<stale, day, extra>>
  BY DEF ReadDay
<1>3. \A q \in Caller \ {r} : ForCheckout(q) => caller[q].order \in Booking \ {o}
  BY <1>1, Kinds DEF DeliveryInv, ForCheckout, StepJob
<1>4. CASE Refuses(d)
  <2>1. /\ caller' = [caller EXCEPT ![r] = NoCall]
        /\ booking' = [booking EXCEPT ![o].state = "gone"] /\ raced' = raced
    BY <1>4 DEF ReadDay
  <2>2. /\ caller'[r] = NoCall /\ \A q \in Caller \ {r} : caller'[q] = caller[q]
        /\ booking'[o] = [state |-> "gone", day |-> d]
        /\ \A p \in Booking \ {o} : booking'[p] = booking[p]
    BY <1>1, <2>1 DEF DeliveryInv, Typed
  <2>3. caller'[r].kind = "none"
    BY <2>2 DEF NoCall
  <2>4. Typed' /\ Dated'
    BY <1>1, <1>2, <2>1, <2>2 DEF DeliveryInv, Typed, Dated, State
  <2>5. CheckoutFits(r)'
    BY <2>3 DEF CheckoutFits, ForCheckout
  <2>6. \A q \in Caller : CheckoutFits(q)'
    BY <1>3, <2>2, <2>5, OthersFit
  <2>7. \A e \in Day \ raced', q \in Caller : ReaderKnows(q, e)'
    BY <1>2, <2>1, <2>2, <2>3, ReadersAfterWrite DEF Reading
  <2>8. ASSUME NEW e \in Day \ raced
        PROVE  /\ day'[e].reserved = Holders(e)' + extra'[e]
               /\ day'[e].free = NotBelowZero(day'[e].capacity - day'[e].reserved)
    <3>1. ~IsLive(o, e) /\ ~IsLive(o, e)'
      BY <1>1, <2>2 DEF IsLive
    <3>2. Cardinality(LiveOn(e))' = Cardinality(LiveOn(e))
      BY <1>1, <2>2, <3>1, LiveAlike
    <3>3. ~Owes(r, e) /\ ~Owes(r, e)'
      BY <1>1, <2>3 DEF Owes
    <3>4. Cardinality(OwedOn(e))' = Cardinality(OwedOn(e))
      BY <2>2, <3>3, OwedChanges, Finite
    <3> QED
      BY <1>2, <3>2, <3>4, NothingMoves
  <2> QED
    BY <2>1, <2>4, <2>6, <2>7, <2>8 DEF DeliveryInv, SlotsAddUp
<1>5. CASE ~Refuses(d)
  <2>1. /\ caller' = [caller EXCEPT ![r] = c] /\ booking' = booking /\ Reads(r, d)
    BY <1>5 DEF ReadDay
  <2>2. /\ c \in StepJob /\ c.kind = "book" /\ c.day = d /\ c.order = o
        /\ c.count = day[d].reserved /\ c.capacity = day[d].capacity
    BY <1>1, AtIsStep DEF At, DeliveryInv
  <2> HIDE DEF c
  <2>3. caller'[r] = c /\ \A q \in Caller \ {r} : caller'[q] = caller[q]
    BY <2>1 DEF DeliveryInv, Typed
  <2>4. raced \subseteq raced' /\ raced' \in SUBSET Day
    BY <1>1, <2>1 DEF Reads, DeliveryInv, Typed
  <2>5. Typed' /\ Dated'
    BY <1>2, <2>1, <2>2, <2>4 DEF DeliveryInv, Typed, Dated
  <2>6. CheckoutFits(r)'
    BY <1>1, <2>1, <2>2, <2>3 DEF CheckoutFits, ForCheckout
  <2>7. \A q \in Caller : CheckoutFits(q)'
    BY <2>1, <2>3, <2>6, OthersFit
  <2>8. \A e \in Day \ raced', q \in Caller : ReaderKnows(q, e)'
    BY <1>1, <1>2, <2>1, <2>2, <2>3, ReadersAfterRead
  <2>9. ASSUME NEW e \in Day \ raced
        PROVE  /\ day'[e].reserved = Holders(e)' + extra'[e]
               /\ day'[e].free = NotBelowZero(day'[e].capacity - day'[e].reserved)
    <3>1. Cardinality(LiveOn(e))' = Cardinality(LiveOn(e))
      BY <2>1, LiveAlike
    <3>2. ~Owes(r, e) /\ ~Owes(r, e)'
      BY <1>1, <2>2, <2>3 DEF Owes
    <3>3. Cardinality(OwedOn(e))' = Cardinality(OwedOn(e))
      BY <2>3, <3>2, OwedChanges, Finite
    <3> QED
      BY <1>2, <3>1, <3>3, NothingMoves
  <2> QED
    BY <2>4, <2>5, <2>7, <2>8, <2>9 DEF DeliveryInv, SlotsAddUp
<1> QED
  BY <1>4, <1>5

LEMMA WriteDayStep ==
  ASSUME DeliveryInv, NEW r \in Caller, WriteDay(r), NEW d, NEW o, NEW n,
         d = caller[r].day, o = caller[r].order, n = caller[r].count + 1
  PROVE  DeliveryInv'
<1> DEFINE c == At("order", d, o, TRUE)
<1>1. /\ caller[r].kind = "book" /\ caller[r] \in StepJob /\ d \in Day /\ o \in Booking
      /\ n \in Nat
      /\ booking[o] = [state |-> "checkout", day |-> d]
      /\ \A q \in Caller \ {r} : ForCheckout(q) => caller[q].order # o
  BY AloneWithOrder DEF WriteDay, ForCheckout, StepJob
<1>2. /\ Counted(caller[r], n) /\ caller' = [caller EXCEPT ![r] = c]
      /\ UNCHANGED <<stale, booking, raced, extra>>
  BY DEF WriteDay
<1>3. /\ day' \in [Day -> DayRow] /\ \A e \in Day \ {d} : day'[e] = day[e]
      /\ day'[d].reserved = n /\ day'[d].capacity = day[d].capacity
      /\ day'[d].free = NotBelowZero(caller[r].capacity - n)
  BY <1>1, <1>2, CountedRow DEF DeliveryInv
<1>4. c \in StepJob /\ c.kind = "order" /\ c.day = d /\ c.order = o /\ c.owes
  BY <1>1, AtIsStep DEF At, DeliveryInv
<1> HIDE DEF c
<1>5. caller'[r] = c /\ \A q \in Caller \ {r} : caller'[q] = caller[q]
  BY <1>2 DEF DeliveryInv, Typed
<1>6. Typed' /\ Dated'
  BY <1>2, <1>3, <1>4 DEF DeliveryInv, Typed, Dated
<1>7. CheckoutFits(r)'
  BY <1>1, <1>2, <1>4, <1>5 DEF CheckoutFits, ForCheckout
<1>8. \A q \in Caller : CheckoutFits(q)'
  BY <1>2, <1>5, <1>7, OthersFit
<1>9. Reader(r, d)
  BY <1>1 DEF Reader, Reading
<1>10. \A e \in Day \ raced', q \in Caller : ReaderKnows(q, e)'
  BY <1>2, <1>3, <1>4, <1>5, <1>9, ReadersAfterWrite DEF Reading
<1>11. ASSUME NEW e \in Day \ raced
       PROVE  /\ day'[e].reserved = Holders(e)' + extra'[e]
              /\ day'[e].free = NotBelowZero(day'[e].capacity - day'[e].reserved)
  <2>1. Cardinality(LiveOn(e))' = Cardinality(LiveOn(e))
    BY <1>2, LiveAlike
  <2>2. ~Owes(r, e) /\ (Owes(r, e)' <=> e = d)
    BY <1>1, <1>4, <1>5 DEF Owes
  <2>3. extra[e] \in Int /\ day[e].reserved \in Int
    BY DEF DeliveryInv, Typed, DayRow
  <2>4. CASE e = d
    <3>1. caller[r].count = day[d].reserved /\ caller[r].capacity = day[d].capacity
      BY <1>1, <1>9, <2>4 DEF DeliveryInv, ReaderKnows
    <3>2. Cardinality(OwedOn(e))' = Cardinality(OwedOn(e)) + 1
      BY <1>5, <2>2, <2>4, OwedChanges, Finite
    <3>3. /\ Cardinality(LiveOn(e)) \in Int /\ Cardinality(OwedOn(e)) \in Int
          /\ extra' = extra /\ day'[e].reserved = day[e].reserved + 1
      BY <1>1, <1>2, <1>3, <2>4, <3>1, Finite
    <3>4. day'[e].reserved = Holders(e)' + extra'[e]
      BY <2>1, <2>3, <3>2, <3>3, SumKept
    <3> QED
      BY <1>3, <2>4, <3>1, <3>4
  <2>5. CASE e # d
    <3>1. day'[e] = day[e] /\ extra' = extra
      BY <1>2, <1>3, <2>5
    <3>2. Cardinality(OwedOn(e))' = Cardinality(OwedOn(e))
      BY <1>5, <2>2, <2>5, OwedChanges, Finite
    <3>3. Cardinality(LiveOn(e)) \in Int /\ Cardinality(OwedOn(e)) \in Int
      BY Finite
    <3>4. day'[e].reserved = Holders(e)' + extra'[e]
      BY <2>1, <2>3, <3>1, <3>2, <3>3, SumKept
    <3> QED
      BY <3>1, <3>4 DEF DeliveryInv, SlotsAddUp
  <2> QED
    BY <2>4, <2>5
<1> QED
  BY <1>2, <1>6, <1>8, <1>10, <1>11 DEF DeliveryInv, SlotsAddUp

----------------------------------------------------------------------------
(* The end of a checkout *)

LEMMA CommitOrderStep ==
  ASSUME DeliveryInv, NEW r \in Caller, CommitOrder(r), NEW d, NEW o,
         d = caller[r].day, o = caller[r].order
  PROVE  DeliveryInv'
<1>1. /\ caller[r].kind = "order" /\ d \in Day /\ o \in Booking /\ caller[r].owes
      /\ booking[o] = [state |-> "checkout", day |-> d]
      /\ \A q \in Caller \ {r} : ForCheckout(q) => caller[q].order # o
  BY AloneWithOrder DEF CommitOrder, ForCheckout, StepJob
<1>2. /\ caller' = [caller EXCEPT ![r] = NoCall]
      /\ booking' = [booking EXCEPT ![o].state = "live"]
      /\ UNCHANGED <<stale, day, raced, extra>>
  BY DEF CommitOrder
<1>3. /\ caller'[r] = NoCall /\ \A q \in Caller \ {r} : caller'[q] = caller[q]
      /\ booking'[o] = [state |-> "live", day |-> d]
      /\ \A p \in Booking \ {o} : booking'[p] = booking[p]
  BY <1>1, <1>2 DEF DeliveryInv, Typed
<1>4. caller'[r].kind = "none"
  BY <1>3 DEF NoCall
<1>5. Typed' /\ Dated'
  BY <1>1, <1>2, <1>3 DEF DeliveryInv, Typed, Dated, State
<1>6. \A q \in Caller : CheckoutFits(q)'
  <2>1. \A q \in Caller \ {r} : ForCheckout(q) => caller[q].order \in Booking \ {o}
    BY <1>1, Kinds DEF DeliveryInv, ForCheckout, StepJob
  <2>2. CheckoutFits(r)'
    BY <1>4 DEF CheckoutFits, ForCheckout
  <2> QED
    BY <1>3, <2>1, <2>2, OthersFit
<1>7. \A e \in Day \ raced', q \in Caller : ReaderKnows(q, e)'
  BY <1>2, <1>3, <1>4, ReadersAfterWrite DEF Reading
<1>8. ASSUME NEW e \in Day \ raced
      PROVE  /\ day'[e].reserved = Holders(e)' + extra'[e]
             /\ day'[e].free = NotBelowZero(day'[e].capacity - day'[e].reserved)
  <2>1. ~IsLive(o, e) /\ ~Owes(r, e)' /\ (IsLive(o, e)' <=> e = d) /\ (Owes(r, e) <=> e = d)
    BY <1>1, <1>3, <1>4 DEF IsLive, Owes
  <2>2. Cardinality(LiveOn(e))' = Cardinality(LiveOn(e)) + (IF e = d THEN 1 ELSE 0)
    BY <1>1, <1>3, <2>1, LiveChanges, Finite
  <2>3. Cardinality(OwedOn(e))' = Cardinality(OwedOn(e)) - (IF e = d THEN 1 ELSE 0)
    BY <1>3, <2>1, OwedChanges, Finite
  <2>4. /\ Cardinality(LiveOn(e)) \in Int /\ Cardinality(OwedOn(e)) \in Int
        /\ extra'[e] = extra[e] /\ extra[e] \in Int /\ day' = day
    BY <1>2, Finite DEF DeliveryInv, Typed
  <2> QED
    BY <2>2, <2>3, <2>4, DaysAlone
<1> QED
  BY <1>2, <1>5, <1>6, <1>7, <1>8 DEF DeliveryInv, SlotsAddUp

LEMMA FailOrderStep ==
  ASSUME DeliveryInv, NEW r \in Caller, FailOrder(r), NEW d, NEW o,
         d = caller[r].day, o = caller[r].order
  PROVE  DeliveryInv'
<1> DEFINE c == At("giveBack", d, o, TRUE)
<1>1. /\ caller[r].kind = "order" /\ d \in Day /\ o \in Booking /\ caller[r].owes
      /\ booking[o] = [state |-> "checkout", day |-> d]
      /\ \A q \in Caller \ {r} : ForCheckout(q) => caller[q].order # o
  BY AloneWithOrder DEF FailOrder, ForCheckout, StepJob
<1>2. /\ caller' = [caller EXCEPT ![r] = c]
      /\ booking' = [booking EXCEPT ![o].state = "gone"]
      /\ UNCHANGED <<stale, day, raced, extra>>
  BY DEF FailOrder
<1>3. c \in StepJob /\ c.kind = "giveBack" /\ c.day = d /\ c.owes
  BY <1>1, AtIsStep DEF At, DeliveryInv
<1> HIDE DEF c
<1>4. /\ caller'[r] = c /\ \A q \in Caller \ {r} : caller'[q] = caller[q]
      /\ booking'[o] = [state |-> "gone", day |-> d]
      /\ \A p \in Booking \ {o} : booking'[p] = booking[p]
  BY <1>1, <1>2 DEF DeliveryInv, Typed
<1>5. Typed' /\ Dated'
  BY <1>1, <1>2, <1>3, <1>4 DEF DeliveryInv, Typed, Dated, State
<1>6. \A q \in Caller : CheckoutFits(q)'
  <2>1. \A q \in Caller \ {r} : ForCheckout(q) => caller[q].order \in Booking \ {o}
    BY <1>1, Kinds DEF DeliveryInv, ForCheckout, StepJob
  <2>2. CheckoutFits(r)'
    BY <1>3, <1>4 DEF CheckoutFits, ForCheckout
  <2> QED
    BY <1>4, <2>1, <2>2, OthersFit
<1>7. \A e \in Day \ raced', q \in Caller : ReaderKnows(q, e)'
  BY <1>2, <1>3, <1>4, ReadersAfterWrite DEF Reading
<1>8. ASSUME NEW e \in Day \ raced
      PROVE  /\ day'[e].reserved = Holders(e)' + extra'[e]
             /\ day'[e].free = NotBelowZero(day'[e].capacity - day'[e].reserved)
  <2>1. ~IsLive(o, e) /\ ~IsLive(o, e)' /\ (Owes(r, e) <=> Owes(r, e)')
    BY <1>1, <1>3, <1>4 DEF IsLive, Owes
  <2>2. Cardinality(LiveOn(e))' = Cardinality(LiveOn(e))
    BY <1>1, <1>4, <2>1, LiveAlike
  <2>3. Cardinality(OwedOn(e))' = Cardinality(OwedOn(e))
    BY <1>4, <2>1, OwedChanges, Finite
  <2> QED
    BY <1>2, <2>2, <2>3, NothingMoves
<1> QED
  BY <1>2, <1>5, <1>6, <1>7, <1>8 DEF DeliveryInv, SlotsAddUp

----------------------------------------------------------------------------
(* Cancellations *)

\* An order that was not to be delivered, or is not any more.
LEMMA Elsewhere ==
  ASSUME DeliveryInv, NEW o \in Booking, booking[o].state # "checkout",
         \A p \in Booking \ {o} : booking'[p] = booking[p], UNCHANGED caller
  PROVE  \A q \in Caller : CheckoutFits(q)'
<1>1. \A q \in Caller : ForCheckout(q) => caller[q].order \in Booking \ {o}
  BY NobodyFor, Kinds DEF DeliveryInv, ForCheckout, StepJob
<1> QED
  BY <1>1 DEF DeliveryInv, CheckoutFits, ForCheckout

\* What a change of date adds to the history of every day.
LEMMA MovedSums ==
  ASSUME DeliveryInv, NEW o \in Booking, booking[o].state = "live", NEW d,
         extra' = Moved(o, d)
  PROVE  /\ extra' \in [Day -> Int]
         /\ \A e \in Day : extra'[e] = extra[e] + (IF IsLive(o, e) THEN 1 ELSE 0)
                                              - (IF e = d THEN 1 ELSE 0)
<1>1. \A e \in Day : IsLive(o, e) <=> e = booking[o].day
  BY DEF IsLive
<1>2. \A e \in Day : extra[e] \in Int
  BY DEF DeliveryInv, Typed
<1> QED
  BY <1>1, <1>2 DEF Moved

\* An order is given a date, and whatever it was before, extra says what it moved.
LEMMA DateStep ==
  ASSUME DeliveryInv, NEW o \in Booking, NEW d \in Day, MoveDate(o, d) \/ UpdateStatus(o, d)
  PROVE  DeliveryInv'
<1>1. /\ booking[o].state \in {"live", "cancelled"}
      /\ booking' = [booking EXCEPT ![o].day = d]
      /\ extra' = IF booking[o].state = "live" THEN Moved(o, d) ELSE extra
      /\ UNCHANGED <<day, caller, raced>> /\ stale' \in SUBSET Caller
  BY DEF MoveDate, UpdateStatus, Outdated, DeliveryInv, Typed
<1>2. /\ booking'[o] = [state |-> booking[o].state, day |-> d]
      /\ \A p \in Booking \ {o} : booking'[p] = booking[p]
      /\ booking' \in [Booking -> [state : State, day : Day \cup {0}]]
  BY <1>1 DEF DeliveryInv, Typed
<1>3. extra' \in [Day -> Int]
  BY <1>1, MovedSums DEF DeliveryInv, Typed
<1>4. Typed' /\ Dated'
  BY <1>1, <1>2, <1>3 DEF DeliveryInv, Typed, Dated
<1>5. \A q \in Caller : CheckoutFits(q)'
  BY <1>1, <1>2, Elsewhere
<1>6. \A e \in Day \ raced', q \in Caller : ReaderKnows(q, e)'
  BY <1>1 DEF DeliveryInv, ReaderKnows, Reader
<1>7. ASSUME NEW e \in Day \ raced
      PROVE  /\ day'[e].reserved = Holders(e)' + extra'[e]
             /\ day'[e].free = NotBelowZero(day'[e].capacity - day'[e].reserved)
  <2>1. OwedOn(e)' = OwedOn(e)
    BY <1>1 DEF OwedOn
  <2>2. Cardinality(OwedOn(e))' = Cardinality(OwedOn(e))
    BY <2>1
  <2>3. CASE booking[o].state = "live"
    <3> DEFINE was == IF IsLive(o, e) THEN 1 ELSE 0
               is == IF e = d THEN 1 ELSE 0
    <3>1. IsLive(o, e)' <=> e = d
      BY <1>2, <2>3 DEF IsLive
    <3>2. Cardinality(LiveOn(e))' = Cardinality(LiveOn(e)) + is - was
      BY <1>2, <3>1, LiveChanges
    <3>3. extra'[e] = extra[e] + was - is
      BY <1>1, <2>3, MovedSums
    <3>4. /\ Cardinality(LiveOn(e)) \in Int /\ Cardinality(OwedOn(e)) \in Int
          /\ extra[e] \in Int /\ extra'[e] \in Int /\ day' = day
          /\ was \in Int /\ is \in Int
      BY <1>1, <1>3, Finite DEF DeliveryInv, Typed
    <3> HIDE DEF was, is
    <3> QED
      BY <2>2, <3>2, <3>3, <3>4, DaysAlone
  <2>4. CASE booking[o].state = "cancelled"
    <3>1. ~IsLive(o, e) /\ ~IsLive(o, e)' /\ extra' = extra
      BY <1>1, <1>2, <2>4 DEF IsLive
    <3>2. Cardinality(LiveOn(e))' = Cardinality(LiveOn(e))
      BY <1>2, <3>1, LiveAlike
    <3> QED
      BY <1>1, <2>2, <3>1, <3>2, NothingMoves
  <2> QED
    BY <1>1, <2>3, <2>4
<1> QED
  BY <1>1, <1>4, <1>5, <1>6, <1>7 DEF DeliveryInv, SlotsAddUp

\* Steps of a cancellation that change no order.
Waits(r, c) ==
  /\ caller[r].kind \in {"none", "cancel"}
  /\ c = NoCall \/ (c \in StepJob /\ c.kind \in {"cancel", "giveBack"} /\ ~c.owes)
  /\ caller' = [caller EXCEPT ![r] = c]
  /\ UNCHANGED <<day, booking, raced, extra>> /\ stale' \in SUBSET Caller

LEMMA CancelWaits ==
  ASSUME DeliveryInv, NEW r \in Caller, NEW c, Waits(r, c)
  PROVE  DeliveryInv'
<1> USE DEF Waits
<1>1. caller'[r] = c /\ \A q \in Caller \ {r} : caller'[q] = caller[q]
  BY DEF DeliveryInv, Typed
<1>2. /\ c.kind \in {"none", "cancel", "giveBack"}
      /\ c.kind \in {"order", "giveBack", "release"} => ~c.owes
  BY DEF NoCall
<1>3. Typed' /\ Dated'
  BY DEF DeliveryInv, Typed, Dated
<1>4. \A q \in Caller : CheckoutFits(q)'
  <2>1. CheckoutFits(r)'
    BY <1>1, <1>2 DEF CheckoutFits, ForCheckout
  <2> QED
    BY <1>1, <2>1, OthersFit
<1>5. \A e \in Day \ raced', q \in Caller : ReaderKnows(q, e)'
  BY <1>1, <1>2, ReadersAfterWrite DEF Reading
<1>6. ASSUME NEW e \in Day \ raced
      PROVE  /\ day'[e].reserved = Holders(e)' + extra'[e]
             /\ day'[e].free = NotBelowZero(day'[e].capacity - day'[e].reserved)
  <2>1. Cardinality(LiveOn(e))' = Cardinality(LiveOn(e))
    BY LiveAlike
  <2>2. ~Owes(r, e) /\ ~Owes(r, e)'
    BY <1>1, <1>2 DEF Owes
  <2>3. Cardinality(OwedOn(e))' = Cardinality(OwedOn(e))
    BY <1>1, <2>2, OwedChanges, Finite
  <2> QED
    BY <2>1, <2>3, NothingMoves
<1> QED
  BY <1>3, <1>4, <1>5, <1>6 DEF DeliveryInv, SlotsAddUp

LEMMA CancelWaitsStep ==
  ASSUME DeliveryInv, NEW r \in Caller,
         \/ \E o \in Booking : ReadOrder(r, o)
         \/ \E d \in Day : CancelRolledBack(r, d)
         \/ RefuseCancel(r)
  PROVE  DeliveryInv'
<1>0. Typed
  BY DEF DeliveryInv
<1>1. ASSUME NEW o \in Booking, ReadOrder(r, o) PROVE DeliveryInv'
  <2> DEFINE c == At("cancel", booking[o].day, o, FALSE)
  <2>1. booking[o].day \in Day /\ caller[r].kind = "none"
    BY <1>1 DEF ReadOrder, DeliveryInv, Dated, NoCall
  <2>2. c \in StepJob /\ c.kind = "cancel" /\ ~c.owes
    BY <1>0, <2>1, AtIsStep DEF At
  <2>3. caller' = [caller EXCEPT ![r] = c] /\ UNCHANGED <<day, booking, stale, raced, extra>>
    BY <1>1 DEF ReadOrder
  <2> HIDE DEF c
  <2>4. Waits(r, c)
    BY <1>0, <2>1, <2>2, <2>3 DEF Typed, Waits
  <2> QED
    BY <2>4, CancelWaits
<1>2. ASSUME NEW d \in Day, CancelRolledBack(r, d) PROVE DeliveryInv'
  <2> DEFINE o == caller[r].order
             c == At("giveBack", d, o, FALSE)
  <2>1. caller[r].kind = "cancel" /\ o \in Booking
    BY <1>0, <1>2, Kinds DEF CancelRolledBack, StepJob
  <2>2. c \in StepJob /\ c.kind = "giveBack" /\ ~c.owes
    BY <1>0, <2>1, AtIsStep DEF At
  <2>3. caller' = [caller EXCEPT ![r] = c] /\ UNCHANGED <<day, booking, stale, raced, extra>>
    BY <1>2 DEF CancelRolledBack
  <2> HIDE DEF c
  <2>4. Waits(r, c)
    BY <1>0, <2>1, <2>2, <2>3 DEF Typed, Waits
  <2> QED
    BY <2>4, CancelWaits
<1>3. ASSUME RefuseCancel(r) PROVE DeliveryInv'
  <2>1. Waits(r, NoCall)
    BY <1>0, <1>3 DEF RefuseCancel, Typed, Waits
  <2> QED
    BY <2>1, CancelWaits
<1> QED
  BY <1>1, <1>2, <1>3

LEMMA CancelByStaffStep ==
  ASSUME DeliveryInv, NEW r \in Caller, NEW d \in Day, CancelByStaff(r, d),
         NEW o, o = caller[r].order, NEW live, live = (booking[o].state = "live")
  PROVE  DeliveryInv'
<1> DEFINE c == At("giveBack", d, o, live)
           b == [state |-> "cancelled", day |-> d]
<1>0. Typed
  BY DEF DeliveryInv
<1>1. /\ caller[r].kind = "cancel" /\ o \in Booking /\ live \in BOOLEAN
      /\ booking[o].state \in {"live", "cancelled"}
      /\ UNCHANGED <<day, raced>> /\ stale' \in SUBSET Caller
      /\ booking' = [booking EXCEPT ![o] = b]
      /\ extra' = IF live THEN Moved(o, d) ELSE extra
      /\ caller' = [caller EXCEPT ![r] = c]
  BY <1>0, Kinds DEF CancelByStaff, StepJob, Outdated, Typed
<1>2. c \in StepJob /\ c.kind = "giveBack" /\ c.day = d /\ c.owes = live
  BY <1>0, <1>1, AtIsStep DEF At
<1> HIDE DEF c
<1>3. /\ caller'[r] = c /\ \A q \in Caller \ {r} : caller'[q] = caller[q]
      /\ booking'[o] = b /\ \A p \in Booking \ {o} : booking'[p] = booking[p]
  BY <1>0, <1>1 DEF Typed
<1>4. extra' \in [Day -> Int]
  BY <1>0, <1>1, MovedSums DEF Typed
<1>5. Typed' /\ Dated'
  <2>1. b \in [state : State, day : Day \cup {0}]
    BY DEF State
  <2> HIDE DEF b
  <2>2. Typed'
    BY <1>0, <1>1, <1>2, <1>4, <2>1 DEF Typed
  <2>3. Dated'
    BY <1>3 DEF DeliveryInv, Dated, b
  <2> QED
    BY <2>2, <2>3
<1>6. \A q \in Caller : CheckoutFits(q)'
  <2>1. \A q \in Caller \ {r} : ForCheckout(q) => caller[q].order \in Booking \ {o}
    BY <1>0, <1>1, NobodyFor, Kinds DEF ForCheckout, StepJob
  <2>2. CheckoutFits(r)'
    BY <1>2, <1>3 DEF CheckoutFits, ForCheckout
  <2> QED
    BY <1>3, <2>1, <2>2, OthersFit
<1>7. \A e \in Day \ raced', q \in Caller : ReaderKnows(q, e)'
  BY <1>1, <1>2, <1>3, ReadersAfterWrite DEF Reading
<1>8. ASSUME NEW e \in Day \ raced
      PROVE  /\ day'[e].reserved = Holders(e)' + extra'[e]
             /\ day'[e].free = NotBelowZero(day'[e].capacity - day'[e].reserved)
  <2> DEFINE was == IF IsLive(o, e) THEN 1 ELSE 0
             owed == IF live /\ e = d THEN 1 ELSE 0
  <2>1. ~IsLive(o, e)' /\ (IsLive(o, e) => live)
    <3>1. booking'[o].state = "cancelled"
      BY <1>3
    <3> QED
      BY <3>1 DEF IsLive
  <2>2. ~Owes(r, e) /\ (Owes(r, e)' <=> live /\ e = d)
    BY <1>1, <1>2, <1>3 DEF Owes
  <2>3. Cardinality(LiveOn(e))' = Cardinality(LiveOn(e)) - was
    BY <1>1, <1>3, <2>1, LiveChanges, Finite
  <2>4. Cardinality(OwedOn(e))' = Cardinality(OwedOn(e)) + owed
    BY <1>3, <2>2, OwedChanges, Finite
  <2>5. extra[e] \in Int /\ extra'[e] \in Int /\ was \in Int /\ owed \in Int
    BY <1>0, <1>4 DEF Typed
  <2>6. extra'[e] = extra[e] + was - owed
    <3>1. CASE live
      <4>1. o \in Booking /\ booking[o].state = "live" /\ extra' = Moved(o, d)
        BY <1>1, <3>1
      <4>2. extra'[e] = extra[e] + (IF IsLive(o, e) THEN 1 ELSE 0) - (IF e = d THEN 1 ELSE 0)
        BY <4>1, MovedSums
      <4> QED
        BY <3>1, <4>2
    <3>2. CASE ~live
      BY <1>1, <2>1, <2>5, <3>2
    <3> QED
      BY <1>1, <3>1, <3>2
  <2>7. /\ Cardinality(LiveOn(e)) \in Int /\ Cardinality(OwedOn(e)) \in Int /\ day' = day
    BY <1>1, Finite
  <2> HIDE DEF was, owed
  <2> QED
    BY <2>3, <2>4, <2>5, <2>6, <2>7, DaysAlone
<1> QED
  BY <1>1, <1>5, <1>6, <1>7, <1>8 DEF DeliveryInv, SlotsAddUp

LEMMA CancelByCustomerStep ==
  ASSUME DeliveryInv, NEW o \in Booking, CancelByCustomer(o), NEW d, d = booking[o].day
  PROVE  DeliveryInv'
<1>1. /\ booking[o].state = "live" /\ d \in Day
      /\ extra' = [extra EXCEPT ![d] = @ + 1]
      /\ booking' = [booking EXCEPT ![o].state = "cancelled"]
      /\ UNCHANGED <<stale, day, caller, raced>>
  BY DEF CancelByCustomer, DeliveryInv, Dated
<1>2. /\ booking'[o] = [state |-> "cancelled", day |-> d]
      /\ \A p \in Booking \ {o} : booking'[p] = booking[p]
      /\ extra' \in [Day -> Int] /\ extra'[d] = extra[d] + 1
      /\ \A e \in Day \ {d} : extra'[e] = extra[e]
  BY <1>1 DEF DeliveryInv, Typed
<1>3. Typed' /\ Dated'
  BY <1>1, <1>2 DEF DeliveryInv, Typed, Dated, State
<1>4. \A q \in Caller : CheckoutFits(q)'
  <2>1. \A q \in Caller : ForCheckout(q) => caller[q].order \in Booking \ {o}
    BY <1>1, NobodyFor, Kinds DEF DeliveryInv, ForCheckout, StepJob
  <2> QED
    BY <1>1, <1>2, <2>1 DEF DeliveryInv, CheckoutFits, ForCheckout
<1>5. \A e \in Day \ raced', q \in Caller : ReaderKnows(q, e)'
  BY <1>1 DEF DeliveryInv, ReaderKnows, Reader
<1>6. ASSUME NEW e \in Day \ raced
      PROVE  /\ day'[e].reserved = Holders(e)' + extra'[e]
             /\ day'[e].free = NotBelowZero(day'[e].capacity - day'[e].reserved)
  <2> DEFINE moved == IF e = d THEN 1 ELSE 0
  <2>1. (IsLive(o, e) <=> e = d) /\ ~IsLive(o, e)'
    BY <1>1, <1>2 DEF IsLive
  <2>2. Cardinality(LiveOn(e))' = Cardinality(LiveOn(e)) - moved
    BY <1>2, <2>1, LiveChanges, Finite
  <2>3. OwedOn(e)' = OwedOn(e)
    BY <1>1 DEF OwedOn
  <2>4. Cardinality(OwedOn(e))' = Cardinality(OwedOn(e))
    BY <2>3
  <2>5. /\ Cardinality(LiveOn(e)) \in Int /\ Cardinality(OwedOn(e)) \in Int
        /\ extra'[e] = extra[e] + moved /\ extra[e] \in Int /\ day' = day
    BY <1>1, <1>2, Finite DEF DeliveryInv, Typed
  <2> QED
    BY <2>2, <2>4, <2>5, DaysAlone
<1> QED
  BY <1>1, <1>3, <1>4, <1>5, <1>6 DEF DeliveryInv, SlotsAddUp

LEMMA ReviveStep ==
  ASSUME DeliveryInv, NEW o \in Booking, Revive(o), NEW d, d = booking[o].day
  PROVE  DeliveryInv'
<1>1. /\ booking[o].state = "cancelled" /\ d \in Day
      /\ extra' = [extra EXCEPT ![d] = @ - 1]
      /\ booking' = [booking EXCEPT ![o].state = "live"]
      /\ UNCHANGED <<stale, day, caller, raced>>
  BY DEF Revive, DeliveryInv, Dated
<1>2. /\ booking'[o] = [state |-> "live", day |-> d]
      /\ \A p \in Booking \ {o} : booking'[p] = booking[p]
      /\ extra' \in [Day -> Int] /\ extra'[d] = extra[d] - 1
      /\ \A e \in Day \ {d} : extra'[e] = extra[e]
  BY <1>1 DEF DeliveryInv, Typed
<1>3. Typed' /\ Dated'
  BY <1>1, <1>2 DEF DeliveryInv, Typed, Dated, State
<1>4. \A q \in Caller : CheckoutFits(q)'
  <2>1. \A q \in Caller : ForCheckout(q) => caller[q].order \in Booking \ {o}
    BY <1>1, NobodyFor, Kinds DEF DeliveryInv, ForCheckout, StepJob
  <2> QED
    BY <1>1, <1>2, <2>1 DEF DeliveryInv, CheckoutFits, ForCheckout
<1>5. \A e \in Day \ raced', q \in Caller : ReaderKnows(q, e)'
  BY <1>1 DEF DeliveryInv, ReaderKnows, Reader
<1>6. ASSUME NEW e \in Day \ raced
      PROVE  /\ day'[e].reserved = Holders(e)' + extra'[e]
             /\ day'[e].free = NotBelowZero(day'[e].capacity - day'[e].reserved)
  <2> DEFINE moved == IF e = d THEN 1 ELSE 0
  <2>1. ~IsLive(o, e) /\ (IsLive(o, e)' <=> e = d)
    BY <1>1, <1>2 DEF IsLive
  <2>2. Cardinality(LiveOn(e))' = Cardinality(LiveOn(e)) + moved
    BY <1>2, <2>1, LiveChanges, Finite
  <2>3. OwedOn(e)' = OwedOn(e)
    BY <1>1 DEF OwedOn
  <2>4. Cardinality(OwedOn(e))' = Cardinality(OwedOn(e))
    BY <2>3
  <2>5. /\ Cardinality(LiveOn(e)) \in Int /\ Cardinality(OwedOn(e)) \in Int
        /\ extra'[e] = extra[e] - moved /\ extra[e] \in Int /\ day' = day
    BY <1>1, <1>2, Finite DEF DeliveryInv, Typed
  <2> QED
    BY <2>2, <2>4, <2>5, DaysAlone
<1> QED
  BY <1>1, <1>3, <1>4, <1>5, <1>6 DEF DeliveryInv, SlotsAddUp

----------------------------------------------------------------------------
(* releaseSlot *)

LEMMA ReadStoredStep ==
  ASSUME DeliveryInv, NEW r \in Caller, ReadRelease(r), day[caller[r].day].stored,
         NEW d, NEW o, NEW owes,
         d = caller[r].day, o = caller[r].order, owes = caller[r].owes
  PROVE  DeliveryInv'
<1> DEFINE c == At("release", d, o, owes)
<1>1. /\ caller[r].kind = "giveBack" /\ caller[r] \in StepJob
      /\ d \in Day /\ o \in Booking /\ owes \in BOOLEAN
  BY Kinds DEF ReadRelease, StepJob, DeliveryInv
<1>2. /\ caller' = [caller EXCEPT ![r] = c] /\ Reads(r, d)
      /\ UNCHANGED <<stale, day, booking, extra>>
  BY DEF ReadRelease
<1>3. /\ c \in StepJob /\ c.kind = "release" /\ c.day = d /\ c.owes = owes
      /\ c.count = day[d].reserved /\ c.capacity = day[d].capacity
  BY <1>1, AtIsStep, ZenonT(60) DEF At, DeliveryInv
<1> HIDE DEF c
<1>4. caller'[r] = c /\ \A q \in Caller \ {r} : caller'[q] = caller[q]
  BY <1>2 DEF DeliveryInv, Typed
<1>5. raced \subseteq raced' /\ raced' \in SUBSET Day
  BY <1>1, <1>2 DEF Reads, DeliveryInv, Typed
<1>6. Typed' /\ Dated'
  BY <1>2, <1>3, <1>5 DEF DeliveryInv, Typed, Dated
<1>7. \A q \in Caller : CheckoutFits(q)'
  <2>1. CheckoutFits(r)'
    BY <1>3, <1>4 DEF CheckoutFits, ForCheckout
  <2> QED
    BY <1>2, <1>4, <2>1, OthersFit
<1>8. \A e \in Day \ raced', q \in Caller : ReaderKnows(q, e)'
  BY <1>1, <1>2, <1>3, <1>4, ReadersAfterRead
<1>9. ASSUME NEW e \in Day \ raced
      PROVE  /\ day'[e].reserved = Holders(e)' + extra'[e]
             /\ day'[e].free = NotBelowZero(day'[e].capacity - day'[e].reserved)
  <2>1. Cardinality(LiveOn(e))' = Cardinality(LiveOn(e))
    BY <1>2, LiveAlike
  <2>2. Owes(r, e) <=> Owes(r, e)'
    BY <1>1, <1>3, <1>4 DEF Owes
  <2>3. Cardinality(OwedOn(e))' = Cardinality(OwedOn(e))
    BY <1>4, <2>2, OwedChanges, Finite
  <2> QED
    BY <1>2, <2>1, <2>3, NothingMoves
<1> QED
  BY <1>5, <1>6, <1>7, <1>8, <1>9 DEF DeliveryInv, SlotsAddUp

\* A day that has no row is left alone, and what was owed on it stays.
LEMMA NoRowStep ==
  ASSUME DeliveryInv, NEW r \in Caller, ReadRelease(r), ~day[caller[r].day].stored,
         NEW d, NEW owed, d = caller[r].day, owed = IF caller[r].owes THEN 1 ELSE 0
  PROVE  DeliveryInv'
<1>1. /\ caller[r].kind = "giveBack" /\ d \in Day /\ caller[r].owes \in BOOLEAN
  BY Kinds DEF ReadRelease, StepJob, DeliveryInv
<1>2. /\ extra' = [extra EXCEPT ![d] = @ + owed]
      /\ caller' = [caller EXCEPT ![r] = NoCall]
      /\ UNCHANGED <<day, booking, stale, raced>>
  <2>1. extra[d] + owed = IF caller[r].owes THEN extra[d] + 1 ELSE extra[d]
    BY <1>1 DEF DeliveryInv, Typed
  <2> QED
    BY <2>1 DEF ReadRelease
<1>3. /\ caller'[r] = NoCall /\ \A q \in Caller \ {r} : caller'[q] = caller[q]
      /\ extra' \in [Day -> Int] /\ extra'[d] = extra[d] + owed
      /\ \A e \in Day \ {d} : extra'[e] = extra[e]
  BY <1>1, <1>2 DEF DeliveryInv, Typed
<1>4. caller'[r].kind = "none"
  BY <1>3 DEF NoCall
<1>5. Typed' /\ Dated'
  BY <1>2, <1>3 DEF DeliveryInv, Typed, Dated
<1>6. \A q \in Caller : CheckoutFits(q)'
  <2>1. CheckoutFits(r)'
    BY <1>4 DEF CheckoutFits, ForCheckout
  <2> QED
    BY <1>2, <1>3, <2>1, OthersFit
<1>7. \A e \in Day \ raced', q \in Caller : ReaderKnows(q, e)'
  BY <1>2, <1>3, <1>4, ReadersAfterWrite DEF Reading
<1>8. ASSUME NEW e \in Day \ raced
      PROVE  /\ day'[e].reserved = Holders(e)' + extra'[e]
             /\ day'[e].free = NotBelowZero(day'[e].capacity - day'[e].reserved)
  <2> DEFINE moved == IF e = d THEN owed ELSE 0
  <2>1. Cardinality(LiveOn(e))' = Cardinality(LiveOn(e))
    BY <1>2, LiveAlike
  <2>2. ~Owes(r, e)' /\ (Owes(r, e) <=> e = d /\ caller[r].owes)
    BY <1>1, <1>4 DEF Owes
  <2>3. Cardinality(OwedOn(e))' = Cardinality(OwedOn(e)) - moved
    BY <1>3, <2>2, OwedChanges, Finite
  <2>4. /\ Cardinality(LiveOn(e)) \in Int /\ Cardinality(OwedOn(e)) \in Int /\ moved \in Int
        /\ extra'[e] = extra[e] + moved /\ extra[e] \in Int /\ day' = day
    BY <1>2, <1>3, Finite DEF DeliveryInv, Typed
  <2> HIDE DEF moved
  <2> QED
    BY <2>1, <2>3, <2>4, DaysAlone
<1> QED
  BY <1>2, <1>5, <1>6, <1>7, <1>8 DEF DeliveryInv, SlotsAddUp

LEMMA ReadReleaseStep ==
  ASSUME DeliveryInv, NEW r \in Caller, ReadRelease(r) PROVE DeliveryInv'
BY ReadStoredStep, NoRowStep

LEMMA WriteReleaseStep ==
  ASSUME DeliveryInv, NEW r \in Caller, WriteRelease(r), NEW d, NEW n, NEW left, NEW owed,
         d = caller[r].day, n = NotBelowZero(caller[r].count - 1),
         left = LeftOver(caller[r]), owed = IF caller[r].owes THEN 1 ELSE 0
  PROVE  DeliveryInv'
<1>1. /\ caller[r].kind = "release" /\ caller[r] \in StepJob /\ d \in Day
      /\ caller[r].count \in Nat /\ n \in Nat /\ left \in Int
  BY Kinds DEF WriteRelease, StepJob, DeliveryInv, NotBelowZero, LeftOver
<1>2. /\ Counted(caller[r], n) /\ caller' = [caller EXCEPT ![r] = NoCall]
      /\ extra' = [extra EXCEPT ![d] = @ + left]
      /\ UNCHANGED <<stale, booking, raced>>
  BY DEF WriteRelease
<1>3. /\ day' \in [Day -> DayRow] /\ \A e \in Day \ {d} : day'[e] = day[e]
      /\ day'[d].reserved = n /\ day'[d].capacity = day[d].capacity
      /\ day'[d].free = NotBelowZero(caller[r].capacity - n)
  BY <1>1, <1>2, CountedRow DEF DeliveryInv
<1>4. /\ caller'[r] = NoCall /\ \A q \in Caller \ {r} : caller'[q] = caller[q]
      /\ extra' \in [Day -> Int] /\ extra'[d] = extra[d] + left
      /\ \A e \in Day \ {d} : extra'[e] = extra[e]
  BY <1>1, <1>2 DEF DeliveryInv, Typed
<1>5. caller'[r].kind = "none"
  BY <1>4 DEF NoCall
<1>6. Typed' /\ Dated'
  BY <1>2, <1>3, <1>4 DEF DeliveryInv, Typed, Dated
<1>7. \A q \in Caller : CheckoutFits(q)'
  <2>1. CheckoutFits(r)'
    BY <1>5 DEF CheckoutFits, ForCheckout
  <2> QED
    BY <1>2, <1>4, <2>1, OthersFit
<1>8. Reader(r, d)
  BY <1>1 DEF Reader, Reading
<1>9. \A e \in Day \ raced', q \in Caller : ReaderKnows(q, e)'
  BY <1>2, <1>3, <1>4, <1>5, <1>8, ReadersAfterWrite DEF Reading
<1>10. ASSUME NEW e \in Day \ raced
       PROVE  /\ day'[e].reserved = Holders(e)' + extra'[e]
              /\ day'[e].free = NotBelowZero(day'[e].capacity - day'[e].reserved)
  <2>1. Cardinality(LiveOn(e))' = Cardinality(LiveOn(e))
    BY <1>2, LiveAlike
  <2>2. ~Owes(r, e)' /\ (Owes(r, e) <=> e = d /\ caller[r].owes)
    BY <1>1, <1>5 DEF Owes
  <2>3. /\ Cardinality(LiveOn(e)) \in Int /\ Cardinality(OwedOn(e)) \in Int
        /\ extra[e] \in Int /\ day[e].reserved \in Int
    BY Finite DEF DeliveryInv, Typed, DayRow
  <2>4. CASE e = d
    <3>1. caller[r].count = day[d].reserved /\ caller[r].capacity = day[d].capacity
      BY <1>1, <1>8, <2>4 DEF DeliveryInv, ReaderKnows
    <3>2. Cardinality(OwedOn(e))' = Cardinality(OwedOn(e)) - owed
      BY <1>4, <2>2, <2>4, OwedChanges, Finite
    <3>3. n = day[e].reserved + left - owed
      BY <1>1, <2>3, <2>4, <3>1 DEF NotBelowZero, LeftOver
    <3>4. owed \in Int
      OBVIOUS
    <3>5. day'[e].reserved = Holders(e)' + extra'[e]
      BY <1>1, <1>3, <1>4, <2>1, <2>3, <2>4, <3>2, <3>3, <3>4, SumKept
    <3> QED
      BY <1>3, <2>4, <3>1, <3>5
  <2>5. CASE e # d
    <3>1. day'[e] = day[e] /\ extra'[e] = extra[e]
      BY <1>3, <1>4, <2>5
    <3>2. Cardinality(OwedOn(e))' = Cardinality(OwedOn(e))
      BY <1>4, <2>2, <2>5, OwedChanges, Finite
    <3>3. day'[e].reserved = Holders(e)' + extra'[e]
      BY <2>1, <2>3, <3>1, <3>2, SumKept
    <3> QED
      BY <3>1, <3>3 DEF DeliveryInv, SlotsAddUp
  <2> QED
    BY <2>4, <2>5
<1> QED
  BY <1>2, <1>6, <1>7, <1>9, <1>10 DEF DeliveryInv, SlotsAddUp

----------------------------------------------------------------------------
(* updateCapacity *)

LEMMA ReadCapacityStep ==
  ASSUME DeliveryInv, NEW r \in Caller, NEW d \in Day, NEW n \in Capacities,
         NEW closed \in BOOLEAN, ReadCapacity(r, d, n, closed)
  PROVE  DeliveryInv'
<1> DEFINE c == [kind |-> "capacity", day |-> d, to |-> n, closed |-> closed,
                 count |-> day[d].reserved]
<1>1. /\ caller[r] = NoCall /\ caller' = [caller EXCEPT ![r] = c] /\ Reads(r, d)
      /\ UNCHANGED <<stale, day, booking, extra>>
  BY DEF ReadCapacity
<1>2. n \in Nat /\ day[d].reserved \in Nat
  BY DeliveryAssumption DEF DeliveryInv, Typed, DayRow
<1>3. /\ c \in CapacityJob /\ c.kind = "capacity" /\ c.day = d
      /\ c.count = day[d].reserved
  BY <1>2 DEF CapacityJob
<1> HIDE DEF c
<1>4. caller'[r] = c /\ \A q \in Caller \ {r} : caller'[q] = caller[q]
  BY <1>1 DEF DeliveryInv, Typed
<1>5. raced \subseteq raced' /\ raced' \in SUBSET Day
  BY <1>1 DEF Reads, DeliveryInv, Typed
<1>6. Typed' /\ Dated'
  BY <1>1, <1>3, <1>5 DEF DeliveryInv, Typed, Dated
<1>7. \A q \in Caller : CheckoutFits(q)'
  <2>1. CheckoutFits(r)'
    BY <1>3, <1>4 DEF CheckoutFits, ForCheckout
  <2> QED
    BY <1>1, <1>4, <2>1, OthersFit
<1>8. \A e \in Day \ raced', q \in Caller : ReaderKnows(q, e)'
  BY <1>1, <1>3, <1>4, ReadersAfterRead
<1>9. ASSUME NEW e \in Day \ raced
      PROVE  /\ day'[e].reserved = Holders(e)' + extra'[e]
             /\ day'[e].free = NotBelowZero(day'[e].capacity - day'[e].reserved)
  <2>1. Cardinality(LiveOn(e))' = Cardinality(LiveOn(e))
    BY <1>1, LiveAlike
  <2>2. caller[r].kind = "none"
    BY <1>1 DEF NoCall
  <2>3. ~Owes(r, e) /\ ~Owes(r, e)'
    BY <1>3, <1>4, <2>2 DEF Owes
  <2>4. Cardinality(OwedOn(e))' = Cardinality(OwedOn(e))
    BY <1>4, <2>3, OwedChanges, Finite
  <2> QED
    BY <1>1, <2>1, <2>4, NothingMoves
<1> QED
  BY <1>5, <1>6, <1>7, <1>8, <1>9 DEF DeliveryInv, SlotsAddUp

LEMMA WriteCapacityStep ==
  ASSUME DeliveryInv, NEW r \in Caller, WriteCapacity(r), NEW d, NEW free,
         d = caller[r].day, free = NotBelowZero(caller[r].to - caller[r].count)
  PROVE  DeliveryInv'
<1> DEFINE kept == IF day[d].stored THEN day[d].reserved ELSE caller[r].count
           status == IF caller[r].closed THEN "CLOSED" ELSE StatusFor(free)
           row == [stored |-> TRUE, reserved |-> kept, capacity |-> caller[r].to,
                   free |-> free, status |-> status]
<1>1. /\ caller[r].kind = "capacity" /\ d \in Day
      /\ caller[r].to \in Nat /\ caller[r].count \in Nat /\ free \in Nat
  BY Kinds DEF WriteCapacity, CapacityJob, DeliveryInv, NotBelowZero
<1>2. /\ day' = [day EXCEPT ![d] = row]
      /\ caller' = [caller EXCEPT ![r] = NoCall]
      /\ UNCHANGED <<stale, booking, raced, extra>>
  BY DEF WriteCapacity
<1>3. row \in DayRow
  <2>1. kept \in Nat
    BY <1>1 DEF DeliveryInv, Typed, DayRow
  <2>2. status \in Status
    BY DEF StatusFor, Status
  <2> QED
    BY <1>1, <2>1, <2>2 DEF DayRow
<1>4. /\ row.reserved = kept /\ row.capacity = caller[r].to /\ row.free = free
      /\ kept \in {day[d].reserved, caller[r].count}
  OBVIOUS
<1> HIDE DEF row, kept, status
<1>5. /\ caller'[r] = NoCall /\ \A q \in Caller \ {r} : caller'[q] = caller[q]
      /\ day' \in [Day -> DayRow] /\ day'[d] = row /\ \A e \in Day \ {d} : day'[e] = day[e]
  BY <1>1, <1>2, <1>3 DEF DeliveryInv, Typed
<1>6. caller'[r].kind = "none"
  BY <1>5 DEF NoCall
<1>7. Typed' /\ Dated'
  BY <1>2, <1>5 DEF DeliveryInv, Typed, Dated
<1>8. \A q \in Caller : CheckoutFits(q)'
  <2>1. CheckoutFits(r)'
    BY <1>6 DEF CheckoutFits, ForCheckout
  <2> QED
    BY <1>2, <1>5, <2>1, OthersFit
<1>9. Reader(r, d)
  BY <1>1 DEF Reader, Reading
<1>10. \A e \in Day \ raced', q \in Caller : ReaderKnows(q, e)'
  BY <1>2, <1>5, <1>6, <1>9, ReadersAfterWrite DEF Reading
<1>11. ASSUME NEW e \in Day \ raced
       PROVE  /\ day'[e].reserved = Holders(e)' + extra'[e]
              /\ day'[e].free = NotBelowZero(day'[e].capacity - day'[e].reserved)
  <2>1. Cardinality(LiveOn(e))' = Cardinality(LiveOn(e))
    BY <1>2, LiveAlike
  <2>2. ~Owes(r, e) /\ ~Owes(r, e)'
    BY <1>1, <1>6 DEF Owes
  <2>3. Cardinality(OwedOn(e))' = Cardinality(OwedOn(e))
    BY <1>5, <2>2, OwedChanges, Finite
  <2>4. /\ Cardinality(LiveOn(e)) \in Int /\ Cardinality(OwedOn(e)) \in Int
        /\ extra[e] \in Int /\ extra' = extra /\ day[e].reserved \in Int
    BY <1>2, Finite DEF DeliveryInv, Typed, DayRow
  <2>5. CASE e = d
    <3>1. caller[r].count = day[d].reserved
      BY <1>1, <1>9, <2>5 DEF DeliveryInv, ReaderKnows
    <3>2. day'[e].reserved = day[e].reserved
      BY <1>4, <1>5, <2>5, <3>1
    <3>3. day'[e].reserved = Holders(e)' + extra'[e]
      BY <2>1, <2>3, <2>4, <3>2, SumKept
    <3> QED
      BY <1>4, <1>5, <2>5, <3>1, <3>2, <3>3
  <2>6. CASE e # d
    <3>1. day'[e] = day[e]
      BY <1>5, <2>6
    <3>2. day'[e].reserved = Holders(e)' + extra'[e]
      BY <2>1, <2>3, <2>4, <3>1, SumKept
    <3> QED
      BY <3>1, <3>2 DEF DeliveryInv, SlotsAddUp
  <2> QED
    BY <2>5, <2>6
<1> QED
  BY <1>2, <1>7, <1>8, <1>10, <1>11 DEF DeliveryInv, SlotsAddUp

----------------------------------------------------------------------------
(* A request dies *)

LEMMA DieStep ==
  ASSUME DeliveryInv, NEW r \in Caller, Die(r), NEW d, NEW o, NEW owed,
         d = caller[r].day, o = caller[r].order, owed = IF caller[r].owes THEN 1 ELSE 0
  PROVE  DeliveryInv'
<1>1. /\ caller[r].kind \in {"order", "giveBack", "release"}
      /\ d \in Day /\ o \in Booking /\ caller[r].owes \in BOOLEAN
  BY Kinds DEF Die, StepJob, DeliveryInv
<1>2. /\ extra' = [extra EXCEPT ![d] = @ + owed]
      /\ booking' = [booking EXCEPT ![o].state = IF caller[r].kind = "order" THEN "gone" ELSE @]
      /\ caller' = [caller EXCEPT ![r] = NoCall]
      /\ UNCHANGED <<stale, day, raced>>
  <2>1. extra[d] + owed = IF caller[r].owes THEN extra[d] + 1 ELSE extra[d]
    BY <1>1 DEF DeliveryInv, Typed
  <2> QED
    BY <2>1 DEF Die
<1>3. caller[r].kind = "order" =>
        /\ booking[o] = [state |-> "checkout", day |-> d]
        /\ \A q \in Caller \ {r} : ForCheckout(q) => caller[q].order # o
  BY AloneWithOrder DEF ForCheckout
<1>4. /\ caller'[r] = NoCall /\ \A q \in Caller \ {r} : caller'[q] = caller[q]
      /\ extra' \in [Day -> Int] /\ extra'[d] = extra[d] + owed
      /\ \A e \in Day \ {d} : extra'[e] = extra[e]
      /\ \A p \in Booking \ {o} : booking'[p] = booking[p]
  BY <1>1, <1>2 DEF DeliveryInv, Typed
<1>5. /\ caller[r].kind = "order" => booking'[o] = [state |-> "gone", day |-> d]
      /\ caller[r].kind # "order" => booking' = booking
  BY <1>1, <1>2, <1>3 DEF DeliveryInv, Typed
<1>6. caller'[r].kind = "none"
  BY <1>4 DEF NoCall
<1>7. Typed' /\ Dated'
  <2>1. booking' \in [Booking -> [state : State,
                                  day : Day \cup {0}]]
    <3>1. booking[o] \in [state : State, day : Day \cup {0}]
      BY <1>1 DEF DeliveryInv, Typed
    <3>2. booking' = booking \/ booking' = [booking EXCEPT ![o].state = "gone"]
      BY <1>2, <1>5
    <3> QED
      BY <1>1, <3>1, <3>2 DEF DeliveryInv, Typed, State
  <2>2. Dated'
    BY <1>1, <1>4, <1>5 DEF DeliveryInv, Dated
  <2> QED
    BY <1>2, <1>4, <2>1, <2>2 DEF DeliveryInv, Typed
<1>8. \A q \in Caller : CheckoutFits(q)'
  <2>1. CheckoutFits(r)'
    BY <1>6 DEF CheckoutFits, ForCheckout
  <2>2. ASSUME NEW q \in Caller \ {r}, ForCheckout(q)
        PROVE  booking'[caller[q].order] = booking[caller[q].order]
    <3>1. caller[q].order \in Booking
      BY <2>2, Kinds DEF DeliveryInv, ForCheckout, StepJob
    <3> QED
      BY <1>3, <1>4, <1>5, <2>2, <3>1
  <2> QED
    BY <1>4, <2>1, <2>2, OthersFit
<1>9. \A e \in Day \ raced', q \in Caller : ReaderKnows(q, e)'
  BY <1>2, <1>4, <1>6, ReadersAfterWrite DEF Reading
<1>10. ASSUME NEW e \in Day \ raced
       PROVE  /\ day'[e].reserved = Holders(e)' + extra'[e]
              /\ day'[e].free = NotBelowZero(day'[e].capacity - day'[e].reserved)
  <2> DEFINE moved == IF e = d THEN owed ELSE 0
  <2>1. Cardinality(LiveOn(e))' = Cardinality(LiveOn(e))
    <3>1. CASE caller[r].kind = "order"
      <4>1. ~IsLive(o, e) /\ ~IsLive(o, e)'
        BY <1>3, <1>5, <3>1 DEF IsLive
      <4> QED
        BY <1>1, <1>4, <4>1, LiveAlike
    <3>2. CASE caller[r].kind # "order"
      BY <1>5, <3>2, LiveAlike
    <3> QED
      BY <3>1, <3>2
  <2>2. ~Owes(r, e)' /\ (Owes(r, e) <=> e = d /\ caller[r].owes)
    BY <1>1, <1>6 DEF Owes
  <2>3. Cardinality(OwedOn(e))' = Cardinality(OwedOn(e)) - moved
    BY <1>4, <2>2, OwedChanges, Finite
  <2>4. /\ Cardinality(LiveOn(e)) \in Int /\ Cardinality(OwedOn(e)) \in Int /\ moved \in Int
        /\ extra'[e] = extra[e] + moved /\ extra[e] \in Int /\ day' = day
    BY <1>2, <1>4, Finite DEF DeliveryInv, Typed
  <2> HIDE DEF moved
  <2> QED
    BY <2>1, <2>3, <2>4, DaysAlone
<1> QED
  BY <1>2, <1>7, <1>8, <1>9, <1>10 DEF DeliveryInv, SlotsAddUp

----------------------------------------------------------------------------
LEMMA NextDelivery == DeliveryInv /\ [DeliveryNext]_deliveryVars => DeliveryInv'
<1> SUFFICES ASSUME DeliveryInv, [DeliveryNext]_deliveryVars PROVE DeliveryInv'
  OBVIOUS
<1>1. ASSUME NEW r \in Caller, CallerStep(r) PROVE DeliveryInv'
  <2>1. CASE ReadDay(r)
    BY <2>1, ReadDayStep
  <2>2. CASE WriteDay(r)
    BY <2>2, WriteDayStep
  <2>3. CASE CommitOrder(r)
    BY <2>3, CommitOrderStep
  <2>4. CASE FailOrder(r)
    BY <2>4, FailOrderStep
  <2>5. CASE ReadRelease(r)
    BY <2>5, ReadReleaseStep
  <2>6. CASE WriteRelease(r)
    BY <2>6, WriteReleaseStep
  <2>7. CASE WriteCapacity(r)
    BY <2>7, WriteCapacityStep
  <2>8. CASE Die(r)
    BY <2>8, DieStep
  <2>9. CASE RefuseCancel(r)
    BY <2>9, CancelWaitsStep
  <2> QED
    BY <1>1, <2>1, <2>2, <2>3, <2>4, <2>5, <2>6, <2>7, <2>8, <2>9 DEF CallerStep
<1>2. ASSUME NEW r \in Caller, NEW o \in Booking, NEW d \in Day, Checkout(r, o, d)
      PROVE  DeliveryInv'
  BY <1>2, CheckoutStep
<1>3. ASSUME NEW r \in Caller, NEW d \in Day, CancelByStaff(r, d) PROVE DeliveryInv'
  BY <1>3, CancelByStaffStep
<1>4. ASSUME NEW o \in Booking, CancelByCustomer(o) \/ Revive(o) PROVE DeliveryInv'
  BY <1>4, CancelByCustomerStep, ReviveStep
<1>7. ASSUME NEW o \in Booking, NEW d \in Day, MoveDate(o, d) \/ UpdateStatus(o, d)
      PROVE  DeliveryInv'
  BY <1>7, DateStep
<1>8. ASSUME NEW r \in Caller, (\E o \in Booking : ReadOrder(r, o))
               \/ (\E d \in Day : CancelRolledBack(r, d))
      PROVE  DeliveryInv'
  BY <1>8, CancelWaitsStep
<1>5. ASSUME NEW r \in Caller, NEW d \in Day, NEW n \in Capacities, NEW closed \in BOOLEAN,
             ReadCapacity(r, d, n, closed)
      PROVE  DeliveryInv'
  BY <1>5, ReadCapacityStep
<1>6. CASE UNCHANGED deliveryVars
  <2>1. /\ Typed' /\ Dated' /\ \A r \in Caller : CheckoutFits(r)'
        /\ \A d \in Day \ raced', r \in Caller : ReaderKnows(r, d)'
    BY <1>6 DEF deliveryVars, DeliveryInv, Typed, Dated, CheckoutFits, ForCheckout,
                ReaderKnows, Reader
  <2>2. \A d : LiveOn(d)' = LiveOn(d) /\ OwedOn(d)' = OwedOn(d)
    BY <1>6 DEF deliveryVars, LiveOn, OwedOn
  <2>3. \A d : Holders(d)' = Holders(d)
    BY <2>2 DEF Holders
  <2>4. SlotsAddUp'
    BY <1>6, <2>3 DEF deliveryVars, DeliveryInv, SlotsAddUp
  <2> QED
    BY <2>1, <2>4 DEF DeliveryInv
<1> QED
  BY <1>1, <1>2, <1>3, <1>4, <1>5, <1>6, <1>7, <1>8 DEF DeliveryNext

\* On a day no two requests had read at the same time, delivery_schedules counts
\* the orders to be delivered and the checkouts and cancellations under way, with
\* the exceptions SlotsAddUp names and no other: orders given another date, late
\* payments, cancellations by customers or rolled back, and requests that died
\* (delivery.service.ts, orders.service.ts).
THEOREM SlotsOfADay == DeliverySpec => []SlotsAddUp
<1>1. DeliveryInv => SlotsAddUp
  BY DEF DeliveryInv
<1> QED
  BY InitDelivery, NextDelivery, <1>1, PTL DEF DeliverySpec

----------------------------------------------------------------------------
(* The conversations of the bot *)

Task == {Idling} \cup [kind : {"list"}, chat : Chat, mode : Mode]
          \cup [kind : {"cost"}, chat : Chat, order : Order \cup {NoOrder}]
          \cup [kind : {"match", "report", "results", "piece"}, chat : Chat]

OpenSession == [chat : Chat, pages : Nat \ {0}, page : Nat]

\* A prompt that still waits is one that was made and not answered.
PromptsWaiting ==
  \A c \in Chat : answered[c] + (IF panel[c] # "IDLE" THEN 1 ELSE 0) <= prompted[c]

\* The panel prompts sellers, and their results come to sellers.
SellersOnly ==
  /\ \A c \in Chat : panel[c] # "IDLE" => c \in SellerChats
  /\ \A w \in Worker : task[w].kind = "results" => task[w].chat \in SellerChats

DialogueInv ==
  /\ DialogueTypeOK /\ SellersOnly
  /\ task \in [Worker -> Task]
  /\ \A s \in Session : session[s] = NoSession \/ session[s] \in OpenSession
  /\ prompted \in [Chat -> Nat] /\ answered \in [Chat -> Nat]
  /\ PromptsWaiting

LEMMA InitDialogue == DialogueInit => DialogueInv
<1> SUFFICES ASSUME DialogueInit PROVE DialogueInv
  OBVIOUS
<1>1. task \in [Worker -> Task]
  BY DEF DialogueInit, Task
<1> QED
  BY <1>1 DEF DialogueInit, DialogueInv, DialogueTypeOK, PromptsWaiting, SellersOnly, Idling

\* What a worker that waits for something works for.
LEMMA TaskTyped ==
  ASSUME NEW t \in Task
  PROVE  /\ t = Idling \/ (t.kind \in Chatting /\ t.chat \in Chat)
         /\ t.kind = "list" => t.mode \in Mode
BY DEF Task, Idling, Chatting

\* The conversation and the questions change; the seller's panel does not.
LEMMA SearchStep ==
  ASSUME DialogueInv, task' \in [Worker -> Task],
         \A w \in Worker : task'[w] = task[w] \/ task'[w].kind # "results",
         mode' \in [Chat -> SUBSET Mode], search' \in [Chat -> Nat],
         question' \in [Chat -> Order \cup {NoOrder}],
         UNCHANGED <<role, panel, session, timer, prompted, answered>>
  PROVE  DialogueInv'
<1>1. \A w \in Worker : task'[w] = Idling \/ (task'[w].kind \in Chatting /\ task'[w].chat \in Chat)
  BY TaskTyped
<1>2. SellerChats' = SellerChats
  BY DEF SellerChats
<1>3. /\ role' \in [Chat -> {"customer", "seller", "admin"}]
      /\ panel' \in [Chat -> Prompt \cup {"IDLE"}] /\ timer' \in [Chat -> Nat]
      /\ \A s \in Session :
           \/ session'[s] = NoSession
           \/ session'[s].chat \in SellerChats' /\ session'[s].page \in 1 .. session'[s].pages
  BY <1>2 DEF DialogueInv, DialogueTypeOK
<1>4. DialogueTypeOK'
  BY <1>1, <1>3, Zenon DEF DialogueTypeOK
<1>5. SellersOnly'
  BY <1>2 DEF DialogueInv, SellersOnly
<1> QED
  BY <1>4, <1>5 DEF DialogueInv, PromptsWaiting

LEMMA WorkTyped ==
  ASSUME task \in [Worker -> Task], NEW w \in Worker, NEW t \in Task,
         Work(w, t) \/ Done(w) \/ UNCHANGED task
  PROVE  task' \in [Worker -> Task]
BY DEF Work, Done, Task

LEMMA NotForResults ==
  ASSUME task \in [Worker -> Task], NEW w \in Worker, NEW t, t.kind # "results",
         Work(w, t) \/ Done(w) \/ UNCHANGED task
  PROVE  \A x \in Worker : task'[x] = task[x] \/ task'[x].kind # "results"
BY DEF Work, Done, Idling

LEMMA SearchTextStep ==
  ASSUME DialogueInv, NEW w \in Worker, NEW c \in Chat, SearchText(w, c) \/ TypeCost(w, c)
  PROVE  DialogueInv'
<1> USE DEF DialogueInv, DialogueTypeOK
<1>1. /\ task' \in [Worker -> Task]
      /\ \A x \in Worker : task'[x] = task[x] \/ task'[x].kind # "results"
  <2>1. CASE UNCHANGED task
    BY <2>1
  <2>2. CASE \E t \in Task : t.kind # "results" /\ Work(w, t)
    BY <2>2, WorkTyped, NotForResults
  <2>3. ASSUME NEW m \in {"name", "size"}, AskFromList(w, c, m)
        PROVE  \E t \in Task : t.kind # "results" /\ Work(w, t)
    BY <2>3 DEF AskFromList, Task, Mode
  <2>4. ASSUME AnswerFromList(w, c)
        PROVE  \E t \in Task : t.kind # "results" /\ Work(w, t)
    BY <2>4 DEF AnswerFromList, Task
  <2>5. ASSUME TypeCost(w, c)
        PROVE  \E t \in Task : t.kind # "results" /\ Work(w, t)
    BY <2>5 DEF TypeCost, Task
  <2> QED
    BY <2>1, <2>2, <2>3, <2>4, <2>5 DEF SearchText, LeaveSearch, AskCode, AskCarpet, SearchAtOnce,
       PickFromMenu, NextPage, PreviousPage, Filter, ClearFilters
<1>2. UNCHANGED <<role, question, panel, session, timer, prompted, answered>>
  BY DEF SearchText, LeaveSearch, AskCode, AskCarpet, AskFromList, AnswerFromList, SearchAtOnce,
     PickFromMenu, NextPage, PreviousPage, Filter, ClearFilters, TypeCost, searchOnly
<1>3. mode' \in [Chat -> SUBSET Mode]
  <2>1. CASE UNCHANGED mode
    BY <2>1
  <2>2. CASE \E s \in SUBSET Mode : mode' = [mode EXCEPT ![c] = s]
    BY <2>2
  <2>3. /\ Cleared(c) \in SUBSET Mode
        /\ \A m \in Mode : Cleared(c) \cup {m} \in SUBSET Mode
    BY DEF Cleared
  <2> QED
    BY <2>1, <2>2, <2>3 DEF SearchText, LeaveSearch, AskCode, AskCarpet, AskFromList, AnswerFromList,
       SearchAtOnce, PickFromMenu, NextPage, PreviousPage, Filter, ClearFilters, TypeCost,
       ClearModes, EnterMode, Mode
<1>4. search' \in [Chat -> Nat]
  <2>1. CASE UNCHANGED search
    BY <2>1
  <2>2. CASE \E n \in Nat : search' = [search EXCEPT ![c] = n]
    BY <2>2
  <2>3. ASSUME NEW last \in ResultPages, NextPage(c, last)
        PROVE  \E n \in Nat : search' = [search EXCEPT ![c] = n]
    <3>1. search[c] + 1 \in Nat /\ search' = [search EXCEPT ![c] = search[c] + 1]
      BY <2>3 DEF NextPage
    <3> QED
      BY <3>1
  <2>4. ASSUME PreviousPage(c) PROVE \E n \in Nat : search' = [search EXCEPT ![c] = n]
    <3>1. search[c] - 1 \in Nat /\ search' = [search EXCEPT ![c] = search[c] - 1]
      BY <2>4 DEF PreviousPage
    <3> QED
      BY <3>1
  <2>5. ASSUME NewSearch(c) PROVE \E n \in Nat : search' = [search EXCEPT ![c] = n]
    BY <2>5 DEF NewSearch
  <2> QED
    BY <2>1, <2>2, <2>3, <2>4, <2>5 DEF SearchText, LeaveSearch, AskCode, AskCarpet, AskFromList,
       AnswerFromList, SearchAtOnce, PickFromMenu, Filter, ClearFilters, TypeCost
<1> QED
  BY <1>1, <1>2, <1>3, <1>4, SearchStep

\* The seller's panel, its sessions and its timer.
LEMMA PanelStep ==
  ASSUME DialogueInv, task' \in [Worker -> Task],
         UNCHANGED <<role, mode, search, question>>,
         panel' \in [Chat -> Prompt \cup {"IDLE"}], timer' \in [Chat -> Nat],
         prompted' \in [Chat -> Nat], answered' \in [Chat -> Nat], PromptsWaiting', SellersOnly',
         \A s \in Session :
           \/ session'[s] = NoSession
           \/ /\ session'[s] \in OpenSession
              /\ session'[s].chat \in SellerChats /\ session'[s].page \in 1 .. session'[s].pages
  PROVE  DialogueInv'
<1>1. \A w \in Worker : task'[w] = Idling \/ (task'[w].kind \in Chatting /\ task'[w].chat \in Chat)
  BY TaskTyped
<1>2. SellerChats' = SellerChats
  BY DEF SellerChats
<1>3. DialogueTypeOK'
  BY <1>1, <1>2, Zenon DEF DialogueInv, DialogueTypeOK
<1> QED
  BY <1>3 DEF DialogueInv

\* A page that is shown is a page of its session.
LEMMA ShownTyped ==
  ASSUME DialogueInv, NEW s \in Session, NEW v \in OpenSession, NEW page \in Nat \ {0},
         NEW old, v.chat \in SellerChats, Shown(s, v, page, old)
  PROVE  \A x \in Session :
           \/ session'[x] = NoSession
           \/ /\ session'[x] \in OpenSession
              /\ session'[x].chat \in SellerChats /\ session'[x].page \in 1 .. session'[x].pages
<1> DEFINE p == IF page > v.pages THEN v.pages ELSE page
           new == [v EXCEPT !.page = p]
<1>1. p \in 1 .. v.pages
  BY DEF OpenSession
<1>2. new \in OpenSession /\ new.chat = v.chat /\ new.pages = v.pages /\ new.page = p
  BY <1>1 DEF OpenSession
<1>3. \A x \in Session : session'[x] = IF x \in old THEN NoSession ELSE IF x = s THEN new
                                       ELSE session[x]
  BY DEF Shown
<1> HIDE DEF p, new
<1> QED
  BY <1>1, <1>2, <1>3 DEF DialogueInv, DialogueTypeOK

\* The prompt of a chat is made, forgotten or answered.
LEMMA PromptStep ==
  ASSUME DialogueInv, NEW c \in Chat, NEW p \in Prompt \cup {"IDLE"}, SetPanel(c, p),
         \/ p = "IDLE" /\ UNCHANGED <<prompted, answered>>
         \/ p = "IDLE" /\ panel[c] # "IDLE" /\ UNCHANGED prompted
              /\ answered' = [answered EXCEPT ![c] = @ + 1]
         \/ prompted' = [prompted EXCEPT ![c] = @ + 1] /\ UNCHANGED answered
  PROVE  /\ panel' \in [Chat -> Prompt \cup {"IDLE"}]
         /\ prompted' \in [Chat -> Nat] /\ answered' \in [Chat -> Nat]
         /\ PromptsWaiting'
<1>1. /\ panel \in [Chat -> Prompt \cup {"IDLE"}]
      /\ prompted \in [Chat -> Nat] /\ answered \in [Chat -> Nat]
  BY DEF DialogueInv, DialogueTypeOK
<1>2. panel' = [panel EXCEPT ![c] = p]
  BY DEF SetPanel
<1>3. prompted' \in [Chat -> Nat] /\ answered' \in [Chat -> Nat]
  BY <1>1
<1>4. ASSUME NEW d \in Chat
      PROVE  answered'[d] + (IF panel'[d] # "IDLE" THEN 1 ELSE 0) <= prompted'[d]
  <2>1. answered[d] + (IF panel[d] # "IDLE" THEN 1 ELSE 0) <= prompted[d]
    BY DEF DialogueInv, PromptsWaiting
  <2>2. answered[d] \in Nat /\ prompted[d] \in Nat
    BY <1>1
  <2>3. CASE d # c
    <3>1. panel'[d] = panel[d] /\ answered'[d] = answered[d] /\ prompted'[d] = prompted[d]
      BY <1>1, <1>2, <2>3
    <3> QED
      BY <2>1, <3>1
  <2>4. CASE d = c
    <3>1. panel'[d] = p
      BY <1>1, <1>2, <2>4
    <3>2. CASE p = "IDLE" /\ UNCHANGED <<prompted, answered>>
      BY <2>1, <2>2, <3>1, <3>2
    <3>3. CASE p = "IDLE" /\ panel[c] # "IDLE" /\ UNCHANGED prompted
                 /\ answered' = [answered EXCEPT ![c] = @ + 1]
      <4>1. answered'[d] = answered[d] + 1
        BY <1>1, <2>4, <3>3
      <4> QED
        BY <2>1, <2>2, <2>4, <3>1, <3>3, <4>1
    <3>4. CASE prompted' = [prompted EXCEPT ![c] = @ + 1] /\ UNCHANGED answered
      <4>1. prompted'[d] = prompted[d] + 1
        BY <1>1, <2>4, <3>4
      <4> QED
        BY <2>1, <2>2, <3>4, <4>1
    <3> QED
      BY <3>2, <3>3, <3>4
  <2> QED
    BY <2>3, <2>4
<1> QED
  BY <1>1, <1>2, <1>3, <1>4 DEF PromptsWaiting

LEMMA SameSessions ==
  ASSUME DialogueInv, UNCHANGED session
  PROVE  \A s \in Session :
           \/ session'[s] = NoSession
           \/ /\ session'[s] \in OpenSession
              /\ session'[s].chat \in SellerChats /\ session'[s].page \in 1 .. session'[s].pages
BY DEF DialogueInv, DialogueTypeOK

LEMMA PanelTextStep ==
  ASSUME DialogueInv, NEW w \in Worker, NEW c \in Chat, PanelText(w, c)
  PROVE  DialogueInv'
<1> USE DialogueAssumption
<1>0. /\ panel \in [Chat -> Prompt \cup {"IDLE"}] /\ timer \in [Chat -> Nat]
      /\ prompted \in [Chat -> Nat] /\ answered \in [Chat -> Nat] /\ PromptsWaiting
      /\ task \in [Worker -> Task]
  BY DEF DialogueInv, DialogueTypeOK
<1>6. ASSUME NEW p \in Prompt \cup {"IDLE"}, SetPanel(c, p), UNCHANGED role,
             p = "IDLE" \/ c \in SellerChats,
             \A x \in Worker : \/ task'[x] = task[x]
                               \/ task'[x].kind = "results" => task'[x].chat \in SellerChats
      PROVE  SellersOnly'
  <2>1. \A d \in Chat : panel'[d] # "IDLE" => panel[d] # "IDLE" \/ d \in SellerChats
    BY <1>0, <1>6 DEF SetPanel
  <2> QED
    BY <1>6, <2>1 DEF DialogueInv, SellersOnly, SellerChats
<1>1. ASSUME NEW p \in Prompt, PromptSeller(c, p) PROVE DialogueInv'
  <2>1. SellersOnly'
    BY <1>1, <1>6 DEF PromptSeller, panelOnly
  <2> QED
    BY <2>1, <1>0, <1>1, PromptStep, SameSessions, PanelStep DEF PromptSeller, panelOnly
<1>2. CASE ShowSellerMainMenu(c)
  <2>1. SellersOnly'
    BY <1>2, <1>6 DEF ShowSellerMainMenu, panelOnly
  <2> QED
    BY <2>1, <1>0, <1>2, PromptStep, SameSessions, PanelStep DEF ShowSellerMainMenu, panelOnly
<1>3. CASE SyncFlow(w, c) \/ FavoritesList(w, c)
  <2>1. task' \in [Worker -> Task]
    <3>1. \A k \in {"report", "results"} : [kind |-> k, chat |-> c] \in Task
      BY DEF Task
    <3> QED
      BY <1>0, <1>3, <3>1, WorkTyped DEF SyncFlow, FavoritesList
  <2>2. SellersOnly'
    BY <1>0, <1>3, <1>6 DEF SyncFlow, FavoritesList, panelOnly, Work
  <2> QED
    BY <1>0, <1>3, <2>1, <2>2, PromptStep, SameSessions, PanelStep DEF SyncFlow, FavoritesList, panelOnly
<1>4. CASE AnswerPrompt(w, c)
  <2>1. task' \in [Worker -> Task]
    <3>1. [kind |-> Awaited(c), chat |-> c] \in Task
      BY DEF Task, Awaited
    <3> QED
      BY <1>0, <1>4, <3>1, WorkTyped DEF AnswerPrompt
  <2>2. c \in SellerChats
    BY <1>4 DEF AnswerPrompt, DialogueInv, SellersOnly
  <2>3. SellersOnly'
    BY <1>0, <1>4, <1>6, <2>2 DEF AnswerPrompt, panelOnly, Work
  <2> QED
    BY <1>0, <1>4, <2>1, <2>3, PromptStep, SameSessions, PanelStep DEF AnswerPrompt, panelOnly
<1>5. ASSUME NEW s \in Session, NEW page \in ResultPages, TurnPage(c, s, page) PROVE DialogueInv'
  <2>1. PICK old \in SUBSET Session : Shown(s, session[s], page, old)
    BY <1>5 DEF TurnPage
  <2>2. session[s] # NoSession
    BY <1>5 DEF TurnPage, NoSession
  <2>3. session[s] \in OpenSession /\ session[s].chat \in SellerChats
    BY <2>2 DEF DialogueInv, DialogueTypeOK
  <2>4. page \in Nat \ {0}
    OBVIOUS
  <2>5. \A x \in Session :
           \/ session'[x] = NoSession
           \/ /\ session'[x] \in OpenSession
              /\ session'[x].chat \in SellerChats /\ session'[x].page \in 1 .. session'[x].pages
    BY <2>1, <2>3, <2>4, ShownTyped
  <2>6. /\ UNCHANGED <<role, mode, search, question, panel, timer, task, prompted, answered>>
        /\ PromptsWaiting' /\ SellersOnly'
    BY <1>0, <1>5 DEF TurnPage, panelOnly, PromptsWaiting, DialogueInv, SellersOnly, SellerChats
  <2> QED
    BY <1>0, <2>5, <2>6, PanelStep
<1> QED
  BY <1>1, <1>2, <1>3, <1>4, <1>5 DEF PanelText

LEMMA FinishStep ==
  ASSUME DialogueInv, NEW w \in Worker, Finish(w)
  PROVE  DialogueInv'
<1> USE DialogueAssumption
<1> DEFINE c == task[w].chat
<1>0. /\ panel \in [Chat -> Prompt \cup {"IDLE"}] /\ timer \in [Chat -> Nat]
      /\ mode \in [Chat -> SUBSET Mode] /\ search \in [Chat -> Nat]
      /\ question \in [Chat -> Order \cup {NoOrder}]
      /\ prompted \in [Chat -> Nat] /\ answered \in [Chat -> Nat] /\ PromptsWaiting
      /\ task \in [Worker -> Task]
  BY DEF DialogueInv, DialogueTypeOK
<1>1. c \in Chat /\ (task[w].kind = "list" => task[w].mode \in Mode)
  BY <1>0, TaskTyped DEF Finish, ListArrives, MatchArrives, CostArrives, SyncReported,
     ResultsArrive, PieceArrives, Idling
<1>2. task' \in [Worker -> Task]
  BY <1>0, WorkTyped DEF Finish, ListArrives, MatchArrives, CostArrives, SyncReported,
     ResultsArrive, PieceArrives, Done, Task
<1>8. \A x \in Worker : task'[x] = task[x] \/ task'[x].kind # "results"
  BY <1>0 DEF Finish, ListArrives, MatchArrives, CostArrives, SyncReported,
     ResultsArrive, PieceArrives, Done, Idling
<1>9. UNCHANGED <<role, panel>> => SellersOnly'
  BY <1>8 DEF DialogueInv, SellersOnly, SellerChats
<1>3. CASE ListArrives(w)
  <2>1. mode' \in [Chat -> SUBSET Mode]
    BY <1>0, <1>1, <1>3 DEF ListArrives
  <2> QED
    BY <1>0, <1>2, <1>8, <1>3, <2>1, SearchStep DEF ListArrives, searchOnly
<1>4. CASE MatchArrives(w)
  <2>1. mode' \in [Chat -> SUBSET Mode] /\ search' \in [Chat -> Nat]
    BY <1>0, <1>1, <1>4 DEF MatchArrives, ClearModes, Cleared, NewSearch
  <2> QED
    BY <1>0, <1>2, <1>8, <1>4, <2>1, SearchStep DEF MatchArrives, searchOnly
<1>5. CASE CostArrives(w)
  <2>1. question' \in [Chat -> Order \cup {NoOrder}]
    BY <1>0, <1>1, <1>5 DEF CostArrives
  <2> QED
    BY <1>0, <1>2, <1>8, <1>5, <2>1, SearchStep DEF CostArrives
<1>6. CASE SyncReported(w)
  <2>1. timer' \in [Chat -> Nat]
    BY <1>0, <1>1, <1>6 DEF SyncReported
  <2>2. /\ UNCHANGED <<role, mode, search, question, panel, session, prompted, answered>>
        /\ PromptsWaiting'
    BY <1>0, <1>6 DEF SyncReported, panelOnly, PromptsWaiting
  <2> QED
    BY <1>0, <1>2, <1>9, <2>1, <2>2, SameSessions, PanelStep
<1>7. CASE ResultsArrive(w) \/ PieceArrives(w)
  <2>1. /\ UNCHANGED <<role, mode, search, question, panel, timer, prompted, answered>>
        /\ PromptsWaiting'
    BY <1>0, <1>7 DEF ResultsArrive, PieceArrives, panelOnly, PromptsWaiting
  <2>2. CASE UNCHANGED session
    BY <1>0, <1>2, <1>9, <2>1, <2>2, SameSessions, PanelStep
  <2>3. ASSUME NEW s \in Session, NEW n \in ResultPages, NEW old \in SUBSET (Session \ {s}),
               Shown(s, [chat |-> c, pages |-> n, page |-> 1], 1, old),
               ResultsArrive(w)
        PROVE  \A x \in Session :
           \/ session'[x] = NoSession
           \/ /\ session'[x] \in OpenSession
              /\ session'[x].chat \in SellerChats /\ session'[x].page \in 1 .. session'[x].pages
    <3> DEFINE v == [chat |-> c, pages |-> n, page |-> 1]
    <3>1. v \in OpenSession /\ v.chat = c
      BY <1>1 DEF OpenSession
    <3>2. c \in SellerChats
      BY <2>3 DEF DialogueInv, SellersOnly, ResultsArrive
    <3> QED
      BY <2>3, <3>1, <3>2, ShownTyped
  <2> QED
    BY <1>0, <1>2, <1>7, <1>9, <2>1, <2>2, <2>3, PanelStep DEF ResultsArrive, PieceArrives
<1> QED
  BY <1>3, <1>4, <1>5, <1>6, <1>7 DEF Finish

LEMMA RestartBotStep ==
  ASSUME DialogueInv, RestartBot
  PROVE  DialogueInv'
<1>1. task' \in [Worker -> Task] /\ \A w \in Worker : task'[w].kind # "results"
  BY DEF RestartBot, Task, Idling
<1>2. \A c \in Chat : panel'[c] = "IDLE"
  BY DEF RestartBot
<1>3. SellersOnly'
  BY <1>1, <1>2 DEF SellersOnly
<1>4. PromptsWaiting'
  BY <1>2 DEF RestartBot, DialogueInv, PromptsWaiting
<1>5. DialogueTypeOK'
  <2>1. /\ role' \in [Chat -> {"customer", "seller", "admin"}]
        /\ mode' \in [Chat -> SUBSET Mode] /\ search' \in [Chat -> Nat]
        /\ question' \in [Chat -> Order \cup {NoOrder}]
        /\ panel' \in [Chat -> Prompt \cup {"IDLE"}]
        /\ \A s \in Session : session'[s] = NoSession
        /\ timer' \in [Chat -> Nat]
    BY DEF RestartBot, DialogueInv, DialogueTypeOK
  <2>2. \A w \in Worker : task'[w] = Idling
    BY DEF RestartBot
  <2> QED
    BY <2>1, <2>2, Zenon DEF DialogueTypeOK
<1> QED
  BY <1>1, <1>3, <1>4, <1>5 DEF RestartBot, DialogueInv

LEMMA NextDialogue == DialogueInv /\ [DialogueNext]_dialogueVars => DialogueInv'
<1> SUFFICES ASSUME DialogueInv, [DialogueNext]_dialogueVars PROVE DialogueInv'
  OBVIOUS
<1>1. CASE \E w \in Worker : Finish(w)
  BY <1>1, FinishStep
<1>2. CASE \E w \in Worker, c \in Chat : SearchText(w, c) \/ PanelText(w, c) \/ TypeCost(w, c)
  BY <1>2, SearchTextStep, PanelTextStep
<1>3. ASSUME NEW c \in Chat, NEW o \in Order, AskCost(c, o) PROVE DialogueInv'
  <2>1. question' \in [Chat -> Order \cup {NoOrder}]
    BY <1>3 DEF AskCost, DialogueInv, DialogueTypeOK
  <2> QED
    BY <1>3, <2>1, SearchStep DEF AskCost, DialogueInv, DialogueTypeOK
<1>4. ASSUME NEW c \in Chat, Redirect(c) PROVE DialogueInv'
  <2>1. timer' \in [Chat -> Nat]
    BY <1>4 DEF Redirect, DialogueInv, DialogueTypeOK
  <2>2. SellersOnly'
    BY <1>4 DEF Redirect, panelOnly, SetPanel, DialogueInv, DialogueTypeOK, SellersOnly, SellerChats
  <2> QED
    BY <1>4, <2>1, <2>2, PromptStep, SameSessions, PanelStep DEF Redirect, panelOnly, DialogueInv
<1>5. CASE RestartBot
  BY <1>5, RestartBotStep
<1>6. CASE UNCHANGED dialogueVars
  BY <1>6, SearchStep DEF dialogueVars, DialogueInv, DialogueTypeOK
<1> QED
  BY <1>1, <1>2, <1>3, <1>4, <1>5, <1>6 DEF DialogueNext

\* One prompt of the seller's panel takes one text, however many the seller sends
\* before the results come: the state is left before anything is awaited
\* (telegram-seller.service.ts).
THEOREM PromptsAnsweredOnce == DialogueSpec => []PromptAnsweredOnce
<1>1. DialogueInv => PromptAnsweredOnce
  <2> SUFFICES ASSUME DialogueInv, NEW c \in Chat PROVE answered[c] <= prompted[c]
    BY DEF PromptAnsweredOnce
  <2> QED
    BY DEF DialogueInv, PromptsWaiting
<1> QED
  BY InitDialogue, NextDialogue, <1>1, PTL DEF DialogueSpec

----------------------------------------------------------------------------
(* The previews *)

JobPlace == {"none", "queue", "process", "worker", "running", "acked", "over", "lost"}
JobRow == [at : JobPlace, tried : 0 .. Attempts - 1, stalled : {0, 1}]
Errand == {Resting} \cup [kind : {"create", "add"}, key : Key]
Adds(a, k) == asker[a] = [kind |-> "add", key |-> k]

\* A job is added once, by the request that created its row.
AddedOnce ==
  \A k \in Key :
    /\ preview[k] = "none" => job[k].at = "none"
    /\ job[k].at = "none" => k \notin seen
    /\ \A a \in Asker : Adds(a, k) => preview[k] # "none" /\ job[k].at = "none"
    /\ \A a, b \in Asker : Adds(a, k) /\ Adds(b, k) => a = b

\* The job of a picture that was shown is over, or was delivered again.
ShownIsOver ==
  \A k \in seen : \/ job[k].stalled = 1
                  \/ preview[k] = "COMPLETED" /\ job[k].at \in {"acked", "over", "lost"}

PreviewInv ==
  /\ PreviewTypeOK
  /\ preview \in [Key -> {"none", "QUEUED", "PROCESSING", "COMPLETED", "FAILED"}]
  /\ job \in [Key -> JobRow]
  /\ asker \in [Asker -> Errand]
  /\ AddedOnce /\ ShownIsOver

LEMMA InitPreview == PreviewInit => PreviewInv
<1> SUFFICES ASSUME PreviewInit PROVE PreviewInv
  OBVIOUS
<1> USE PreviewAssumption
<1>1. NoJob \in JobRow /\ 0 \in 0 .. MaxDeaths
  BY DEF NoJob, JobRow, JobPlace
<1>2. asker \in [Asker -> Errand] /\ \A a \in Asker, k \in Key : ~Adds(a, k)
  BY DEF PreviewInit, Errand, Adds, Resting
<1> QED
  BY <1>1, <1>2 DEF PreviewInit, PreviewInv, PreviewTypeOK, AddedOnce, ShownIsOver, NoJob, JobRow,
     JobPlace

\* The invariant from its parts: the type of a row is that of its job.
LEMMA PreviewParts ==
  ASSUME preview' \in [Key -> {"none", "QUEUED", "PROCESSING", "COMPLETED", "FAILED"}],
         job' \in [Key -> JobRow], asker' \in [Asker -> Errand], enabled' \in BOOLEAN,
         deaths' \in 0 .. MaxDeaths, seen' \subseteq Key, AddedOnce', ShownIsOver'
  PROVE  PreviewInv'
<1>1. \A k \in Key :
       /\ job'[k].at \in {"none", "queue", "process", "worker", "running", "acked", "over", "lost"}
       /\ job'[k].tried \in 0 .. Attempts - 1 /\ job'[k].stalled \in {0, 1}
  BY DEF JobRow, JobPlace
<1>2. PreviewTypeOK'
  BY <1>1 DEF PreviewTypeOK
<1> QED
  BY <1>2 DEF PreviewInv

\* A job moves; who adds jobs does not.
LEMMA JobMoves ==
  ASSUME PreviewInv, NEW k \in Key, NEW j \in JobRow,
         NEW p \in {"QUEUED", "PROCESSING", "COMPLETED", "FAILED"},
         job' = [job EXCEPT ![k] = j], preview' = [preview EXCEPT ![k] = p],
         job[k].at # "none", j.at # "none",
         seen' \in {seen, seen \cup {k}}, UNCHANGED <<asker, enabled, deaths>>,
         k \in seen' => \/ j.stalled = 1
                        \/ p = "COMPLETED" /\ j.at \in {"acked", "over", "lost"}
  PROVE  PreviewInv'
<1>1. /\ preview \in [Key -> {"none", "QUEUED", "PROCESSING", "COMPLETED", "FAILED"}]
      /\ job \in [Key -> JobRow] /\ asker \in [Asker -> Errand]
      /\ enabled \in BOOLEAN /\ deaths \in 0 .. MaxDeaths /\ seen \subseteq Key
  BY DEF PreviewInv, PreviewTypeOK
<1>2. /\ \A x \in Key : job'[x] = IF x = k THEN j ELSE job[x]
      /\ \A x \in Key : preview'[x] = IF x = k THEN p ELSE preview[x]
      /\ \A a \in Asker, x \in Key : Adds(a, x)' <=> Adds(a, x)
  BY <1>1 DEF Adds
<1>3. \A x \in Key : x \in seen' <=> (x \in seen \/ (x = k /\ k \in seen'))
  OBVIOUS
<1>4. AddedOnce'
  BY <1>2, <1>3 DEF PreviewInv, AddedOnce
<1>5. ShownIsOver'
  <2> SUFFICES ASSUME NEW x \in seen'
               PROVE  \/ job'[x].stalled = 1
                      \/ preview'[x] = "COMPLETED" /\ job'[x].at \in {"acked", "over", "lost"}
    BY DEF ShownIsOver
  <2>1. x \in Key
    BY <1>1
  <2>2. CASE x = k
    BY <1>2, <2>2
  <2>3. CASE x # k
    BY <1>2, <1>3, <2>1, <2>3 DEF PreviewInv, ShownIsOver
  <2> QED
    BY <2>2, <2>3
<1> QED
  BY <1>1, <1>4, <1>5, PreviewParts

LEMMA JobRuns ==
  ASSUME PreviewInv, NEW k \in Key, JobStep(k)
  PROVE  PreviewInv'
<1>1. /\ job \in [Key -> JobRow] /\ seen \subseteq Key
      /\ preview \in [Key -> {"none", "QUEUED", "PROCESSING", "COMPLETED", "FAILED"}]
      /\ job[k] \in JobRow
  BY DEF PreviewInv, PreviewTypeOK
<1>2. job[k].at # "none" /\ job[k].at \notin {"over", "lost"}
  BY DEF JobStep, EndPreview, StartPreview, FinishPreview, FailPreview, ThrowPreview, AckPreview,
     Free, Running
<1>3. preview[k] # "none" /\ preview' = [preview EXCEPT ![k] = preview'[k]]
  BY <1>1, <1>2 DEF PreviewInv, AddedOnce, JobStep, EndPreview, StartPreview, FinishPreview,
     FailPreview, ThrowPreview, AckPreview
<1>4. job[k].at # "acked" /\ k \in seen => job[k].stalled = 1
  BY <1>2 DEF PreviewInv, ShownIsOver
<1>5. \A where \in JobPlace : [job[k] EXCEPT !.at = where] \in JobRow
  BY <1>1 DEF JobRow
<1>6. ASSUME NEW where \in JobPlace
      PROVE  /\ [job[k] EXCEPT !.at = where].at = where
             /\ [job[k] EXCEPT !.at = where].stalled = job[k].stalled
  BY <1>1 DEF JobRow
<1>7. CASE StartPreview(k)
  <2>1. PICK where \in {"worker", "running"} : Place(k, where)
    BY <1>7 DEF StartPreview
  <2> DEFINE j == [job[k] EXCEPT !.at = where]
  <2>2. where \in JobPlace /\ job' = [job EXCEPT ![k] = j]
    BY <1>1, <2>1 DEF Place, JobPlace
  <2>3. /\ preview' = [preview EXCEPT ![k] = "PROCESSING"] /\ job[k].at # "acked"
        /\ UNCHANGED <<asker, enabled, deaths, seen>>
    BY <1>7 DEF StartPreview, Free
  <2>4. j \in JobRow /\ j.at = where /\ j.stalled = job[k].stalled
    BY <1>5, <1>6, <2>2
  <2> HIDE DEF j
  <2> QED
    BY <1>2, <1>4, <2>2, <2>3, <2>4, JobMoves
<1>8. CASE FinishPreview(k) \/ FailPreview(k)
  <2>1. PICK where \in {"acked", "over"} : Place(k, where)
    BY <1>8 DEF FinishPreview, FailPreview
  <2> DEFINE j == [job[k] EXCEPT !.at = where]
  <2>2. where \in JobPlace /\ job' = [job EXCEPT ![k] = j]
    BY <1>1, <2>1 DEF Place, JobPlace
  <2>3. job[k].at # "acked" /\ UNCHANGED <<asker, enabled, deaths>>
    BY <1>8 DEF FinishPreview, FailPreview, Running
  <2>4. j \in JobRow /\ j.at = where /\ j.stalled = job[k].stalled
    BY <1>5, <1>6, <2>2
  <2> HIDE DEF j
  <2>5. CASE FinishPreview(k)
    <3>1. preview' = [preview EXCEPT ![k] = "COMPLETED"] /\ seen' = seen \cup {k}
      BY <2>5 DEF FinishPreview
    <3> QED
      BY <1>2, <2>1, <2>2, <2>3, <2>4, <3>1, JobMoves
  <2>6. CASE FailPreview(k)
    <3>1. preview' = [preview EXCEPT ![k] = "FAILED"] /\ seen' = seen
      BY <2>6 DEF FailPreview
    <3> QED
      BY <1>2, <1>4, <2>1, <2>2, <2>3, <2>4, <3>1, JobMoves
  <2> QED
    BY <1>8, <2>5, <2>6
<1>9. CASE ThrowPreview(k)
  <2> DEFINE j == IF job[k].at = "running" THEN [job[k] EXCEPT !.at = "lost"]
                  ELSE IF job[k].tried + 1 < Attempts
                  THEN [job[k] EXCEPT !.at = "queue", !.tried = job[k].tried + 1]
                  ELSE [job[k] EXCEPT !.at = "lost"]
  <2>1. job' = [job EXCEPT ![k] = j]
    BY <1>1, <1>9 DEF ThrowPreview
  <2>2. job[k].tried \in Nat /\ job[k].tried + 1 \in Nat
    BY <1>1, PreviewAssumption DEF JobRow
  <2>3. ASSUME job[k].at # "running", job[k].tried + 1 < Attempts
        PROVE  j \in JobRow /\ j.at = "queue" /\ j.stalled = job[k].stalled
    <3>1. j = [job[k] EXCEPT !.at = "queue", !.tried = job[k].tried + 1]
      BY <2>3
    <3>2. job[k].tried + 1 \in 0 .. Attempts - 1
      BY <2>2, <2>3, PreviewAssumption
    <3> QED
      BY <1>1, <3>1, <3>2 DEF JobRow, JobPlace
  <2>4. ASSUME job[k].at = "running" \/ ~(job[k].tried + 1 < Attempts)
        PROVE  j \in JobRow /\ j.at = "lost" /\ j.stalled = job[k].stalled
    <3>1. j = [job[k] EXCEPT !.at = "lost"]
      BY <2>4
    <3> QED
      BY <1>1, <3>1 DEF JobRow, JobPlace
  <2>5. j \in JobRow /\ j.at # "none" /\ j.stalled = job[k].stalled
    BY <2>3, <2>4
  <2>6. job[k].at # "acked" /\ UNCHANGED <<preview, asker, enabled, deaths, seen>>
    BY <1>9 DEF ThrowPreview, Running
  <2>7. preview[k] \in {"QUEUED", "PROCESSING", "COMPLETED", "FAILED"}
    BY <1>1, <1>3
  <2>8. preview' = [preview EXCEPT ![k] = preview[k]]
    BY <1>3, <2>6
  <2> HIDE DEF j
  <2> QED
    BY <1>2, <1>4, <2>1, <2>5, <2>6, <2>7, <2>8, JobMoves
<1>10. CASE AckPreview(k)
  <2> DEFINE j == [job[k] EXCEPT !.at = "over"]
  <2>1. job' = [job EXCEPT ![k] = j]
    BY <1>1, <1>10 DEF AckPreview, Place
  <2>2. j \in JobRow /\ j.at = "over" /\ j.stalled = job[k].stalled
    BY <1>5, <1>6 DEF JobPlace
  <2>3. UNCHANGED <<preview, asker, enabled, deaths, seen>>
    BY <1>10 DEF AckPreview
  <2>4. preview[k] \in {"QUEUED", "PROCESSING", "COMPLETED", "FAILED"}
    BY <1>1, <1>3
  <2>5. preview' = [preview EXCEPT ![k] = preview[k]]
    BY <1>3, <2>3
  <2>6. k \in seen => job[k].stalled = 1 \/ preview[k] = "COMPLETED"
    BY DEF PreviewInv, ShownIsOver
  <2> HIDE DEF j
  <2> QED
    BY <1>2, <2>1, <2>2, <2>3, <2>4, <2>5, <2>6, JobMoves
<1> QED
  BY <1>7, <1>8, <1>9, <1>10 DEF JobStep, EndPreview

LEMMA CreateStep ==
  ASSUME PreviewInv, NEW a \in Asker, CreatePreview(a) \/ \E k \in Key : AskPreview(a, k)
  PROVE  PreviewInv'
<1>1. /\ preview \in [Key -> {"none", "QUEUED", "PROCESSING", "COMPLETED", "FAILED"}]
      /\ job \in [Key -> JobRow] /\ asker \in [Asker -> Errand]
      /\ enabled \in BOOLEAN /\ deaths \in 0 .. MaxDeaths /\ seen \subseteq Key
  BY DEF PreviewInv, PreviewTypeOK
<1>2. UNCHANGED <<job, enabled, deaths, seen>>
  BY DEF CreatePreview, AskPreview
<1>3. CASE UNCHANGED preview
  <2>1. PICK e \in Errand : asker' = [asker EXCEPT ![a] = e] /\ \A k : e # [kind |-> "add", key |-> k]
    BY <1>1, <1>3 DEF CreatePreview, AskPreview, Errand, Resting
  <2>2. asker' \in [Asker -> Errand] /\ \A b \in Asker, k \in Key : Adds(b, k)' => Adds(b, k)
    BY <1>1, <2>1 DEF Adds
  <2>3. AddedOnce' /\ ShownIsOver'
    BY <1>2, <1>3, <2>2 DEF PreviewInv, AddedOnce, ShownIsOver
  <2> QED
    BY <1>1, <1>2, <1>3, <2>2, <2>3, PreviewParts
<1>4. CASE preview' # preview
  <2> DEFINE k == asker[a].key
  <2>1. /\ asker[a].kind = "create" /\ preview[k] = "none"
        /\ preview' = [preview EXCEPT ![k] = "QUEUED"]
        /\ asker' = [asker EXCEPT ![a] = [kind |-> "add", key |-> k]]
    BY <1>4 DEF CreatePreview, AskPreview
  <2>2. asker[a] \in Errand /\ k \in Key
    BY <1>1, <2>1 DEF Errand, Resting
  <2>3. asker' \in [Asker -> Errand]
    BY <1>1, <2>1, <2>2 DEF Errand
  <2>4. /\ \A x \in Key : preview'[x] = IF x = k THEN "QUEUED" ELSE preview[x]
        /\ preview' \in [Key -> {"none", "QUEUED", "PROCESSING", "COMPLETED", "FAILED"}]
    BY <1>1, <2>1, <2>2
  <2>5. \A b \in Asker, x \in Key : Adds(b, x)' <=> IF b = a THEN x = k ELSE Adds(b, x)
    BY <1>1, <2>1, <2>2 DEF Adds
  <2>6. /\ job[k].at = "none" /\ k \notin seen /\ \A b \in Asker : ~Adds(b, k)
    BY <2>1, <2>2 DEF PreviewInv, AddedOnce
  <2> HIDE DEF k
  <2>7. AddedOnce'
    BY <1>2, <2>4, <2>5, <2>6 DEF PreviewInv, AddedOnce
  <2>8. ShownIsOver'
    BY <1>1, <1>2, <2>4, <2>6 DEF PreviewInv, ShownIsOver
  <2> QED
    BY <1>1, <1>2, <2>3, <2>4, <2>7, <2>8, PreviewParts
<1> QED
  BY <1>3, <1>4

LEMMA AddJobStep ==
  ASSUME PreviewInv, NEW a \in Asker, AddJob(a)
  PROVE  PreviewInv'
<1> DEFINE k == asker[a].key
<1>1. /\ preview \in [Key -> {"none", "QUEUED", "PROCESSING", "COMPLETED", "FAILED"}]
      /\ job \in [Key -> JobRow] /\ asker \in [Asker -> Errand]
      /\ enabled \in BOOLEAN /\ deaths \in 0 .. MaxDeaths /\ seen \subseteq Key
  BY DEF PreviewInv, PreviewTypeOK
<1>2. asker[a] \in Errand /\ k \in Key /\ Adds(a, k)
  BY <1>1 DEF AddJob, Errand, Resting, Adds
<1>3. PICK where \in {"queue", "lost", "process"} : Place(k, where)
  BY DEF AddJob
<1> DEFINE j == [job[k] EXCEPT !.at = where]
<1>4. job' = [job EXCEPT ![k] = j]
  BY <1>3 DEF Place
<1>5. j \in JobRow /\ j.at = where
  BY <1>1, <1>2 DEF JobRow, JobPlace
<1>6. UNCHANGED <<preview, enabled, deaths, seen>> /\ asker' = [asker EXCEPT ![a] = Resting]
  BY DEF AddJob
<1> HIDE DEF j, k
<1>7. asker' \in [Asker -> Errand] /\ job' \in [Key -> JobRow]
  BY <1>1, <1>2, <1>4, <1>5, <1>6 DEF Errand
<1>8. \A b \in Asker, x \in Key : Adds(b, x)' <=> b # a /\ Adds(b, x)
  BY <1>1, <1>6 DEF Adds, Resting
<1>9. \A x \in Key : job'[x] = IF x = k THEN j ELSE job[x]
  BY <1>1, <1>4
<1>10. /\ preview[k] # "none" /\ k \notin seen /\ \A b \in Asker : Adds(b, k) => b = a
  BY <1>2 DEF PreviewInv, AddedOnce
<1>11. AddedOnce'
  BY <1>2, <1>5, <1>6, <1>8, <1>9, <1>10 DEF PreviewInv, AddedOnce
<1>12. ShownIsOver'
  BY <1>1, <1>6, <1>9, <1>10 DEF PreviewInv, ShownIsOver
<1> QED
  BY <1>1, <1>6, <1>7, <1>11, <1>12, PreviewParts

\* A restart loses what the process was running, and delivers again what a
\* worker held, as stalled.
LEMMA RestartPreviewsStep ==
  ASSUME PreviewInv, RestartPreviews
  PROVE  PreviewInv'
<1>1. /\ preview \in [Key -> {"none", "QUEUED", "PROCESSING", "COMPLETED", "FAILED"}]
      /\ job \in [Key -> JobRow] /\ deaths \in 0 .. MaxDeaths /\ seen \subseteq Key
  BY DEF PreviewInv, PreviewTypeOK
<1>2. UNCHANGED <<preview, seen>> /\ enabled' \in BOOLEAN /\ deaths' \in 0 .. MaxDeaths
  <2>1. deaths < MaxDeaths /\ deaths' = deaths + 1 /\ enabled' \in BOOLEAN
        /\ UNCHANGED <<preview, seen>>
    BY DEF RestartPreviews
  <2> QED
    BY <1>1, <2>1, PreviewAssumption
<1>3. asker' \in [Asker -> Errand] /\ \A a \in Asker, k \in Key : ~Adds(a, k)'
  BY DEF RestartPreviews, Errand, Adds, Resting
<1>4. ASSUME NEW k \in Key
      PROVE  /\ job'[k] \in JobRow
             /\ \/ job'[k] = job[k]
                \/ job'[k].at = "lost" /\ job'[k].stalled = job[k].stalled
                   /\ (job[k].at \in {"process", "running"} \/ \E a \in Asker : Adds(a, k))
                \/ job'[k].at # "none" /\ job'[k].stalled = 1
                   /\ job[k].at \in {"worker", "acked"}
  <2>1. job[k] \in JobRow
    BY <1>1
  <2>2. job'[k] = IF job[k].at \in {"process", "running"} \/ \E a \in Asker : Adds(a, k)
                  THEN [job[k] EXCEPT !.at = "lost"]
                  ELSE IF job[k].at \in {"worker", "acked"}
                  THEN [job[k] EXCEPT !.at = IF job[k].stalled = 0 THEN "queue" ELSE "lost",
                                      !.stalled = 1]
                  ELSE job[k]
    BY DEF RestartPreviews, Adds
  <2> QED
    BY <2>1, <2>2 DEF JobRow, JobPlace
<1>5. job' \in [Key -> JobRow]
  <2>1. job' = [k \in Key |-> job'[k]]
    BY DEF RestartPreviews
  <2> QED
    BY <1>4, <2>1
<1>6. AddedOnce'
  <2>1. \A k \in Key : job[k].at # "none" => preview[k] # "none"
    BY DEF PreviewInv, AddedOnce
  <2>2. \A k \in Key, a \in Asker : Adds(a, k) => preview[k] # "none"
    BY DEF PreviewInv, AddedOnce
  <2>3. \A k \in Key : job[k].at = "none" => k \notin seen
    BY DEF PreviewInv, AddedOnce
  <2>4. \A k \in Key : preview[k] = "none" => job'[k] = job[k]
    BY <1>4, <2>1, <2>2
  <2>5. \A k \in Key : job'[k].at = "none" => job'[k] = job[k]
    BY <1>4
  <2> QED
    BY <1>2, <1>3, <2>1, <2>3, <2>4, <2>5 DEF AddedOnce
<1>7. ShownIsOver'
  <2> SUFFICES ASSUME NEW k \in seen
               PROVE  \/ job'[k].stalled = 1
                      \/ preview[k] = "COMPLETED" /\ job'[k].at \in {"acked", "over", "lost"}
    BY <1>2 DEF ShownIsOver
  <2>1. k \in Key /\ job[k].at # "none" /\ \A a \in Asker : ~Adds(a, k)
    BY <1>1 DEF PreviewInv, AddedOnce
  <2>2. \/ job[k].stalled = 1
        \/ preview[k] = "COMPLETED" /\ job[k].at \in {"acked", "over", "lost"}
    BY DEF PreviewInv, ShownIsOver
  <2> QED
    BY <1>4, <2>1, <2>2
<1> QED
  BY <1>1, <1>2, <1>3, <1>5, <1>6, <1>7, PreviewParts

LEMMA NextPreview == PreviewInv /\ [PreviewNext]_previewVars => PreviewInv'
<1> SUFFICES ASSUME PreviewInv, [PreviewNext]_previewVars PROVE PreviewInv'
  OBVIOUS
<1>1. CASE \E a \in Asker : AddJob(a) \/ CreatePreview(a) \/ \E k \in Key : AskPreview(a, k)
  BY <1>1, AddJobStep, CreateStep
<1>2. CASE \E k \in Key : JobStep(k)
  BY <1>2, JobRuns
<1>3. CASE RestartPreviews
  BY <1>3, RestartPreviewsStep
<1>4. CASE RedisFails \/ UNCHANGED previewVars
  <2>1. UNCHANGED <<preview, job, asker, deaths, seen>> /\ enabled' \in BOOLEAN
    BY <1>4 DEF RedisFails, previewVars, PreviewInv, PreviewTypeOK
  <2>2. AddedOnce' /\ ShownIsOver'
    BY <2>1 DEF PreviewInv, AddedOnce, ShownIsOver, Adds
  <2> QED
    BY <2>1, <2>2, PreviewParts DEF PreviewInv, PreviewTypeOK
<1> QED
  BY <1>1, <1>2, <1>3, <1>4 DEF PreviewNext

\* A picture that could be shown is replaced by an error only by the second run
\* of a job whose process died before the queue had heard of the first
\* (preview-queue.processor.ts).
THEOREM ResultsStay == PreviewSpec => []ResultStays
<1>1. PreviewInv => ResultStays
  BY DEF PreviewInv, ShownIsOver, ResultStays
<1> QED
  BY InitPreview, NextPreview, <1>1, PTL DEF PreviewSpec

\* The way of a job.  A retry goes back to the queue for one attempt more, and a
\* redelivery only once, so that every job makes a bounded number of steps.
Way == [none |-> 0, queue |-> 1, process |-> 1, worker |-> 2, running |-> 2, acked |-> 3,
        over |-> 4, lost |-> 4]
Further(i, j) ==
  \/ i.stalled > j.stalled
  \/ i.stalled = j.stalled /\ i.tried > j.tried
  \/ i.stalled = j.stalled /\ i.tried = j.tried /\ Way[i.at] > Way[j.at]

OneGoesFurther(k) ==
  /\ Further(job'[k], job[k])
  /\ \A l \in Key \ {k} : job'[l] = job[l]

LEMMA Onward ==
  ASSUME NEW j \in JobRow, NEW where \in JobPlace, Way[where] > Way[j.at]
  PROVE  Further([j EXCEPT !.at = where], j)
BY DEF JobRow, Further

LEMMA PlacedFurther ==
  ASSUME PreviewInv, NEW k \in Key, NEW where \in JobPlace, Way[where] > Way[job[k].at],
         Place(k, where)
  PROVE  OneGoesFurther(k)
<1>1. job \in [Key -> JobRow] /\ job[k] \in JobRow
  BY DEF PreviewInv
<1>2. job'[k] = [job[k] EXCEPT !.at = where] /\ \A l \in Key \ {k} : job'[l] = job[l]
  BY <1>1 DEF Place
<1> QED
  BY <1>1, <1>2, Onward DEF OneGoesFurther

LEMMA JobGoesFurther ==
  ASSUME PreviewInv, NEW k \in Key, JobStep(k)
  PROVE  OneGoesFurther(k)
<1>1. job \in [Key -> JobRow] /\ job[k] \in JobRow
  BY DEF PreviewInv
<1>2. CASE StartPreview(k)
  <2>1. PICK where \in {"worker", "running"} : Place(k, where)
    BY <1>2 DEF StartPreview
  <2>2. job[k].at \in {"queue", "process"}
    BY <1>2 DEF StartPreview, Free
  <2>3. where \in JobPlace /\ Way[where] > Way[job[k].at]
    BY <2>1, <2>2 DEF Way, JobPlace
  <2> QED
    BY <2>1, <2>3, PlacedFurther
<1>3. CASE FinishPreview(k) \/ FailPreview(k)
  <2>1. PICK where \in {"acked", "over"} : Place(k, where)
    BY <1>3 DEF FinishPreview, FailPreview
  <2>2. job[k].at \in {"worker", "running"}
    BY <1>3 DEF FinishPreview, FailPreview, Running
  <2>3. where \in JobPlace /\ Way[where] > Way[job[k].at]
    BY <2>1, <2>2 DEF Way, JobPlace
  <2> QED
    BY <2>1, <2>3, PlacedFurther
<1>4. CASE ThrowPreview(k)
  <2> DEFINE j == IF job[k].at = "running" THEN [job[k] EXCEPT !.at = "lost"]
                  ELSE IF job[k].tried + 1 < Attempts
                  THEN [job[k] EXCEPT !.at = "queue", !.tried = job[k].tried + 1]
                  ELSE [job[k] EXCEPT !.at = "lost"]
  <2>1. job' = [job EXCEPT ![k] = j]
    BY <1>1, <1>4 DEF ThrowPreview
  <2>2. job[k].at \in {"worker", "running"} /\ job[k].tried \in Nat
    BY <1>1, <1>4, PreviewAssumption DEF ThrowPreview, Running, JobRow
  <2>3. CASE j = [job[k] EXCEPT !.at = "lost"]
    <3>1. "lost" \in JobPlace /\ Way["lost"] > Way[job[k].at]
      BY <2>2 DEF Way, JobPlace
    <3>2. Further(j, job[k])
      BY <1>1, <2>3, <3>1, Onward
    <3> QED
      BY <1>1, <2>1, <3>2 DEF OneGoesFurther
  <2>4. CASE j = [job[k] EXCEPT !.at = "queue", !.tried = job[k].tried + 1]
    <3>1. j.stalled = job[k].stalled /\ j.tried = job[k].tried + 1
      BY <1>1, <2>4 DEF JobRow
    <3>2. Further(j, job[k])
      BY <2>2, <3>1 DEF Further
    <3> QED
      BY <1>1, <2>1, <3>2 DEF OneGoesFurther
  <2> QED
    BY <2>3, <2>4
<1>5. CASE AckPreview(k)
  <2>1. job[k].at = "acked" /\ Place(k, "over")
    BY <1>5 DEF AckPreview
  <2>2. "over" \in JobPlace /\ Way["over"] > Way["acked"]
    BY DEF Way, JobPlace
  <2> QED
    BY <2>1, <2>2, PlacedFurther
<1> QED
  BY <1>2, <1>3, <1>4, <1>5 DEF JobStep, EndPreview

\* A restart: what is not lost is delivered again, and marked.
LEMMA RestartGoesFurther ==
  ASSUME PreviewInv, RestartPreviews, NEW k \in Key
  PROVE  job'[k] = job[k] \/ Further(job'[k], job[k])
<1> DEFINE j == job[k]
           adds == \E a \in Asker : Adds(a, k)
<1>1. j \in JobRow
  BY DEF PreviewInv
<1>2. job'[k] = IF j.at \in {"process", "running"} \/ adds
                THEN [j EXCEPT !.at = "lost"]
                ELSE IF j.at \in {"worker", "acked"}
                THEN [j EXCEPT !.at = IF j.stalled = 0 THEN "queue" ELSE "lost", !.stalled = 1]
                ELSE j
  BY DEF RestartPreviews, Adds
<1>3. adds => j.at = "none"
  BY DEF PreviewInv, AddedOnce
<1> HIDE DEF j, adds
<1>4. CASE j.at \in {"process", "running"} \/ adds
  <2>1. "lost" \in JobPlace /\ Way["lost"] > Way[j.at]
    BY <1>3, <1>4 DEF Way, JobPlace
  <2>2. job'[k] = [j EXCEPT !.at = "lost"]
    BY <1>2, <1>4
  <2> QED
    BY <1>1, <2>1, <2>2, Onward DEF j
<1>5. CASE ~(j.at \in {"process", "running"} \/ adds) /\ j.at \in {"worker", "acked"}
  <2>1. job'[k] = [j EXCEPT !.at = IF j.stalled = 0 THEN "queue" ELSE "lost", !.stalled = 1]
    BY <1>2, <1>5
  <2>2. CASE j.stalled = 0
    <3>1. job'[k].stalled = 1
      BY <1>1, <2>1 DEF JobRow
    <3> QED
      BY <2>2, <3>1 DEF Further, j
  <2>3. CASE j.stalled = 1
    <3>1. job'[k].stalled = j.stalled /\ job'[k].tried = j.tried /\ job'[k].at = "lost"
      BY <1>1, <2>1, <2>3 DEF JobRow
    <3>2. Way["lost"] > Way[j.at]
      BY <1>5 DEF Way
    <3> QED
      BY <3>1, <3>2 DEF Further, j
  <2> QED
    BY <1>1, <2>2, <2>3 DEF JobRow
<1>6. CASE ~(j.at \in {"process", "running"} \/ adds) /\ j.at \notin {"worker", "acked"}
  BY <1>2, <1>6 DEF j
<1> QED
  BY <1>4, <1>5, <1>6

\* The safety half of PreviewEnds: whatever throws, fails or restarts, a job goes on
\* along its way and never back, so that it can neither be added twice nor be
\* retried or delivered again without end (preview-queue.processor.ts).
THEOREM JobsOnlyGoOn ==
  PreviewSpec => [][\A k \in Key : job'[k] = job[k] \/ Further(job'[k], job[k])]_previewVars
<1>1. ASSUME PreviewInv, [PreviewNext]_previewVars, NEW k \in Key
      PROVE  job'[k] = job[k] \/ Further(job'[k], job[k])
  <2>1. CASE \E l \in Key : JobStep(l)
    BY <1>1, <2>1, JobGoesFurther DEF OneGoesFurther
  <2>2. CASE \E a \in Asker : AddJob(a)
    <3>1. PICK a \in Asker : AddJob(a)
      BY <2>2
    <3> DEFINE l == asker[a].key
    <3>2. asker \in [Asker -> Errand]
      BY <1>1 DEF PreviewInv
    <3>3. l \in Key /\ Adds(a, l)
      BY <3>1, <3>2 DEF AddJob, Errand, Resting, Adds
    <3>4. job[l].at = "none"
      BY <1>1, <3>3 DEF PreviewInv, AddedOnce
    <3>5. PICK where \in {"queue", "lost", "process"} : Place(l, where)
      BY <3>1 DEF AddJob
    <3>6. where \in JobPlace /\ Way[where] > Way[job[l].at]
      BY <3>4, <3>5 DEF Way, JobPlace
    <3> HIDE DEF l
    <3> QED
      BY <1>1, <3>3, <3>5, <3>6, PlacedFurther DEF OneGoesFurther
  <2>3. CASE \/ \E a \in Asker : CreatePreview(a) \/ \E l \in Key : AskPreview(a, l)
             \/ RedisFails \/ UNCHANGED previewVars
    BY <2>3 DEF CreatePreview, AskPreview, RedisFails, previewVars
  <2>4. CASE RestartPreviews
    BY <1>1, <2>4, RestartGoesFurther
  <2> QED
    BY <1>1, <2>1, <2>2, <2>3, <2>4 DEF PreviewNext
<1>2. PreviewInv /\ [PreviewNext]_previewVars =>
        [\A k \in Key : job'[k] = job[k] \/ Further(job'[k], job[k])]_previewVars
  BY <1>1
<1> QED
  BY InitPreview, NextPreview, <1>2, PTL DEF PreviewSpec

----------------------------------------------------------------------------
(* The life of the process, and the services together *)

\* A request of the keep-alive service is on its way exactly while inProgress is
\* set: with that, every step keeps the types.
Asking(n, busy) == (n = 0 /\ busy = FALSE) \/ (n = 1 /\ busy = TRUE)

LEMMA OneRequest ==
  ASSUME NEW n, NEW busy
  PROVE  Asking(n, busy) <=> n \in 0 .. 1 /\ busy = (n = 1)
<1>1. n \in 0 .. 1 <=> n = 0 \/ n = 1
  OBVIOUS
<1>2. 0 # 1
  OBVIOUS
<1>3. CASE n = 0
  BY <1>1, <1>2, <1>3, Zenon DEF Asking
<1>4. CASE n = 1
  BY <1>1, <1>2, <1>4, Zenon DEF Asking
<1> QED
  BY <1>1, <1>3, <1>4 DEF Asking

LEMMA InitLife == LifeInit => LifeTypeOK
<1> SUFFICES ASSUME LifeInit PROVE LifeTypeOK
  OBVIOUS
<1>1. Asking(requests, inProgress)
  BY DEF LifeInit, Asking
<1>2. requests \in 0 .. 1 /\ inProgress = (requests = 1)
  BY <1>1, OneRequest
<1>3. phase \in {"port", "init"} /\ attempt \in 0 .. MaxRetries
  BY LifeAssumption DEF LifeInit
<1> QED
  BY <1>2, <1>3 DEF LifeInit, LifeTypeOK

LEMMA NextLife == LifeTypeOK /\ [LifeNext]_lifeVars => LifeTypeOK'
<1> SUFFICES ASSUME LifeTypeOK, [LifeNext]_lifeVars PROVE LifeTypeOK'
  OBVIOUS
<1>0. Asking(requests, inProgress)
  BY OneRequest DEF LifeTypeOK
<1> USE LifeAssumption DEF LifeTypeOK, aliveVars, botVars
<1>1. CASE TryPort
  <2>1. attempt' \in 0 .. MaxRetries /\ phase' \in {"port", "init", "failed"}
    BY <1>1 DEF TryPort
  <2> QED
    BY <1>1, <2>1 DEF TryPort
<1>2. CASE Signal \/ BootKeepAlive \/ BootBot
  BY <1>2, ZenonT(60) DEF Signal, BootKeepAlive, BootBot
<1>3. CASE TimerFires
  <2>1. Ping /\ timers' \subseteq {"initial", "interval"}
        /\ UNCHANGED <<phase, attempt, leaving, isDestroyed, botVars>>
    BY <1>3 DEF TimerFires
  <2>2. Asking(requests', inProgress')
    BY <1>0, <2>1 DEF Ping, Asking
  <2>3. requests' \in 0 .. 1 /\ inProgress' = (requests' = 1)
    BY <2>2, OneRequest
  <2> QED
    BY <2>1, <2>3
<1>4. CASE RequestEnds
  <2>1. requests # 0 /\ requests' = requests - 1 /\ inProgress' = FALSE
    BY <1>4 DEF RequestEnds
  <2>2. Asking(requests', inProgress')
    BY <1>0, <2>1 DEF Asking
  <2>3. requests' \in 0 .. 1 /\ inProgress' = (requests' = 1)
    BY <2>2, OneRequest
  <2> QED
    BY <1>4, <2>3 DEF RequestEnds
<1>5. CASE BotReturns \/ LaunchFails
  BY <1>5, ZenonT(60)
  DEF BotReturns, LaunchFails, BotGoes, NextLaunch, WebhookSet, WebhookRefused,
     WebhookCleared, Launched, Waited, PollingEnds
<1>6. CASE Hooks
  BY <1>6 DEF Hooks, DestroyKeepAlive, DestroyBot
<1>7. CASE UNCHANGED lifeVars
  BY <1>7 DEF lifeVars
<1> QED
  BY <1>1, <1>2, <1>3, <1>4, <1>5, <1>6, <1>7 DEF LifeNext

\* Nothing is launched or polls once the bot was stopped, unless it met a launch.
Stopped == isStopping /\ ~cut => bot \notin {"launching", "polling"}

\* The rest in which a process stays until it exits.
AtRest ==
  /\ phase \in {"up", "failed"} /\ isStopping /\ isDestroyed
  /\ requests = 0 /\ (cut \/ bot \in {"off", "webhook"})

LEMMA NextStopped == Stopped /\ [LifeNext]_lifeVars => Stopped'
<1> SUFFICES ASSUME Stopped, [LifeNext]_lifeVars PROVE Stopped'
  OBVIOUS
<1> USE DEF Stopped
<1>1. CASE TryPort \/ Signal \/ BootKeepAlive \/ TimerFires \/ RequestEnds \/ DestroyKeepAlive
  BY <1>1 DEF TryPort, Signal, BootKeepAlive, TimerFires, RequestEnds, DestroyKeepAlive, botVars
<1>2. CASE BootBot
  <2>1. bot' \in {"off", "setting", "clearing"}
    BY <1>2 DEF BootBot
  <2> QED
    BY <2>1
<1>3. CASE BotReturns \/ LaunchFails
  BY <1>3 DEF BotReturns, LaunchFails, BotGoes, NextLaunch, WebhookSet, WebhookRefused,
     WebhookCleared, Launched, Waited, PollingEnds
<1>4. CASE DestroyBot
  BY <1>4 DEF DestroyBot
<1>5. CASE UNCHANGED lifeVars
  BY <1>5 DEF lifeVars
<1> QED
  BY <1>1, <1>2, <1>3, <1>4, <1>5 DEF LifeNext, Hooks

LEMMA RestIsKept == AtRest /\ [LifeNext]_lifeVars => AtRest'
<1> SUFFICES ASSUME AtRest, [LifeNext]_lifeVars PROVE AtRest'
  OBVIOUS
<1> USE DEF AtRest
<1>1. CASE TryPort \/ BootKeepAlive \/ BootBot \/ RequestEnds \/ Hooks
  BY <1>1 DEF TryPort, BootKeepAlive, BootBot, RequestEnds, Hooks, DestroyKeepAlive, DestroyBot
<1>2. CASE Signal \/ TimerFires
  BY <1>2 DEF Signal, TimerFires, Ping, aliveVars, botVars
<1>3. CASE BotReturns \/ LaunchFails
  <2>1. bot \notin {"off", "webhook"} /\ UNCHANGED <<phase, aliveVars, isStopping, cut>>
    BY <1>3 DEF BotReturns, LaunchFails, BotGoes, WebhookSet, WebhookRefused, WebhookCleared,
       Launched, Waited, PollingEnds
  <2> QED
    BY <2>1 DEF aliveVars
<1>4. CASE UNCHANGED lifeVars
  BY <1>4 DEF lifeVars, aliveVars
<1> QED
  BY <1>1, <1>2, <1>3, <1>4 DEF LifeNext

\* The safety half of StopsForGood: once onModuleDestroy of the bot has run, nothing
\* is launched or polls, unless it met a launch, and once that of the keep-alive
\* service has run, no request is made, whatever timers still fire.  The rest is kept
\* once it is reached (telegram.service.ts, keep-alive.service.ts).
THEOREM NothingStartsAfterTheStop ==
  LifeSpec => [](Stopped) /\ [][isDestroyed => requests' <= requests]_lifeVars
              /\ [][AtRest => AtRest']_lifeVars
<1>1. LifeInit => Stopped
  BY DEF LifeInit, Stopped
<1>2. LifeInit => LifeTypeOK
  BY InitLife
<1>3. LifeTypeOK /\ [LifeNext]_lifeVars => [isDestroyed => requests' <= requests]_lifeVars
  <2> SUFFICES ASSUME LifeTypeOK, LifeNext, isDestroyed
               PROVE  requests' <= requests
    OBVIOUS
  <2>1. requests \in Nat
    BY DEF LifeTypeOK
  <2>2. requests' = requests \/ requests' = requests - 1
    BY DEF LifeNext, TryPort, Signal, BootKeepAlive, BootBot, TimerFires, Ping, RequestEnds,
       BotReturns, LaunchFails, BotGoes, WebhookSet, WebhookRefused, WebhookCleared, Launched,
       Waited, PollingEnds, Hooks, DestroyKeepAlive, DestroyBot, aliveVars
  <2> QED
    BY <2>1, <2>2
<1>4. [LifeNext]_lifeVars => [AtRest => AtRest']_lifeVars
  BY RestIsKept
<1> QED
  BY <1>1, <1>2, NextLife, NextStopped, <1>3, <1>4, PTL DEF LifeSpec

\* The services share no state: what is true of each alone is true of them all
\* as they are explored together (Services).
THEOREM PartsStandAlone == Spec => DialogueSpec /\ DeliverySpec /\ PreviewSpec /\ LifeSpec
<1>1. Init => DialogueInit /\ DeliveryInit /\ PreviewInit /\ LifeInit
  BY DEF Init
<1>2. [Next]_vars => /\ [DialogueNext]_dialogueVars /\ [DeliveryNext]_deliveryVars
                     /\ [PreviewNext]_previewVars /\ [LifeNext]_lifeVars
  BY DEF Next, vars
<1> QED
  BY <1>1, <1>2, PTL DEF Spec, DialogueSpec, DeliverySpec, PreviewSpec, LifeSpec

\* Everything the services are made of has its type, whatever fails or restarts.
THEOREM ServicesTyped == Spec => []ServicesTypeOK
<1>1. DialogueInv => DialogueTypeOK
  BY DEF DialogueInv
<1>2. DeliveryInv => DeliveryTypeOK
  BY DEF DeliveryInv, Typed, DayRow, Status, State, DeliveryTypeOK
<1>3. PreviewInv => PreviewTypeOK
  BY DEF PreviewInv
<1>4. LifeInit => LifeTypeOK
  BY InitLife
<1>5. DialogueSpec => []DialogueTypeOK
  BY InitDialogue, NextDialogue, <1>1, PTL DEF DialogueSpec
<1>6. DeliverySpec => []DeliveryTypeOK
  BY InitDelivery, NextDelivery, <1>2, PTL DEF DeliverySpec
<1>7. PreviewSpec => []PreviewTypeOK
  BY InitPreview, NextPreview, <1>3, PTL DEF PreviewSpec
<1>8. LifeSpec => []LifeTypeOK
  BY NextLife, <1>4, PTL DEF LifeSpec
<1>9. DialogueTypeOK /\ DeliveryTypeOK /\ PreviewTypeOK /\ LifeTypeOK => ServicesTypeOK
  BY DEF ServicesTypeOK
<1> QED
  BY PartsStandAlone, <1>5, <1>6, <1>7, <1>8, <1>9, PTL
=============================================================================
