---------------------------- MODULE CarpetStock ----------------------------
(***************************************************************************)
(* What the shop promises about ready-made carpets, without the database,  *)
(* the handlers or the statuses of an order: a carpet is on the shelf or   *)
(* belongs to one order; an order takes its carpets from the shelf in one  *)
(* step, and from then on they are sold together or given back together.   *)
(***************************************************************************)
CONSTANTS Item, Order, Nobody

VARIABLE stock   \* stock[i]: whose item i is, and what it is marked as

Shelf == [by |-> Nobody, is |-> "ACTIVE"]

Of(o) == {i \in Item : stock[i].by = o}

StockInit == stock = [i \in Item |-> Shelf]

\* Order o marks all of its items.
Mark(o, mark) ==
  stock' = [i \in Item |-> IF i \in Of(o) THEN mark ELSE stock[i]]

Take(o, S) ==
  /\ Of(o) = {}
  /\ \A i \in S : stock[i] = Shelf
  /\ stock' = [i \in Item |-> IF i \in S THEN [by |-> o, is |-> "RESERVED"]
                              ELSE stock[i]]

Sell(o) ==
  /\ \A i \in Of(o) : stock[i].is = "RESERVED"
  /\ Mark(o, [by |-> o, is |-> "SOLD"])

GiveBack(o) == Mark(o, Shelf)

StockNext ==
  \E o \in Order :
    \/ \E S \in SUBSET Item : Take(o, S)
    \/ Sell(o)
    \/ GiveBack(o)

StockSpec == StockInit /\ [][StockNext]_stock
=============================================================================
