----------------------------- MODULE Inventory -----------------------------
(***************************************************************************)
(* The stock an order draws on: the inventory items of one ready-made      *)
(* carpet (inventory.service.ts) and one roll that carpet is cut from      *)
(* (roll-inventory.service.ts).  The services are called inside the        *)
(* transactions of the order module, so each of their statements is an     *)
(* operator from old to new value here, and the actions of Orders and      *)
(* Returns put them together.                                              *)
(*                                                                         *)
(* Ledger and history rows are left out: nothing reads them back.          *)
(***************************************************************************)
EXTENDS Integers, Sequences, FiniteSets

CONSTANTS
  Order,        \* order ids
  Item,         \* inventory items (barcodes) of the ready-made carpet
  RollLength    \* length of the roll when the shop opens

ASSUME RollLengthAssumption == RollLength \in Nat

InventoryStatus == {"ACTIVE", "RESERVED", "SOLD"}
AllocStatus == {"RESERVED", "CUTTING", "CUT", "DELIVERED", "AVAILABLE"}

VARIABLES
  item,       \* inventoryStatus of every item
  links,      \* links[o]: items allocated to the order (OrderItemInventory)
  alloc,      \* alloc[o]: status of its roll allocation, "NONE" without one
  pieces,     \* pieces[o]: status of the inventory items cut off for it
  roll,       \* currentLengthCm and reservedLengthCm of the roll
  soldCount   \* soldCount of the carpets' category

stockVars == <<item, links, alloc, pieces, roll, soldCount>>

StockTypeOK ==
  /\ item \in [Item -> InventoryStatus]
  /\ links \in [Order -> SUBSET Item]
  /\ alloc \in [Order -> AllocStatus \cup {"NONE"}]
  /\ pieces \in [Order -> Seq(InventoryStatus)]
  /\ roll \in [current : Int, reserved : Int]
  /\ soldCount \in Int

StockInit ==
  /\ item = [i \in Item |-> "ACTIVE"]
  /\ links = [o \in Order |-> {}]
  /\ alloc = [o \in Order |-> "NONE"]
  /\ pieces = [o \in Order |-> <<>>]
  /\ roll = [current |-> RollLength, reserved |-> 0]
  /\ soldCount = 0

----------------------------------------------------------------------------
(* inventory.service.ts *)

Active(it) == {i \in Item : it[i] = "ACTIVE"}

\* Faults in this section and below, each a bug that some property of a run
\* has to notice when it replaces the definition after it: here, allocating
\* without looking at the status.
PicksAnything(it, quantity) ==
  {S \in SUBSET Item : Cardinality(S) = quantity}

\* What allocateFIFO may return for a quantity: the oldest ACTIVE rows that no
\* other transaction has locked, hence any choice of that many ACTIVE rows.
Picks(it, quantity) == {S \in SUBSET Active(it) : Cardinality(S) = quantity}

SetStatus(it, S, s) == [i \in Item |-> IF i \in S THEN s ELSE it[i]]

\* Fault: sells what nobody reserved.
SellsActive(it, S) == SetStatus(it, {i \in S : it[i] = "ACTIVE"}, "SOLD")

MarkInventorySold(it, S) ==
  SetStatus(it, {i \in S : it[i] = "RESERVED"}, "SOLD")

\* Fault: releases what was sold and forgets what is reserved.
ReleasesSold(it, S) == SetStatus(it, {i \in S : it[i] = "SOLD"}, "ACTIVE")

ReleaseInventory(it, S) ==
  SetStatus(it, {i \in S : it[i] \in {"RESERVED", "SOLD"}}, "ACTIVE")

\* The same two statements on the rows cut off the roll.
MarkPiecesSold(ps) ==
  [n \in DOMAIN ps |-> IF ps[n] = "RESERVED" THEN "SOLD" ELSE ps[n]]

\* Fault: forgets the pieces cut off the roll.
PiecesForgotten(ps) == ps

ReleasePieces(ps) == [n \in DOMAIN ps |-> "ACTIVE"]

----------------------------------------------------------------------------
(* roll-inventory.service.ts *)

RollFree == roll.current - roll.reserved

ReserveRollLength(r, len) == [r EXCEPT !.reserved = @ + len]
ReleaseRollReservation(r, len) == [r EXCEPT !.reserved = @ - len]

\* Faults: cutting moves only one of the two lengths.
CutsReservedOnly(r, len) == [r EXCEPT !.reserved = @ - len]
CutsCurrentOnly(r, len) == [r EXCEPT !.current = @ - len]

CutRollSegment(r, len) ==
  [current |-> r.current - len, reserved |-> r.reserved - len]
=============================================================================
