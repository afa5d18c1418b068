----------------------------- MODULE RollProofs -----------------------------
(***************************************************************************)
(* The safety of the roll: while every operation in use checks the version *)
(* of the order it writes (DisciplinedOps), no length of the roll is       *)
(* promised twice, lost or left behind, for every number of orders and     *)
(* handlers, every roll and every cart.                                    *)
(*                                                                         *)
(* The two sums over all orders are cardinalities of sets of units, so     *)
(* that what a step adds to one or takes from it is what it adds to the    *)
(* set or takes from it.  RollFits says where an allocation can be while   *)
(* its order has a given status: that makes RollInv inductive.             *)
(***************************************************************************)
EXTENDS StockProofs, FiniteSetTheorems

\* Statuses in which the roll may still have to be cut for an order.
Waiting == {"PENDING", "ACCEPTED", "CUTTING", "CANCEL_REQUESTED"}

RollFits(o) ==
  /\ status[o] = "NONE" => basket[o].len = 0
  /\ basket[o].len = 0 <=> alloc[o] = "NONE"
  /\ alloc[o] \in {"NONE", "RESERVED", "CUTTING"} => pieces[o] = <<>>
  /\ alloc[o] \in {"RESERVED", "CUTTING"} => status[o] \in Waiting
  /\ alloc[o] = "CUT" => Len(pieces[o]) = 1 /\ status[o] \in Before
  /\ alloc[o] = "DELIVERED" => Len(pieces[o]) = 1 /\ status[o] \in After
  /\ alloc[o] = "AVAILABLE" =>
       /\ status[o] = "CANCELLED"
       /\ Len(pieces[o]) <= 1
       /\ \A n \in DOMAIN pieces[o] : pieces[o][n] = "ACTIVE"

\* The two lengths of the roll are what the orders account for.
Metered ==
  /\ IsFiniteSet(Units(LengthReserved)) /\ IsFiniteSet(Units(LengthCut))
  /\ RollCoversReservations
  /\ RollLengthConserved

RollInv ==
  /\ StockInv
  /\ \A o \in Order : RollFits(o)
  /\ Metered

----------------------------------------------------------------------------
(* Sums over all orders *)

\* The units of one order.
LEMMA UnitsOfOne ==
  ASSUME NEW o, NEW n \in Nat
  PROVE  /\ IsFiniteSet({o} \X (1 .. n))
         /\ Cardinality({o} \X (1 .. n)) = n
<1>1. IsFiniteSet({o}) /\ Cardinality({o}) = 1
  BY FS_Singleton
<1>2. IsFiniteSet(1 .. n) /\ Cardinality(1 .. n) = n
  BY FS_Interval
<1>3. /\ IsFiniteSet({o} \X (1 .. n))
      /\ Cardinality({o} \X (1 .. n)) = Cardinality({o}) * Cardinality(1 .. n)
  BY <1>1, <1>2, FS_Product
<1> QED
  BY <1>1, <1>2, <1>3

\* When f changes at one order, its sum changes by as much.
LEMMA SumChanges ==
  ASSUME NEW f \in [Order -> Nat], NEW g \in [Order -> Nat], NEW o \in Order,
         \A p \in Order \ {o} : g[p] = f[p],
         IsFiniteSet(Units(f))
  PROVE  /\ IsFiniteSet(Units(g))
         /\ SumOf(f) \in Nat /\ SumOf(g) \in Nat
         /\ f[o] <= SumOf(f)
         /\ SumOf(g) = SumOf(f) - f[o] + g[o]
<1> DEFINE Rest == UNION {{p} \X (1 .. f[p]) : p \in Order \ {o}}
           Mine(k) == {o} \X (1 .. k)
<1>1. Units(f) = Rest \cup Mine(f[o]) /\ Units(g) = Rest \cup Mine(g[o])
  BY DEF Units
<1>2. \A k : Rest \cap Mine(k) = {}
  OBVIOUS
<1>3. f[o] \in Nat /\ g[o] \in Nat
  OBVIOUS
<1>4. \A k \in Nat : IsFiniteSet(Mine(k)) /\ Cardinality(Mine(k)) = k
  BY UnitsOfOne
<1>5. IsFiniteSet(Rest)
  BY <1>1, FS_Subset
<1> HIDE DEF Rest, Mine
<1>6. \A k \in Nat : /\ IsFiniteSet(Rest \cup Mine(k))
                     /\ Cardinality(Rest \cup Mine(k)) = Cardinality(Rest) + k
  <2> SUFFICES ASSUME NEW k \in Nat
               PROVE  /\ IsFiniteSet(Rest \cup Mine(k))
                      /\ Cardinality(Rest \cup Mine(k)) = Cardinality(Rest) + k
    OBVIOUS
  <2>1. /\ IsFiniteSet(Rest \cup Mine(k))
        /\ Cardinality(Rest \cup Mine(k)) =
             Cardinality(Rest) + Cardinality(Mine(k))
               - Cardinality(Rest \cap Mine(k))
    BY <1>4, <1>5, FS_Union
  <2>2. Cardinality(Rest \cap Mine(k)) = 0
    BY <1>2, FS_EmptySet
  <2>3. Cardinality(Rest) \in Nat
    BY <1>5, FS_CardinalityType
  <2> QED
    BY <1>4, <2>1, <2>2, <2>3
<1>7. Cardinality(Rest) \in Nat
  BY <1>5, FS_CardinalityType
<1>8. SumOf(f) = Cardinality(Rest) + f[o] /\ IsFiniteSet(Units(g))
  BY <1>1, <1>3, <1>6 DEF SumOf
<1>9. SumOf(g) = Cardinality(Rest) + g[o]
  BY <1>1, <1>3, <1>6 DEF SumOf
<1> QED
  BY <1>3, <1>7, <1>8, <1>9

----------------------------------------------------------------------------
(* The steps *)

LEMMA NoPieces == Len(<<>>) = 0
OBVIOUS

\* The two lengths an order accounts for, before and after a step.
LEMMA Times == \A m, n \in Nat : m * n \in Nat
OBVIOUS

LEMMA LengthsType ==
  ASSUME TypeOK
  PROVE  LengthReserved \in [Order -> Nat] /\ LengthCut \in [Order -> Nat]
<1>1. \A p \in Order : basket[p].len \in Nat /\ Len(pieces[p]) \in Nat
  BY DEF TypeOK, TableTypeOK, StockTypeOK
<1> QED
  BY <1>1, Times DEF LengthReserved, LengthCut

LEMMA LengthsStayTyped ==
  ASSUME TypeOK'
  PROVE  LengthReserved' \in [Order -> Nat] /\ LengthCut' \in [Order -> Nat]
<1>1. \A p \in Order : basket'[p].len \in Nat /\ Len(pieces'[p]) \in Nat
  BY DEF TypeOK, TableTypeOK, StockTypeOK
<1> QED
  BY <1>1, Times DEF LengthReserved, LengthCut

\* What order p has of the roll.
SameRoll(p) ==
  basket'[p] = basket[p] /\ alloc'[p] = alloc[p] /\ pieces'[p] = pieces[p]

\* One order's step: the roll loses or gets back what this order gains or
\* gives up.
LEMMA OneOrder ==
  ASSUME RollInv, StockInv', NEW o \in Order, RollFits(o)',
         \A p \in Order \ {o} : SameRoll(p) /\ status'[p] = status[p],
         roll'.reserved = roll.reserved - LengthReserved[o] + LengthReserved'[o],
         roll'.current = roll.current + LengthCut[o] - LengthCut'[o],
         roll'.reserved <= roll'.current
  PROVE  RollInv'
<1>1. \A p \in Order : RollFits(p)'
  BY DEF RollInv, RollFits, SameRoll
<1>2. /\ LengthReserved \in [Order -> Nat] /\ LengthCut \in [Order -> Nat]
      /\ LengthReserved' \in [Order -> Nat] /\ LengthCut' \in [Order -> Nat]
  BY LengthsType, LengthsStayTyped DEF RollInv, StockInv
<1>3. \A p \in Order \ {o} : /\ LengthReserved'[p] = LengthReserved[p]
                             /\ LengthCut'[p] = LengthCut[p]
  BY DEF LengthReserved, LengthCut, SameRoll
<1>4. /\ IsFiniteSet(Units(LengthReserved'))
      /\ SumOf(LengthReserved) \in Nat
      /\ SumOf(LengthReserved') =
           SumOf(LengthReserved) - LengthReserved[o] + LengthReserved'[o]
  BY <1>2, <1>3, SumChanges DEF RollInv, Metered
<1>5. /\ IsFiniteSet(Units(LengthCut'))
      /\ SumOf(LengthCut) \in Nat
      /\ SumOf(LengthCut') = SumOf(LengthCut) - LengthCut[o] + LengthCut'[o]
  BY <1>2, <1>3, SumChanges DEF RollInv, Metered
<1>6. /\ roll.reserved = SumOf(LengthReserved)
      /\ roll.current + SumOf(LengthCut) = RollLength
  BY DEF RollInv, Metered, RollCoversReservations, RollLengthConserved
<1>7. /\ roll.current \in Int /\ LengthCut[o] \in Nat /\ LengthCut'[o] \in Nat
      /\ LengthReserved[o] \in Nat /\ LengthReserved'[o] \in Nat
  BY <1>2 DEF RollInv, StockInv, TypeOK, StockTypeOK
<1>8. /\ roll'.reserved = SumOf(LengthReserved')
      /\ roll'.current + SumOf(LengthCut') = RollLength
  BY <1>4, <1>5, <1>6, <1>7, RollLengthAssumption
<1>9. Metered'
  BY <1>4, <1>5, <1>8
  DEF Metered, RollCoversReservations, RollLengthConserved
<1> QED
  BY <1>1, <1>9 DEF RollInv

\* A step that leaves the roll and the orders' shares of it alone.
LEMMA RollFrame ==
  ASSUME RollInv, StockInv', roll' = roll,
         \A p \in Order : SameRoll(p) /\ RollFits(p)'
  PROVE  RollInv'
<1>1. LengthReserved' = LengthReserved /\ LengthCut' = LengthCut
  BY DEF LengthReserved, LengthCut, SameRoll
<1>2. Metered'
  BY <1>1 DEF RollInv, Metered, RollCoversReservations, RollLengthConserved,
              SumOf, Units
<1> QED
  BY <1>2 DEF RollInv

\* In particular one that moves orders after the hand-over only.
LEMMA QuietRoll ==
  ASSUME RollInv, StockInv', UNCHANGED <<roll, alloc, pieces, basket>>,
         \A p \in Order : \/ status'[p] = status[p]
                          \/ {status[p], status'[p]} \subseteq After
  PROVE  RollInv'
<1>1. \A p \in Order : SameRoll(p)
  BY DEF SameRoll
<1>2. \A p \in Order : RollFits(p)'
  BY <1>1 DEF RollInv, RollFits, SameRoll, After, Before, Waiting
<1> QED
  BY <1>1, <1>2, RollFrame

\* Checkout: a new allocation, and as much length reserved.
LEMMA CreateOnRoll ==
  ASSUME RollInv, StockInv', NEW o \in Order, Create(o)
  PROVE  RollInv'
<1>1. PICK b \in Baskets :
        /\ b.len <= RollFree
        /\ roll' = ReserveRollLength(roll, b.len)
        /\ alloc' = [alloc EXCEPT
                       ![o] = IF b.len > 0 THEN "RESERVED" ELSE "NONE"]
        /\ basket' = [basket EXCEPT ![o] = b]
  BY DEF Create
<1>2. /\ status[o] = "NONE" /\ status' = [status EXCEPT ![o] = "PENDING"]
      /\ pieces' = pieces
  BY DEF Create
<1>3. /\ b.len \in Nat /\ roll \in [current : Int, reserved : Int]
      /\ basket[o].len \in Nat
  <2>1. b \in [qty : Nat, len : Nat]
    BY BasketsAssumption
  <2> QED
    BY <2>1 DEF RollInv, StockInv, TypeOK, StockTypeOK, TableTypeOK
<1>4. alloc[o] = "NONE" /\ basket[o].len = 0 /\ pieces[o] = <<>>
  BY <1>2 DEF RollInv, RollFits
<1>5. /\ status'[o] = "PENDING" /\ basket'[o] = b /\ pieces'[o] = <<>>
      /\ alloc'[o] = IF b.len > 0 THEN "RESERVED" ELSE "NONE"
      /\ \A p \in Order \ {o} : SameRoll(p) /\ status'[p] = status[p]
  BY <1>1, <1>2, <1>4
  DEF SameRoll, RollInv, StockInv, TypeOK, StockTypeOK, TableTypeOK
<1>6. RollFits(o)'
  BY <1>3, <1>5 DEF RollFits, Waiting
<1>7. /\ roll'.reserved = roll.reserved + b.len /\ roll'.current = roll.current
      /\ b.len <= roll.current - roll.reserved
  BY <1>1, <1>3 DEF ReserveRollLength, RollFree
<1>8. /\ LengthReserved[o] = 0 /\ LengthReserved'[o] = b.len
      /\ LengthCut[o] = 0 /\ LengthCut'[o] = 0
  <2>1. LengthReserved[o] = 0 /\ LengthReserved'[o] = b.len
    BY <1>3, <1>4, <1>5 DEF LengthReserved
  <2>2. /\ LengthCut[o] = basket[o].len * Len(<<>>)
        /\ LengthCut'[o] = b.len * Len(<<>>)
    BY <1>4, <1>5 DEF LengthCut
  <2> QED
    BY <2>1, <2>2, <1>3, NoPieces
<1> QED
  BY <1>3, <1>5, <1>6, <1>7, <1>8, OneOrder

\* Marking pieces neither adds nor loses one.
LEMMA PiecesLength ==
  ASSUME NEW ps \in Seq(InventoryStatus)
  PROVE  /\ Len(MarkPiecesSold(ps)) = Len(ps)
         /\ Len(ReleasePieces(ps)) = Len(ps)
         /\ ps = <<>> => ReleasePieces(ps) = <<>>
         /\ \A n \in DOMAIN ReleasePieces(ps) : ReleasePieces(ps)[n] = "ACTIVE"
<1>1. /\ MarkPiecesSold(ps) \in Seq(InventoryStatus)
      /\ ReleasePieces(ps) \in Seq(InventoryStatus)
  BY PiecesType
<1>2. /\ DOMAIN MarkPiecesSold(ps) = 1 .. Len(ps)
      /\ DOMAIN ReleasePieces(ps) = 1 .. Len(ps)
  BY DEF MarkPiecesSold, ReleasePieces
<1>3. Len(MarkPiecesSold(ps)) = Len(ps) /\ Len(ReleasePieces(ps)) = Len(ps)
  BY <1>1, <1>2
<1>4. \A n \in DOMAIN ReleasePieces(ps) : ReleasePieces(ps)[n] = "ACTIVE"
  BY DEF ReleasePieces
<1>5. ps = <<>> => ReleasePieces(ps) = <<>>
  BY <1>1, <1>3
<1> QED
  BY <1>3, <1>4, <1>5

\* ACCEPTED: what is reserved waits to be cut.
LEMMA SendOnRoll ==
  ASSUME RollInv, StockInv', NEW o \in Order, status[o] \in Before,
         status' = [status EXCEPT ![o] = "ACCEPTED"], basket' = basket,
         SendToCutting(o)
  PROVE  RollInv'
<1>1. /\ alloc' = [alloc EXCEPT ![o] = IF @ = "RESERVED" THEN "CUTTING" ELSE @]
      /\ UNCHANGED <<pieces, roll>>
  BY DEF SendToCutting
<1>2. /\ status'[o] = "ACCEPTED"
      /\ alloc'[o] = IF alloc[o] = "RESERVED" THEN "CUTTING" ELSE alloc[o]
      /\ \A p \in Order \ {o} : SameRoll(p) /\ status'[p] = status[p]
  BY <1>1 DEF SameRoll, RollInv, StockInv, TypeOK, StockTypeOK, TableTypeOK
<1>3. RollFits(o)
  BY DEF RollInv
<1>4. RollFits(o)'
  BY <1>1, <1>2, <1>3 DEF RollFits, Waiting, Before, After
<1>5. LengthReserved'[o] = LengthReserved[o] /\ LengthCut'[o] = LengthCut[o]
  BY <1>1, <1>2 DEF LengthReserved, LengthCut
<1>6. /\ LengthReserved[o] \in Nat /\ LengthCut[o] \in Nat
      /\ roll \in [current : Int, reserved : Int]
  BY LengthsType DEF RollInv, StockInv, TypeOK, StockTypeOK
<1>7. roll.reserved <= roll.current
  BY DEF RollInv, Metered, RollCoversReservations
<1> QED
  BY <1>1, <1>2, <1>4, <1>5, <1>6, <1>7, OneOrder

\* READY_FOR_DELIVERY, ON_WAY, DELIVERED: what is still reserved is cut.
LEMMA CutOnRoll ==
  ASSUME RollInv, StockInv', NEW o \in Order, status[o] \in Before,
         NEW to \in {"READY_FOR_DELIVERY", "ON_WAY", "DELIVERED"},
         status' = [status EXCEPT ![o] = to], basket' = basket,
         CutAndHandOver(o, to)
  PROVE  RollInv'
<1> DEFINE uncut == alloc[o] \in {"RESERVED", "CUTTING"}
           piece == IF to = "DELIVERED" THEN "SOLD" ELSE "RESERVED"
           cut == IF uncut THEN Append(pieces[o], piece) ELSE pieces[o]
           len == basket[o].len
<1>1. /\ RollFits(o) /\ len \in Nat /\ pieces[o] \in Seq(InventoryStatus)
      /\ alloc[o] \in AllocStatus \cup {"NONE"}
      /\ roll \in [current : Int, reserved : Int]
  BY DEF RollInv, StockInv, TypeOK, StockTypeOK, TableTypeOK
<1>2. alloc[o] \in {"NONE", "RESERVED", "CUTTING", "CUT"}
  BY <1>1 DEF RollFits, AllocStatus, Before, After
<1>3. uncut <=> Uncut(alloc[o])
  BY <1>2 DEF Uncut
<1>4. /\ roll' = IF uncut THEN CutRollSegment(roll, len) ELSE roll
      /\ pieces' = [pieces EXCEPT
                      ![o] = IF to = "DELIVERED" THEN MarkPiecesSold(cut)
                             ELSE cut]
      /\ alloc' = [alloc EXCEPT
                     ![o] = IF @ = "NONE" THEN "NONE"
                            ELSE IF to = "DELIVERED" THEN "DELIVERED"
                                 ELSE "CUT"]
  BY <1>3 DEF CutAndHandOver
<1>5. /\ status'[o] = to
      /\ pieces'[o] = IF to = "DELIVERED" THEN MarkPiecesSold(cut) ELSE cut
      /\ alloc'[o] = IF alloc[o] = "NONE" THEN "NONE"
                     ELSE IF to = "DELIVERED" THEN "DELIVERED" ELSE "CUT"
      /\ \A p \in Order \ {o} : SameRoll(p) /\ status'[p] = status[p]
  BY <1>4 DEF SameRoll, RollInv, StockInv, TypeOK, StockTypeOK, TableTypeOK
<1>6. /\ cut \in Seq(InventoryStatus)
      /\ Len(cut) = IF alloc[o] = "NONE" THEN 0 ELSE 1
  <2>1. piece \in InventoryStatus
    BY DEF InventoryStatus
  <2>2. CASE uncut
    <3>1. pieces[o] = <<>>
      BY <1>1, <2>2 DEF RollFits
    <3>2. cut = Append(pieces[o], piece)
      BY <2>2
    <3>3. Len(Append(pieces[o], piece)) = Len(pieces[o]) + 1
          /\ Append(pieces[o], piece) \in Seq(InventoryStatus)
      BY <1>1, <2>1
    <3> QED
      BY <2>2, <3>1, <3>2, <3>3, NoPieces
  <2>3. CASE ~ uncut
    <3>1. alloc[o] = "NONE" => pieces[o] = <<>>
      BY <1>1 DEF RollFits
    <3>2. alloc[o] = "CUT" => Len(pieces[o]) = 1
      BY <1>1 DEF RollFits
    <3>3. Len(pieces[o]) = IF alloc[o] = "NONE" THEN 0 ELSE 1
      BY <1>2, <2>3, <3>1, <3>2, NoPieces
    <3> QED
      BY <1>1, <2>3, <3>3
  <2> QED
    BY <2>2, <2>3
<1> HIDE DEF cut
<1>7. Len(pieces'[o]) = (IF alloc[o] = "NONE" THEN 0 ELSE 1)
      /\ pieces'[o] \in Seq(InventoryStatus)
  BY <1>5, <1>6, PiecesLength, PiecesType
<1>8. RollFits(o)'
  <2>1. alloc'[o] = "NONE" => pieces'[o] = <<>>
    BY <1>5, <1>7
  <2>2. basket'[o].len = 0 <=> alloc'[o] = "NONE"
    BY <1>1, <1>5 DEF RollFits
  <2> QED
    BY <1>5, <1>7, <2>1, <2>2 DEF RollFits, Before, After
<1>9. /\ LengthReserved[o] = IF uncut THEN len ELSE 0
      /\ LengthReserved'[o] = 0
  BY <1>5 DEF LengthReserved
<1>10. LengthCut'[o] = LengthCut[o] + (IF uncut THEN len ELSE 0)
  <2>1. /\ LengthCut[o] = len * Len(pieces[o])
        /\ LengthCut'[o] = len * Len(pieces'[o])
    BY DEF LengthCut
  <2>2. Len(pieces[o]) = IF alloc[o] = "CUT" THEN 1 ELSE 0
    <3>1. alloc[o] = "CUT" => Len(pieces[o]) = 1
      BY <1>1 DEF RollFits
    <3>2. alloc[o] # "CUT" => pieces[o] = <<>>
      BY <1>1, <1>2 DEF RollFits
    <3> QED
      BY <3>1, <3>2, NoPieces
  <2> QED
    BY <1>1, <1>2, <1>7, <2>1, <2>2
<1>11. roll.reserved <= roll.current
  BY DEF RollInv, Metered, RollCoversReservations
<1>12. /\ roll'.reserved = roll.reserved - (IF uncut THEN len ELSE 0)
       /\ roll'.current = roll.current - (IF uncut THEN len ELSE 0)
  BY <1>1, <1>4 DEF CutRollSegment
<1>13. LengthCut[o] \in Nat
  BY LengthsType DEF RollInv, StockInv
<1> HIDE DEF uncut, len
<1>14. /\ roll'.reserved = roll.reserved - LengthReserved[o] + LengthReserved'[o]
       /\ roll'.current = roll.current + LengthCut[o] - LengthCut'[o]
       /\ roll'.reserved <= roll'.current
  BY <1>1, <1>9, <1>10, <1>11, <1>12, <1>13
<1> QED
  BY <1>5, <1>8, <1>14, OneOrder

\* CANCELLED: what is still reserved is released, what was cut is given back.
LEMMA GiveBackOnRoll ==
  ASSUME RollInv, StockInv', NEW o \in Order, status[o] \in Before,
         status' = [status EXCEPT ![o] = "CANCELLED"], basket' = basket,
         GiveBack(o)
  PROVE  RollInv'
<1> DEFINE uncut == alloc[o] \in {"RESERVED", "CUTTING"}
           len == basket[o].len
<1>1. /\ RollFits(o) /\ len \in Nat /\ pieces[o] \in Seq(InventoryStatus)
      /\ alloc[o] \in AllocStatus \cup {"NONE"}
      /\ roll \in [current : Int, reserved : Int]
  BY DEF RollInv, StockInv, TypeOK, StockTypeOK, TableTypeOK
<1>2. alloc[o] \in {"NONE", "RESERVED", "CUTTING", "CUT"}
  BY <1>1 DEF RollFits, AllocStatus, Before, After
<1>3. uncut <=> Uncut(alloc[o])
  BY <1>2 DEF Uncut
<1>4. /\ roll' = IF uncut THEN ReleaseRollReservation(roll, len) ELSE roll
      /\ pieces' = [pieces EXCEPT ![o] = ReleasePieces(@)]
      /\ alloc' = [alloc EXCEPT ![o] = IF @ = "NONE" THEN @ ELSE "AVAILABLE"]
  BY <1>3 DEF GiveBack
<1>5. /\ status'[o] = "CANCELLED"
      /\ pieces'[o] = ReleasePieces(pieces[o])
      /\ alloc'[o] = IF alloc[o] = "NONE" THEN "NONE" ELSE "AVAILABLE"
      /\ \A p \in Order \ {o} : SameRoll(p) /\ status'[p] = status[p]
  BY <1>4 DEF SameRoll, RollInv, StockInv, TypeOK, StockTypeOK, TableTypeOK
<1>6. /\ Len(pieces'[o]) = Len(pieces[o])
      /\ pieces[o] = <<>> => pieces'[o] = <<>>
      /\ \A n \in DOMAIN pieces'[o] : pieces'[o][n] = "ACTIVE"
  BY <1>1, <1>5, PiecesLength
<1>7. Len(pieces[o]) <= 1
  <2>1. alloc[o] = "CUT" => Len(pieces[o]) = 1
    BY <1>1 DEF RollFits
  <2>2. alloc[o] # "CUT" => pieces[o] = <<>>
    BY <1>1, <1>2 DEF RollFits
  <2>3. Len(pieces[o]) = 1 \/ Len(pieces[o]) = 0
    BY <2>1, <2>2, NoPieces
  <2>4. 0 <= 1 /\ 1 <= 1
    OBVIOUS
  <2> QED
    BY <2>3, <2>4
<1>8. RollFits(o)'
  <2>1. alloc'[o] = "NONE" => pieces'[o] = <<>>
    BY <1>1, <1>5, <1>6 DEF RollFits
  <2>2. basket'[o].len = 0 <=> alloc'[o] = "NONE"
    BY <1>1, <1>5 DEF RollFits
  <2> QED
    BY <1>5, <1>6, <1>7, <2>1, <2>2 DEF RollFits
<1>9. /\ LengthReserved[o] = IF uncut THEN len ELSE 0
      /\ LengthReserved'[o] = 0
      /\ LengthCut'[o] = LengthCut[o]
  BY <1>5, <1>6 DEF LengthReserved, LengthCut
<1>10. /\ roll.reserved <= roll.current
       /\ LengthCut[o] \in Nat
  BY LengthsType
  DEF RollInv, Metered, RollCoversReservations, StockInv
<1>11. /\ roll'.reserved = roll.reserved - (IF uncut THEN len ELSE 0)
       /\ roll'.current = roll.current
  BY <1>1, <1>4 DEF ReleaseRollReservation
<1> HIDE DEF uncut, len
<1>12. /\ roll'.reserved = roll.reserved - LengthReserved[o] + LengthReserved'[o]
       /\ roll'.current = roll.current + LengthCut[o] - LengthCut'[o]
       /\ roll'.reserved <= roll'.current
  BY <1>1, <1>9, <1>10, <1>11
<1> QED
  BY <1>5, <1>8, <1>12, OneOrder

\* The version has not moved, so the status written is one the status the
\* order still has leads to.
LEMMA UpdateStatusOnRoll ==
  ASSUME RollInv, StockInv', NEW h \in Handler, UpdateStatus(h)
  PROVE  RollInv'
<1>1. PICK o \in Order : o = job[h].o
  BY DEF UpdateStatus, RollInv, StockInv, TypeOK, JobTypeOK
<1>2. PICK to : to = job[h].to
  OBVIOUS
<1>3. StatusJobFits(h)
  BY <1>1 DEF UpdateStatus, VersionHolds, RollInv, StockInv, WritesAreSound,
              JobFits, UpToDate
<1>4. \/ status[o] \in Before /\ to \in Before \cup {"DELIVERED", "CANCELLED"}
      \/ status[o] \in After /\ to \in After \ {"DELIVERED"}
  BY <1>1, <1>2, <1>3 DEF StatusJobFits, Before
<1>5. status' = [status EXCEPT ![o] = to] /\ basket' = basket
  BY <1>1, <1>2 DEF UpdateStatus
<1>6. status' \in [Order -> OrderStatus \cup {"NONE"}]
      /\ status \in [Order -> OrderStatus \cup {"NONE"}]
  BY DEF RollInv, StockInv, TypeOK, TableTypeOK
<1>7. CASE to = "ACCEPTED"
  BY <1>1, <1>2, <1>4, <1>5, <1>7, SendOnRoll DEF UpdateStatus, After
<1>8. CASE to \in {"READY_FOR_DELIVERY", "ON_WAY", "DELIVERED"}
  BY <1>1, <1>2, <1>4, <1>5, <1>8, CutOnRoll DEF UpdateStatus, After
<1>9. CASE to = "CANCELLED"
  BY <1>1, <1>2, <1>4, <1>5, <1>9, GiveBackOnRoll DEF UpdateStatus, After
<1>10. CASE to \notin {"ACCEPTED", "READY_FOR_DELIVERY", "ON_WAY",
                       "DELIVERED", "CANCELLED"}
  <2>1. UNCHANGED <<roll, alloc, pieces, basket>>
    BY <1>1, <1>2, <1>5, <1>10 DEF UpdateStatus, stockVars
  <2>2. \A p \in Order : SameRoll(p)
    BY <2>1 DEF SameRoll
  <2>3. \A p \in Order \ {o} : status'[p] = status[p]
    BY <1>5, <1>6
  <2>4. \/ status[o] \in Before /\ status'[o] \in Waiting
        \/ status[o] \in After /\ status'[o] \in After
    BY <1>4, <1>5, <1>6, <1>10 DEF Before, After, Waiting
  <2>5. RollFits(o)'
    <3>1. RollFits(o)
      BY DEF RollInv
    <3> QED
      BY <2>1, <2>4, <3>1 DEF RollFits, Before, After, Waiting
  <2>6. \A p \in Order : RollFits(p)'
    BY <2>2, <2>3, <2>5 DEF RollInv, RollFits, SameRoll
  <2> QED
    BY <2>1, <2>2, <2>6, RollFrame
<1> QED
  BY <1>7, <1>8, <1>9, <1>10

\* Returns, refunds and automatic completion happen after the hand-over, and
\* leave the roll alone.
LEMMA AfterOnRoll ==
  ASSUME RollInv, StockInv',
         \/ \E h \in Handler : \/ CreateReturnRequest(h) \/ Refund(h)
                             \/ TelegramReject(h) \/ AutoComplete(h)
         \/ \E o \in Order : RejectReturn(o)
  PROVE  RollInv'
<1>1. UNCHANGED <<roll, alloc, pieces, basket>>
  BY DEF CreateReturnRequest, Refund, TelegramReject, AutoComplete,
         RejectReturn, stockVars
<1>2. \E o \in Order, s \in After :
        status[o] \in After /\ status' = [status EXCEPT ![o] = s]
  <2> USE DEF RollInv, StockInv, WritesAreSound
  <2>1. ASSUME NEW h \in Handler, CreateReturnRequest(h)
        PROVE  /\ status[job[h].o] \in After
               /\ status' = [status EXCEPT ![job[h].o] = "RETURN_REQUESTED"]
    BY <2>1 DEF CreateReturnRequest, JobFits
  <2>2. ASSUME NEW h \in Handler, Refund(h)
        PROVE  /\ status[job[h].o] \in After
               /\ status' = [status EXCEPT ![job[h].o] = "REFUNDED"]
    BY <2>2 DEF Refund, JobFits
  <2>3. ASSUME NEW h \in Handler, TelegramReject(h)
        PROVE  /\ status[job[h].o] \in After
               /\ status' = [status EXCEPT ![job[h].o] = "RETURN_REJECTED"]
    BY <2>3 DEF TelegramReject, JobFits
  <2>4. ASSUME NEW h \in Handler, AutoComplete(h)
        PROVE  /\ status[job[h].o] \in After
               /\ status' = [status EXCEPT ![job[h].o] = "COMPLETED"]
    BY <2>4 DEF AutoComplete, JobFits
  <2>5. ASSUME NEW o \in Order, RejectReturn(o)
        PROVE  /\ status[o] \in After
               /\ status' = [status EXCEPT ![o] = "COMPLETED"]
    BY <2>5 DEF RejectReturn, ReturnFits
  <2>6. \A h \in Handler :
          CreateReturnRequest(h) \/ Refund(h) \/ TelegramReject(h)
            \/ AutoComplete(h) => job[h].o \in Order
    BY DEF TypeOK, JobTypeOK, CreateReturnRequest, Refund, TelegramReject,
           AutoComplete
  <2> QED
    BY <2>1, <2>2, <2>3, <2>4, <2>5, <2>6 DEF After
<1>3. \A p \in Order : \/ status'[p] = status[p]
                       \/ {status[p], status'[p]} \subseteq After
  <2>1. status \in [Order -> OrderStatus \cup {"NONE"}]
    BY DEF RollInv, StockInv, TypeOK, TableTypeOK
  <2> QED
    BY <1>2, <2>1
<1> QED
  BY <1>1, <1>3, QuietRoll

\* Everything that changes no status and nothing of the roll.
LEMMA StillRoll ==
  ASSUME RollInv, StockInv', UNCHANGED <<status, roll, alloc, pieces, basket>>
  PROVE  RollInv'
BY QuietRoll

\* RollInv is inductive.
LEMMA NextRollInv ==
  ASSUME Ops \subseteq DisciplinedOps, RollInv, [Next]_vars
  PROVE  RollInv'
<1>0. StockInv /\ StockInv'
  BY NextStockInv DEF RollInv
<1>1. CASE OrderNext
  <2>1. ASSUME NEW o \in Order, NEW h \in Handler,
               \/ StartUpdateStatus(h, o) \/ StartCancelMyOrder(h, o)
               \/ StartConfirmDelivery(h, o) \/ StartConfirmRemaining(h, o)
               \/ StartMarkItemAsCut(h, o) \/ StartUpdateOrder(h, o)
        PROVE  UNCHANGED <<status, roll, alloc, pieces, basket>>
    BY <2>1
    DEF StartUpdateStatus, StartCancelMyOrder, StartConfirmDelivery,
        StartConfirmRemaining, StartMarkItemAsCut, StartUpdateOrder,
        stockVars, orderVars
  <2>2. ASSUME NEW h \in Handler, ConfirmRemaining(h) \/ Abandon(h)
        PROVE  UNCHANGED <<status, roll, alloc, pieces, basket>>
    BY <2>2 DEF ConfirmRemaining, Abandon, stockVars, orderVars
  <2>3. ASSUME NEW o \in Order, ReturnWindowCloses(o) \/ OrderAges(o)
        PROVE  UNCHANGED <<status, roll, alloc, pieces, basket>>
    BY <2>3 DEF ReturnWindowCloses, OrderAges, stockVars
  <2> QED
    BY <1>0, <1>1, <2>1, <2>2, <2>3, StillRoll, CreateOnRoll,
       UpdateStatusOnRoll, HandlersOutOfUse
    DEF OrderNext
<1>2. CASE ReturnNext
  <2>1. ASSUME NEW o \in Order, NEW h \in Handler,
               \/ StartCreateReturn(h, o) \/ StartRefund(h, o)
               \/ StartTelegramRefund(h, o) \/ StartTelegramReject(h, o)
               \/ StartAutoComplete(h, o)
        PROVE  UNCHANGED <<status, roll, alloc, pieces, basket>>
    BY <2>1 DEF StartCreateReturn, StartRefund, StartTelegramRefund,
                StartTelegramReject, StartAutoComplete, stockVars, orderVars
  <2>2. ASSUME NEW h \in Handler,
               \/ RefundReadsOrder(h) \/ TelegramRefundReadsRequest(h)
               \/ AutoCompleteReads(h)
        PROVE  UNCHANGED <<status, roll, alloc, pieces, basket>>
    BY <2>2 DEF RefundReadsOrder, TelegramRefundReadsRequest,
                AutoCompleteReads, stockVars, orderVars
  <2> QED
    BY <1>0, <1>2, <2>1, <2>2, StillRoll, AfterOnRoll DEF ReturnNext
<1>3. CASE ShopNext
  BY <1>0, <1>3, OutOfUse, HandlersOutOfUse DEF ShopNext
<1>4. CASE UNCHANGED vars
  BY <1>0, <1>4, StillRoll DEF vars, stockVars, orderVars
<1> QED
  BY <1>1, <1>2, <1>3, <1>4 DEF Next

\* When the shop opens nothing is reserved and nothing has been cut.
LEMMA InitRollInv == Init => RollInv
<1> SUFFICES ASSUME Init PROVE RollInv
  OBVIOUS
<1>1. StockInv
  BY InitStockInv
<1>2. \A o \in Order : RollFits(o)
  BY DEF Init, StockInit, RollFits, NoBasket
<1>3. \A o \in Order : LengthReserved[o] = 0 /\ LengthCut[o] = 0
  BY NoPieces DEF Init, StockInit, LengthReserved, LengthCut, NoBasket
<1>4. Units(LengthReserved) = {} /\ Units(LengthCut) = {}
  BY <1>3 DEF Units
<1>5. roll.reserved = 0 /\ roll.current = RollLength
  BY DEF Init, StockInit
<1>6. SumOf(LengthReserved) = 0 /\ SumOf(LengthCut) = 0
  BY <1>4, FS_EmptySet DEF SumOf
<1>7. Metered
  BY <1>4, <1>5, <1>6, FS_EmptySet, RollLengthAssumption
  DEF Metered, RollCoversReservations, RollLengthConserved
<1> QED
  BY <1>1, <1>2, <1>7 DEF RollInv

----------------------------------------------------------------------------
\* While only operations that check versions are in use, what is reserved on
\* the roll is exactly what the allocations still to be cut ask for, and the
\* roll is long enough for it, whatever the carts and however handlers
\* interleave.
THEOREM TheRollSuffices ==
  ASSUME Ops \subseteq DisciplinedOps
  PROVE  Spec => []RollCoversReservations
<1>1. RollInv => RollCoversReservations
  BY DEF RollInv, Metered
<1> QED
  BY InitRollInv, NextRollInv, <1>1, PTL DEF Spec

\* Under the same operations no length appears or disappears: the roll and the
\* pieces cut from it are as long as the roll was.
THEOREM NoLengthIsLost ==
  ASSUME Ops \subseteq DisciplinedOps
  PROVE  Spec => []RollLengthConserved
<1>1. RollInv => RollLengthConserved
  BY DEF RollInv, Metered
<1> QED
  BY InitRollInv, NextRollInv, <1>1, PTL DEF Spec

\* And every order for a length is cut once by the time it is ready, whatever
\* detours its status took.
THEOREM EachLengthIsCutOnce ==
  ASSUME Ops \subseteq DisciplinedOps
  PROVE  Spec => []CutExactlyOnce
<1>1. RollInv => CutExactlyOnce
  <2> SUFFICES ASSUME RollInv, NEW o \in Order
               PROVE  /\ Len(pieces[o]) <= 1
                      /\ /\ basket[o].len > 0
                         /\ status[o] \in {"READY_FOR_DELIVERY", "ON_WAY"}
                                             \cup After
                         => Len(pieces[o]) = 1
    BY DEF CutExactlyOnce
  <2>1. RollFits(o) /\ alloc[o] \in AllocStatus \cup {"NONE"}
        /\ basket[o].len \in Nat
    BY DEF RollInv, StockInv, TypeOK, StockTypeOK, TableTypeOK
  <2>2. Len(pieces[o]) <= 1
    <3>1. alloc[o] \in {"NONE", "RESERVED", "CUTTING"} => Len(pieces[o]) = 0
      BY <2>1, NoPieces DEF RollFits
    <3>2. alloc[o] \in {"CUT", "DELIVERED"} => Len(pieces[o]) = 1
      BY <2>1 DEF RollFits
    <3>3. alloc[o] = "AVAILABLE" => Len(pieces[o]) <= 1
      BY <2>1 DEF RollFits
    <3>4. 0 <= 1 /\ 1 <= 1
      OBVIOUS
    <3> QED
      BY <2>1, <3>1, <3>2, <3>3, <3>4 DEF AllocStatus
  <2>3. ASSUME basket[o].len > 0,
               status[o] \in {"READY_FOR_DELIVERY", "ON_WAY"} \cup After
        PROVE  alloc[o] \in {"CUT", "DELIVERED"}
    BY <2>1, <2>3 DEF RollFits, AllocStatus, After, Waiting
  <2> QED
    BY <2>1, <2>2, <2>3 DEF RollFits
<1> QED
  BY InitRollInv, NextRollInv, <1>1, PTL DEF Spec

\* A cancelled order leaves no length reserved and no piece marked for it.
THEOREM CancelledIsReleased ==
  ASSUME Ops \subseteq DisciplinedOps
  PROVE  Spec => []CancelledLeavesNothing
<1>1. RollInv => CancelledLeavesNothing
  <2> SUFFICES ASSUME RollInv, NEW o \in Order, status[o] = "CANCELLED"
               PROVE  /\ alloc[o] \in {"NONE", "AVAILABLE"}
                      /\ \A n \in DOMAIN pieces[o] : pieces[o][n] = "ACTIVE"
    BY DEF CancelledLeavesNothing
  <2>1. RollFits(o) /\ alloc[o] \in AllocStatus \cup {"NONE"}
    BY DEF RollInv, StockInv, TypeOK, StockTypeOK
  <2>2. alloc[o] \in {"NONE", "AVAILABLE"}
    BY <2>1 DEF RollFits, AllocStatus, Waiting, Before, After
  <2>3. \A n \in DOMAIN <<>> : <<>>[n] = "ACTIVE"
    OBVIOUS
  <2> QED
    BY <2>1, <2>2, <2>3 DEF RollFits
<1> QED
  BY InitRollInv, NextRollInv, <1>1, PTL DEF Spec
=============================================================================
