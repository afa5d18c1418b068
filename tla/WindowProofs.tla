---------------------------- MODULE WindowProofs ----------------------------
(***************************************************************************)
(* What the shop window shows, for any number of carpets, users, pieces,   *)
(* requests and administrators at the same time: likes are counted, a      *)
(* collection has one price, cached lists are fresh, synchronisations run  *)
(* alone, fail only where one was cut short, and end with the shelves the  *)
(* file names.  SearchProofs has what is proved of finding carpets.        *)
(***************************************************************************)
EXTENDS ShopWindow, FiniteSetTheorems, FunctionTheorems, TLAPS

(***************************************************************************)
(* Requests of the shop window                                             *)
(***************************************************************************)
LikeVisit == [kind : {"like", "unlike"}, fan : Fan, model : Model, counts : BOOLEAN]
CountVisit == [kind : {"count"}, model : Model, more : {1, -1}]
SpreadVisit == [kind : {"spread"}, models : SUBSET Model, price : Price]
PriceVisit == [kind : {"propagate"}, model : Model, price : Price]
TariffVisit == [kind : {"tariff"}, price : Price]
ImportVisit == [kind : {"import"}, model : Model, price : Prices]
FillVisit == [kind : {"fill"}, value : 0 .. MaxOffers]
PlainVisit == [kind : {"leave", "announce", "announceFirst", "commit"}]

Visit == {Away} \cup LikeVisit \cup CountVisit \cup SpreadVisit \cup PriceVisit
           \cup TariffVisit \cup ImportVisit \cup FillVisit \cup PlainVisit

VisitsTyped ==
  /\ ListingsTypeOK
  /\ visit \in [Visitor -> Visit]
  /\ uneven \in BOOLEAN /\ excused \in BOOLEAN /\ recount \in BOOLEAN

LEMMA InitVisits == ListingsInit => VisitsTyped
<1> SUFFICES ASSUME ListingsInit PROVE VisitsTyped
  OBVIOUS
<1>2. 0 \in 0 .. MaxOffers
  BY ListingsAssumption
<1>3. visit \in [Visitor -> Visit]
  BY DEF ListingsInit, Visit
<1>4. liked \subseteq Fan \X Model /\ likes \in [Model -> Int] /\ owed \in [Model -> Int]
  BY DEF ListingsInit
<1>5. price \in [Model -> Prices \cup {NoPrice}] /\ sort \in [Model -> Sort] /\ stirred \subseteq Visitor
  BY DEF ListingsInit
<1>6. offer \in 0 .. MaxOffers /\ shown \in {Nothing} \cup 0 .. MaxOffers
  BY <1>2 DEF ListingsInit
<1>7. /\ uneven \in BOOLEAN /\ excused \in BOOLEAN /\ recount \in BOOLEAN
  BY DEF ListingsInit
<1> QED
  BY <1>3, <1>4, <1>5, <1>6, <1>7 DEF VisitsTyped, ListingsTypeOK

\* What a request of each kind carries.
LEMMA VisitKinds ==
  ASSUME VisitsTyped, NEW v \in Visitor
  PROVE  /\ visit[v] \in Visit
         /\ visit[v].kind \in {"like", "unlike"} => visit[v] \in LikeVisit
         /\ visit[v].kind = "count" => visit[v] \in CountVisit
         /\ visit[v].kind = "spread" => visit[v] \in SpreadVisit
         /\ visit[v].kind = "propagate" => visit[v] \in PriceVisit
         /\ visit[v].kind = "tariff" => visit[v] \in TariffVisit
         /\ visit[v].kind = "import" => visit[v] \in ImportVisit
         /\ visit[v].kind = "fill" => visit[v] \in FillVisit
<1>1. visit[v] \in Visit
  BY DEF VisitsTyped
<1> QED
  BY <1>1 DEF Visit, Away, LikeVisit, CountVisit, SpreadVisit, PriceVisit,
              TariffVisit, ImportVisit, FillVisit, PlainVisit
\* Users and requests are finitely many, so what the counters count is finite.
Counting(m, n) == {v \in During({"count"}) : visit[v].model = m /\ visit[v].more = n}

LEMMA FiniteParts ==
  /\ \A S \in SUBSET Fan : IsFiniteSet(S) /\ Cardinality(S) \in Nat
  /\ \A S \in SUBSET Visitor : IsFiniteSet(S) /\ Cardinality(S) \in Nat
BY ListingsAssumption, FS_Subset, FS_CardinalityType

LEMMA LikesFinite ==
  ASSUME NEW m
  PROVE  /\ Cardinality(LikedBy(m)) \in Nat
         /\ Uncounted(m) = Cardinality(Counting(m, 1)) - Cardinality(Counting(m, -1))
         /\ Uncounted(m) \in Int /\ - Uncounted(m) \in Int
<1>1. LikedBy(m) \in SUBSET Fan
  BY DEF LikedBy
<1>2. Counting(m, 1) \in SUBSET Visitor /\ Counting(m, -1) \in SUBSET Visitor
  BY DEF Counting, During
<1>3. Uncounted(m) = Cardinality(Counting(m, 1)) - Cardinality(Counting(m, -1))
  BY DEF Uncounted, Counting
<1>4. /\ Cardinality(LikedBy(m)) \in Nat
      /\ Cardinality(Counting(m, 1)) \in Nat /\ Cardinality(Counting(m, -1)) \in Nat
  BY <1>1, <1>2, FiniteParts
<1> QED
  BY <1>3, <1>4

LEMMA LikesFiniteNext ==
  ASSUME NEW m
  PROVE  /\ Cardinality(LikedBy(m)') \in Nat
         /\ Uncounted(m)' = Cardinality(Counting(m, 1)') - Cardinality(Counting(m, -1)')
         /\ Uncounted(m)' \in Int
<1>1. LikedBy(m)' \in SUBSET Fan
  BY DEF LikedBy
<1>2. Counting(m, 1)' \in SUBSET Visitor /\ Counting(m, -1)' \in SUBSET Visitor
  BY DEF Counting, During
<1>3. Uncounted(m)' = Cardinality(Counting(m, 1)') - Cardinality(Counting(m, -1)')
  BY DEF Uncounted, Counting
<1>4. /\ Cardinality(LikedBy(m)') \in Nat
      /\ Cardinality(Counting(m, 1)') \in Nat /\ Cardinality(Counting(m, -1)') \in Nat
  BY <1>1, <1>2, FiniteParts
<1> QED
  BY <1>3, <1>4

LEMMA VisitSet ==
  ASSUME VisitsTyped, NEW v \in Visitor, NEW r \in Visit, Go(v, r) \/ Enter(v, r)
  PROVE  visit' \in [Visitor -> Visit]
BY DEF VisitsTyped, Go, Enter

LEMMA VisitLeft ==
  ASSUME VisitsTyped, NEW v \in Visitor, Exit(v)
  PROVE  visit' \in [Visitor -> Visit]
BY DEF VisitsTyped, Exit, Visit

\* Which variables a step of one part leaves typed as they were.
LEMMA LikesKept ==
  ASSUME VisitsTyped, UNCHANGED <<priceVars, listVars>>,
         liked' \subseteq Fan \X Model, likes' \in [Model -> Int],
         owed' \in [Model -> Int], recount' \in BOOLEAN, visit' \in [Visitor -> Visit]
  PROVE  VisitsTyped'
BY DEF VisitsTyped, ListingsTypeOK, priceVars, listVars

LEMMA PricesKept ==
  ASSUME VisitsTyped, UNCHANGED <<likeVars, sort, listVars>>,
         price' \in [Model -> Prices \cup {NoPrice}], stirred' \subseteq Visitor,
         uneven' \in BOOLEAN, visit' \in [Visitor -> Visit]
  PROVE  VisitsTyped'
BY DEF VisitsTyped, ListingsTypeOK, likeVars, listVars

LEMMA ListsKept ==
  ASSUME VisitsTyped, UNCHANGED <<likeVars, priceVars>>,
         offer' \in 0 .. MaxOffers, shown' \in {Nothing} \cup 0 .. MaxOffers,
         excused' \in BOOLEAN, visit' \in [Visitor -> Visit]
  PROVE  VisitsTyped'
BY DEF VisitsTyped, ListingsTypeOK, likeVars, priceVars

LEMMA TypedLikes ==
  ASSUME VisitsTyped
  PROVE  /\ \A v \in Visitor, f \in Fan, m \in Model, counts \in BOOLEAN :
              ToggleLike(v, f, m, counts) => VisitsTyped'
         /\ \A v \in Visitor : WriteLike(v) => VisitsTyped'
         /\ \A v \in Visitor : CountLike(v) => VisitsTyped'
         /\ Recount => VisitsTyped'
<1> USE DEF VisitsTyped, ListingsTypeOK
<1>1. ASSUME NEW v \in Visitor, NEW f \in Fan, NEW m \in Model, NEW counts \in BOOLEAN,
             ToggleLike(v, f, m, counts)
      PROVE  VisitsTyped'
  <2> DEFINE r == [kind |-> IF <<f, m>> \in liked THEN "unlike" ELSE "like",
                   fan |-> f, model |-> m, counts |-> counts]
  <2>1. r \in Visit
    BY DEF Visit, LikeVisit
  <2>2. visit' \in [Visitor -> Visit]
    BY <1>1, <2>1, VisitSet DEF ToggleLike
  <2> QED
    BY <1>1, <2>2, LikesKept DEF ToggleLike, likeVars
<1>2. ASSUME NEW v \in Visitor, WriteLike(v) PROVE VisitsTyped'
  <2>1. visit[v] \in LikeVisit
    BY <1>2, VisitKinds DEF WriteLike, During
  <2>2. /\ visit[v].fan \in Fan /\ visit[v].model \in Model
        /\ visit[v].counts \in BOOLEAN
    BY <2>1 DEF LikeVisit
  <2> DEFINE f == visit[v].fan
             m == visit[v].model
             more == IF Doing(v, "like") THEN 1 ELSE -1
             next == [kind |-> "count", model |-> m, more |-> more]
  <2>3. next \in Visit
    BY <2>2 DEF Visit, CountVisit
  <2>4. \/ /\ liked' = IF more = 1 THEN liked \cup {<<f, m>>} ELSE liked \ {<<f, m>>}
           /\ \/ Go(v, next) /\ UNCHANGED owed
              \/ Exit(v) /\ owed' = [owed EXCEPT ![m] = @ + more]
        \/ Exit(v) /\ UNCHANGED <<liked, owed>>
    BY <1>2, Zenon DEF WriteLike
  <2>5. visit' \in [Visitor -> Visit]
    BY <2>3, <2>4, VisitSet, VisitLeft
  <2>6. liked' \subseteq Fan \X Model
    BY <2>2, <2>4
  <2>7. owed' \in [Model -> Int]
    BY <2>2, <2>4
  <2> QED
    BY <1>2, <2>5, <2>6, <2>7, LikesKept DEF WriteLike
<1>3. ASSUME NEW v \in Visitor, CountLike(v) PROVE VisitsTyped'
  <2>1. visit[v] \in CountVisit
    BY <1>3, VisitKinds DEF CountLike, Doing
  <2>2. visit[v].model \in Model /\ visit[v].more \in Int
    BY <2>1 DEF CountVisit
  <2>3. likes' \in [Model -> Int]
    BY <1>3, <2>2 DEF CountLike
  <2>4. visit' \in [Visitor -> Visit]
    BY <1>3, VisitLeft DEF CountLike
  <2> QED
    BY <1>3, <2>3, <2>4, LikesKept DEF CountLike
<1>4. ASSUME Recount PROVE VisitsTyped'
  <2>1. \A m \in Model : Cardinality(LikedBy(m)) \in Int /\ - Uncounted(m) \in Int
    BY LikesFinite
  <2> QED
    BY <1>4, <2>1, LikesKept DEF Recount
<1> QED
  BY <1>1, <1>2, <1>3, <1>4

\* The steps of prices: one of a request, or one in a single statement.
PriceRequest(v) ==
  \/ \E m \in Model, p \in Price, soldOut \in BOOLEAN : UpdatePrice(v, m, p, soldOut)
  \/ \E p \in Price : UpdateM2Price(v, p)
  \/ \E m \in Model, p \in Prices : PrepareImport(v, m, p)
  \/ PropagateM2Price(v) \/ CollectCarpets(v) \/ SpreadPrice(v) \/ ImportRow(v)
PriceStatement ==
  \/ \E m \in Model, p \in Prices : SyncRow(m, p) \/ PriceNewCarpet(m, p)
  \/ \E m \in Model : LeaveCollection(m)

LEMMA PutTyped ==
  ASSUME VisitsTyped, NEW m \in Model, NEW p \in Prices, PutPrice(m, p)
  PROVE  price' \in [Model -> Prices \cup {NoPrice}] /\ uneven' \in BOOLEAN
BY DEF VisitsTyped, ListingsTypeOK, PutPrice

LEMMA TypedPrices ==
  ASSUME VisitsTyped
  PROVE  /\ \A v \in Visitor : PriceRequest(v) => VisitsTyped'
         /\ PriceStatement => VisitsTyped'
<1>0. Price \subseteq Prices /\ (\A vs : Written(vs) => stirred' \subseteq Visitor)
  BY DEF Prices, Written
<1>1. ASSUME NEW v \in Visitor, NEW m \in Model, NEW p \in Price, NEW soldOut \in BOOLEAN,
             UpdatePrice(v, m, p, soldOut)
      PROVE  VisitsTyped'
  <2> DEFINE r == [kind |-> "propagate", model |-> m, price |-> p]
  <2>1. r \in Visit
    BY DEF Visit, PriceVisit
  <2>2. visit' \in [Visitor -> Visit]
    BY <1>1, <2>1, VisitSet DEF UpdatePrice, VisitsTyped
  <2> QED
    BY <1>0, <1>1, <2>2, PutTyped, PricesKept DEF UpdatePrice
<1>2. ASSUME NEW v \in Visitor, NEW p \in Price, UpdateM2Price(v, p)
      PROVE  VisitsTyped'
  <2> DEFINE r == [kind |-> "tariff", price |-> p]
  <2>1. r \in Visit
    BY DEF Visit, TariffVisit
  <2>2. visit' \in [Visitor -> Visit]
    BY <1>2, <2>1, VisitSet DEF UpdateM2Price
  <2> QED
    BY <1>2, <2>2, LikesKept DEF UpdateM2Price, likeVars, VisitsTyped, ListingsTypeOK
<1>3. ASSUME NEW v \in Visitor, NEW m \in Model, NEW p \in Prices, PrepareImport(v, m, p)
      PROVE  VisitsTyped'
  <2> DEFINE r == [kind |-> "import", model |-> m, price |-> p]
  <2>1. r \in Visit
    BY DEF Visit, ImportVisit
  <2>2. visit' \in [Visitor -> Visit]
    BY <1>3, <2>1, VisitSet DEF PrepareImport
  <2> QED
    BY <1>3, <2>2, LikesKept DEF PrepareImport, likeVars, VisitsTyped, ListingsTypeOK
<1>4. ASSUME NEW v \in Visitor, PropagateM2Price(v) \/ CollectCarpets(v) PROVE VisitsTyped'
  <2>1. visit[v].price \in Price /\ UNCHANGED <<likeVars, priceVars, listVars>>
    BY <1>4, VisitKinds DEF PropagateM2Price, CollectCarpets, Doing, PriceVisit, TariffVisit
  <2>2. PICK ms \in SUBSET Model : Go(v, [kind |-> "spread", price |-> visit[v].price, models |-> ms])
    BY <1>4 DEF PropagateM2Price, CollectCarpets, Stocked
  <2> DEFINE r == [kind |-> "spread", price |-> visit[v].price, models |-> ms]
  <2>3. r \in Visit
    BY <2>1 DEF Visit, SpreadVisit
  <2>4. visit' \in [Visitor -> Visit]
    BY <2>2, <2>3, VisitSet
  <2> QED
    BY <2>1, <2>4, LikesKept DEF likeVars, VisitsTyped, ListingsTypeOK
<1>5. ASSUME NEW v \in Visitor, SpreadPrice(v) PROVE VisitsTyped'
  <2>1. visit[v].price \in Prices
    BY <1>0, <1>5, VisitKinds DEF SpreadPrice, Doing, SpreadVisit
  <2>2. visit' \in [Visitor -> Visit]
    BY <1>5, VisitLeft DEF SpreadPrice
  <2>3. price' \in [Model -> Prices \cup {NoPrice}] /\ uneven' \in BOOLEAN
    BY <1>5, <2>1 DEF SpreadPrice, VisitsTyped, ListingsTypeOK
  <2> QED
    BY <1>0, <1>5, <2>2, <2>3, PricesKept DEF SpreadPrice
<1>6. ASSUME NEW v \in Visitor, ImportRow(v) PROVE VisitsTyped'
  <2>1. visit[v].price \in Prices /\ visit[v].model \in Model
    BY <1>6, VisitKinds DEF ImportRow, Doing, ImportVisit
  <2>2. visit' \in [Visitor -> Visit]
    BY <1>6, VisitLeft DEF ImportRow
  <2> QED
    BY <1>0, <1>6, <2>1, <2>2, PutTyped, PricesKept DEF ImportRow
<1>7. ASSUME NEW m \in Model, NEW p \in Prices, SyncRow(m, p) \/ PriceNewCarpet(m, p)
      PROVE  VisitsTyped'
  <2>1. PutPrice(m, p) /\ Written({}) /\ UNCHANGED <<sort, visit, likeVars, listVars>>
    BY <1>7 DEF SyncRow, PriceNewCarpet
  <2> QED
    BY <1>0, <2>1, PutTyped, PricesKept DEF VisitsTyped
<1>8. ASSUME NEW m \in Model, LeaveCollection(m) PROVE VisitsTyped'
  <2>1. price' \in [Model -> Prices \cup {NoPrice}]
    BY <1>8 DEF LeaveCollection, VisitsTyped, ListingsTypeOK
  <2> QED
    BY <1>8, <2>1, PricesKept DEF LeaveCollection, VisitsTyped, ListingsTypeOK
<1> QED
  BY <1>1, <1>2, <1>3, <1>4, <1>5, <1>6, <1>7, <1>8 DEF PriceRequest, PriceStatement

LEMMA TypedLists ==
  ASSUME VisitsTyped
  PROVE  /\ \A v \in Visitor :
              \/ KeepList(v) \/ EditCarpets(v) \/ InvalidateFilterCache(v)
              \/ CreateCarpet(v) \/ CommitCarpet(v) \/ GetFilter(v)
              => VisitsTyped'
         /\ SellQuietly \/ ExpireList => VisitsTyped'
<1> USE DEF VisitsTyped, ListingsTypeOK
<1>1. MaxOffers \in Nat
  BY ListingsAssumption
<1>2. Change => offer' \in 0 .. MaxOffers
  BY <1>1 DEF Change
<1>3. \A k \in {"leave", "announce", "announceFirst", "commit"} : [kind |-> k] \in Visit
  BY DEF Visit, PlainVisit
<1>4. ASSUME NEW v \in Visitor,
             \/ KeepList(v) \/ EditCarpets(v) \/ InvalidateFilterCache(v)
             \/ CreateCarpet(v) \/ CommitCarpet(v) \/ GetFilter(v)
      PROVE  VisitsTyped'
  <2>1. CASE KeepList(v)
    <3>1. visit[v].value \in 0 .. MaxOffers
      BY <2>1, VisitKinds DEF KeepList, Doing, FillVisit
    <3>2. visit' \in [Visitor -> Visit]
      BY <2>1, VisitLeft DEF KeepList
    <3> QED
      BY <2>1, <3>1, <3>2, ListsKept DEF KeepList
  <2>2. CASE EditCarpets(v)
    <3>1. visit' \in [Visitor -> Visit]
      BY <1>3, <2>2, VisitSet DEF EditCarpets
    <3> QED
      BY <1>2, <2>2, <3>1, ListsKept DEF EditCarpets
  <2>3. CASE InvalidateFilterCache(v)
    <3>1. visit' \in [Visitor -> Visit]
      BY <1>3, <2>3, VisitSet, VisitLeft DEF InvalidateFilterCache
    <3> QED
      BY <2>3, <3>1, ListsKept DEF InvalidateFilterCache
  <2>4. CASE CreateCarpet(v)
    <3>1. visit' \in [Visitor -> Visit]
      BY <1>3, <2>4, VisitSet DEF CreateCarpet
    <3> QED
      BY <2>4, <3>1, ListsKept DEF CreateCarpet, listVars
  <2>5. CASE CommitCarpet(v)
    <3>1. visit' \in [Visitor -> Visit]
      BY <2>5, VisitLeft DEF CommitCarpet
    <3>2. excused' \in BOOLEAN
      BY <2>5 DEF CommitCarpet
    <3> QED
      BY <1>2, <2>5, <3>1, <3>2, ListsKept DEF CommitCarpet
  <2>6. CASE GetFilter(v)
    <3> DEFINE r == [kind |-> "fill", value |-> offer]
    <3>1. r \in Visit
      BY DEF Visit, FillVisit
    <3>2. visit' \in [Visitor -> Visit]
      BY <2>6, <3>1, VisitSet DEF GetFilter
    <3> QED
      BY <2>6, <3>2, ListsKept DEF GetFilter, listVars
  <2> QED
    BY <1>4, <2>1, <2>2, <2>3, <2>4, <2>5, <2>6
<1>5. ASSUME SellQuietly PROVE VisitsTyped'
  <2>1. excused' \in BOOLEAN
    BY <1>5 DEF SellQuietly
  <2> QED
    BY <1>2, <1>5, <2>1, ListsKept DEF SellQuietly
<1>6. ASSUME ExpireList PROVE VisitsTyped'
  BY <1>6, ListsKept DEF ExpireList
<1> QED
  BY <1>4, <1>5, <1>6

LEMMA NextVisits == VisitsTyped /\ [ListingsNext]_<<listingVars, part>> => VisitsTyped'
<1> SUFFICES ASSUME VisitsTyped, [ListingsNext]_<<listingVars, part>>
             PROVE  VisitsTyped'
  OBVIOUS
<1>1. CASE UNCHANGED <<listingVars, part>>
  BY <1>1 DEF VisitsTyped, ListingsTypeOK, listingVars, likeVars, priceVars, listVars
<1>2. CASE RestartListings
  <2>1. owed' \in [Model -> Int]
    BY <1>2, LikesFinite DEF RestartListings, VisitsTyped, ListingsTypeOK
  <2>2. visit' \in [Visitor -> Visit]
    BY <1>2 DEF RestartListings, Visit
  <2>3. /\ recount' \in BOOLEAN /\ uneven' \in BOOLEAN /\ excused' \in BOOLEAN
        /\ stirred' \subseteq Visitor
    BY <1>2 DEF RestartListings, VisitsTyped
  <2> QED
    BY <1>2, <2>1, <2>2, <2>3 DEF RestartListings, VisitsTyped, ListingsTypeOK
<1>3. CASE Taps \/ \E v \in Visitor : VisitStep(v)
  BY <1>3, TypedLikes, TypedPrices, TypedLists DEF Taps, VisitStep, PriceRequest
<1>4. CASE Recount \/ SellQuietly \/ ExpireList
  BY <1>4, TypedLikes, TypedLists
<1>5. CASE PriceStatement \/ \E v \in Visitor : PriceRequest(v)
  BY <1>5, TypedPrices
<1> QED
  BY <1>1, <1>2, <1>3, <1>4, <1>5 DEF ListingsNext, PriceStatement, PriceRequest

\* The kind of a request that enters, goes on or leaves; nobody else moves.
LEMMA OneMoves ==
  ASSUME VisitsTyped, NEW v \in Visitor, NEW r,
         Go(v, r) \/ Enter(v, r) \/ (r = Away /\ Exit(v))
  PROVE  /\ visit'[v] = r
         /\ \A x \in Visitor \ {v} : visit'[x] = visit[x]
BY DEF VisitsTyped, Go, Enter, Exit

\* A request about prices leaves the likes and the lists alone, and neither counts
\* a like nor announces a change, before or after.
LEMMA PriceMoves ==
  ASSUME VisitsTyped, NEW v \in Visitor, PriceRequest(v)
  PROVE  /\ UNCHANGED <<likeVars, listVars>>
         /\ visit[v].kind \notin {"count", "announce"}
         /\ visit'[v].kind \notin {"count", "announce"}
         /\ \A x \in Visitor \ {v} : visit'[x] = visit[x]
<1>1. Away.kind = "none"
  BY DEF Away
<1>2. ASSUME NEW m \in Model, NEW p \in Price, NEW soldOut \in BOOLEAN,
             UpdatePrice(v, m, p, soldOut)
      PROVE  /\ UNCHANGED <<likeVars, listVars>> /\ visit[v].kind = "none"
             /\ visit'[v].kind \in {"propagate", "none"}
             /\ \A x \in Visitor \ {v} : visit'[x] = visit[x]
  <2> DEFINE r == [kind |-> "propagate", model |-> m, price |-> p]
  <2>1. /\ Enter(v, r) \/ (UNCHANGED visit /\ visit[v] = Away)
        /\ visit[v] = Away
        /\ UNCHANGED <<likeVars, listVars>>
    BY <1>2 DEF UpdatePrice
  <2>2. visit'[v] \in {r, Away} /\ \A x \in Visitor \ {v} : visit'[x] = visit[x]
    BY <2>1, OneMoves
  <2> QED
    BY <1>1, <2>1, <2>2 DEF Enter
<1>3. ASSUME NEW p, UpdateM2Price(v, p) \/ \E m \in Model : PrepareImport(v, m, p)
      PROVE  /\ UNCHANGED <<likeVars, listVars>> /\ visit[v].kind = "none"
             /\ visit'[v].kind \in {"tariff", "import"}
             /\ \A x \in Visitor \ {v} : visit'[x] = visit[x]
  <2>1. PICK r : Enter(v, r) /\ r.kind \in {"tariff", "import"}
    <3>1. CASE UpdateM2Price(v, p)
      <4> DEFINE r == [kind |-> "tariff", price |-> p]
      <4>1. Enter(v, r) /\ r.kind = "tariff"
        BY <3>1 DEF UpdateM2Price
      <4> HIDE DEF r
      <4> QED
        BY <4>1
    <3>2. CASE \E m \in Model : PrepareImport(v, m, p)
      <4>1. PICK m \in Model : PrepareImport(v, m, p)
        BY <3>2
      <4> DEFINE r == [kind |-> "import", model |-> m, price |-> p]
      <4>2. Enter(v, r) /\ r.kind = "import"
        BY <4>1 DEF PrepareImport
      <4> HIDE DEF r
      <4> QED
        BY <4>2
    <3> QED
      BY <1>3, <3>1, <3>2
  <2>2. UNCHANGED <<likeVars, listVars>> /\ visit[v] = Away
    BY <1>3 DEF UpdateM2Price, PrepareImport, Enter
  <2> QED
    BY <1>1, <2>1, <2>2, OneMoves
<1>4. ASSUME PropagateM2Price(v) \/ CollectCarpets(v) \/ SpreadPrice(v) \/ ImportRow(v)
      PROVE  /\ UNCHANGED <<likeVars, listVars>>
             /\ visit[v].kind \in {"propagate", "tariff", "spread", "import"}
             /\ visit'[v].kind \in {"spread", "none"}
             /\ \A x \in Visitor \ {v} : visit'[x] = visit[x]
  <2>1. PICK r : (Go(v, r) \/ (r = Away /\ Exit(v))) /\ r.kind \in {"spread", "none"}
    BY <1>1, <1>4 DEF PropagateM2Price, CollectCarpets, SpreadPrice, ImportRow
  <2>2. /\ UNCHANGED <<likeVars, listVars>>
        /\ visit[v].kind \in {"propagate", "tariff", "spread", "import"}
    BY <1>4 DEF PropagateM2Price, CollectCarpets, SpreadPrice, ImportRow, Doing
  <2> QED
    BY <2>1, <2>2, OneMoves
<1> QED
  BY <1>2, <1>3, <1>4 DEF PriceRequest

LEMMA StatementMoves == PriceStatement => UNCHANGED <<likeVars, listVars, visit>>
BY DEF PriceStatement, SyncRow, PriceNewCarpet, LeaveCollection

(***************************************************************************)
(* One price for a collection                                              *)
(***************************************************************************)
PriceKinds == {"propagate", "spread"}
Pricing(v) == visit[v].kind \in PriceKinds

\* A change of prices that was not disturbed brings its price to the carpets it
\* will write; the others have it already.
Brings(v) ==
  LET p == visit[v].price IN
  /\ Doing(v, "propagate") /\ visit[v].model \in Stocked => price[visit[v].model] = p
  /\ Doing(v, "spread") => \A n \in Stocked \ visit[v].models : price[n] = p

PricesEven ==
  /\ \A v \in Visitor \ stirred : Brings(v)
  /\ OnePricePerCollection

PriceInv == VisitsTyped /\ PricesEven

LEMMA IdleBrings == \A x \in Visitor : ~Pricing(x) => Brings(x)
BY DEF Pricing, PriceKinds, Brings, Doing

\* A step that changes no price and no request that is changing one.
LEMMA PricesAlone ==
  ASSUME PriceInv, VisitsTyped', UNCHANGED <<price, uneven, stirred>>,
         \A x \in Visitor : visit'[x] = visit[x] \/ ~Pricing(x)'
  PROVE  PriceInv'
<1>1. \A x \in Visitor : Brings(x) => Brings(x)'
  BY DEF Brings, Doing, Pricing, PriceKinds, Stocked
<1> QED
  BY <1>1 DEF PriceInv, PricesEven, OnePricePerCollection, Stocked

\* A step that writes a price disturbs every other request.
LEMMA PriceWritten ==
  ASSUME PriceInv, VisitsTyped', NEW vs, Written(vs), OnePricePerCollection',
         \A x \in Visitor \ vs : visit'[x] = visit[x],
         \A x \in Visitor \cap vs : Brings(x)'
  PROVE  PriceInv'
<1>1. \A x \in Visitor \ stirred' : x \in vs \/ visit[x] = Away
  BY DEF Written
<1>2. \A x \in Visitor : visit'[x] = Away => Brings(x)'
  BY DEF Away, Brings, Doing
<1> QED
  BY <1>1, <1>2 DEF PriceInv, PricesEven

LEMMA PriceStep ==
  ASSUME PriceInv, VisitsTyped', NEW v \in Visitor, PriceRequest(v)
  PROVE  PriceInv'
<1>0. /\ VisitsTyped /\ PricesEven /\ price \in [Model -> Prices \cup {NoPrice}]
      /\ visit[v].kind = "spread" => visit[v].price # NoPrice
  BY ListingsAssumption, VisitKinds DEF PriceInv, VisitsTyped, ListingsTypeOK, SpreadVisit
<1>1. ASSUME NEW m \in Model, NEW p \in Price, NEW soldOut \in BOOLEAN,
             UpdatePrice(v, m, p, soldOut)
      PROVE  PriceInv'
  <2> DEFINE r == [kind |-> "propagate", model |-> m, price |-> p]
  <2>1. /\ Enter(v, r) \/ (UNCHANGED visit /\ visit[v] = Away)
        /\ Written({v}) /\ price' = [price EXCEPT ![m] = p] /\ uneven'
    BY <1>1 DEF UpdatePrice, PutPrice
  <2>2. /\ visit'[v] \in {r, Away} /\ \A x \in Visitor \ {v} : visit'[x] = visit[x]
    BY <1>0, <2>1, OneMoves
  <2>3. price'[m] = p
    BY <1>0, <2>1
  <2>4. Brings(v)'
    BY <2>2, <2>3 DEF Brings, Doing, Away
  <2> QED
    BY <2>1, <2>2, <2>4, PriceWritten DEF OnePricePerCollection
<1>2. ASSUME NEW r, Enter(v, r), r.kind \notin PriceKinds, UNCHANGED priceVars
      PROVE  PriceInv'
  <2>1. visit'[v] = r /\ \A x \in Visitor \ {v} : visit'[x] = visit[x]
    BY <1>0, <1>2, OneMoves
  <2> QED
    BY <1>2, <2>1, PricesAlone DEF Pricing, priceVars
<1>3. ASSUME NEW p \in Price, UpdateM2Price(v, p) PROVE PriceInv'
  <2> DEFINE r == [kind |-> "tariff", price |-> p]
  <2>1. Enter(v, r) /\ UNCHANGED priceVars /\ r.kind = "tariff"
    BY <1>3 DEF UpdateM2Price
  <2> QED
    BY <1>2, <2>1 DEF PriceKinds
<1>4. ASSUME NEW m \in Model, NEW p \in Prices, PrepareImport(v, m, p) PROVE PriceInv'
  <2> DEFINE r == [kind |-> "import", model |-> m, price |-> p]
  <2>1. Enter(v, r) /\ UNCHANGED priceVars /\ r.kind = "import"
    BY <1>4 DEF PrepareImport
  <2> QED
    BY <1>2, <2>1 DEF PriceKinds
<1>5. ASSUME PropagateM2Price(v) \/ CollectCarpets(v) PROVE PriceInv'
  <2>1. PICK ms : /\ Go(v, [kind |-> "spread", price |-> visit[v].price, models |-> ms])
                  /\ UNCHANGED <<price, uneven, stirred>>
                  /\ Brings(v) => \A n \in Stocked \ ms : price[n] = visit[v].price
    <3>1. CASE PropagateM2Price(v)
      <4> DEFINE ms == {m \in Stocked \ {visit[v].model} :
                          price[m] # visit[v].price \/ sort[m] = "roll"}
      <4>1. /\ Go(v, [kind |-> "spread", price |-> visit[v].price, models |-> ms])
            /\ Doing(v, "propagate") /\ UNCHANGED <<price, uneven, stirred>>
        BY <3>1 DEF PropagateM2Price, priceVars
      <4>2. Brings(v) => \A n \in Stocked \ ms : price[n] = visit[v].price
        BY <4>1 DEF Brings
      <4> HIDE DEF ms
      <4> QED
        BY <4>1, <4>2
    <3>2. CASE CollectCarpets(v)
      BY <3>2 DEF CollectCarpets, priceVars
    <3> QED
      BY <1>5, <3>1, <3>2
  <2> DEFINE r == [kind |-> "spread", price |-> visit[v].price, models |-> ms]
  <2>2. visit'[v] = r /\ \A x \in Visitor \ {v} : visit'[x] = visit[x]
    BY <1>0, <2>1, OneMoves
  <2>3. Brings(v) => Brings(v)'
    BY <2>1, <2>2 DEF Brings, Doing, Stocked
  <2>4. \A x \in Visitor \ {v} : Brings(x) => Brings(x)'
    BY <2>1, <2>2 DEF Brings, Doing, Stocked
  <2> QED
    BY <1>0, <2>1, <2>3, <2>4 DEF PriceInv, PricesEven, OnePricePerCollection, Stocked
<1>6. ASSUME SpreadPrice(v) PROVE PriceInv'
  <2> DEFINE p == visit[v].price
             ms == visit[v].models
  <2>1. /\ Doing(v, "spread") /\ Exit(v) /\ Written({v})
        /\ price' = [m \in Model |-> IF m \in ms \cap Stocked THEN p ELSE price[m]]
        /\ uneven' = ~(v \notin stirred \/ Stocked \subseteq ms)
    BY <1>6 DEF SpreadPrice
  <2>2. visit'[v] = Away /\ \A x \in Visitor \ {v} : visit'[x] = visit[x]
    BY <1>0, <2>1, OneMoves
  <2>3. Stocked' = Stocked
    BY <1>0, <2>1 DEF Stocked, Doing
  <2>4. ~uneven' => \A n \in Stocked \ ms : price[n] = p
    BY <1>0, <2>1 DEF PricesEven, Brings
  <2>5. ~uneven' => \A n \in Stocked' : price'[n] = p
    BY <2>1, <2>3, <2>4 DEF Stocked
  <2>6. Brings(v)'
    BY <2>2 DEF Brings, Doing, Away
  <2> QED
    BY <2>1, <2>2, <2>5, <2>6, PriceWritten DEF OnePricePerCollection
<1>7. ASSUME ImportRow(v) PROVE PriceInv'
  <2>1. Written({v}) /\ Exit(v) /\ uneven'
    BY <1>7 DEF ImportRow, PutPrice
  <2>2. visit'[v] = Away /\ \A x \in Visitor \ {v} : visit'[x] = visit[x]
    BY <1>0, <2>1, OneMoves
  <2>3. Brings(v)'
    BY <2>2 DEF Brings, Doing, Away
  <2> QED
    BY <2>1, <2>2, <2>3, PriceWritten DEF OnePricePerCollection
<1> QED
  BY <1>1, <1>3, <1>4, <1>5, <1>6, <1>7 DEF PriceRequest

LEMMA StatementStep ==
  ASSUME PriceInv, VisitsTyped', PriceStatement
  PROVE  PriceInv'
<1>1. CASE \E m \in Model, p \in Prices : SyncRow(m, p) \/ PriceNewCarpet(m, p)
  <2>1. Written({}) /\ UNCHANGED visit /\ uneven'
    BY <1>1 DEF SyncRow, PriceNewCarpet, PutPrice
  <2> QED
    BY <2>1, PriceWritten DEF OnePricePerCollection
<1>2. CASE \E m \in Model : LeaveCollection(m)
  <2>1. PICK m \in Model : LeaveCollection(m)
    BY <1>2
  <2>2. price' = [price EXCEPT ![m] = NoPrice] /\ UNCHANGED <<uneven, stirred, visit>>
    BY <2>1 DEF LeaveCollection
  <2>3. Stocked' \subseteq Stocked /\ \A n \in Stocked' : price'[n] = price[n]
    BY <2>2 DEF Stocked, PriceInv, VisitsTyped, ListingsTypeOK
  <2>4. \A x \in Visitor : Brings(x) => Brings(x)'
    BY <2>2, <2>3 DEF Brings, Doing
  <2> QED
    BY <2>2, <2>3, <2>4 DEF PriceInv, PricesEven, OnePricePerCollection
<1> QED
  BY <1>1, <1>2 DEF PriceStatement

\* The requests that have nothing to do with prices.
LEMMA OtherRequests ==
  ASSUME NEW v \in Visitor,
         \/ \E f \in Fan, m \in Model, counts \in BOOLEAN : ToggleLike(v, f, m, counts)
         \/ WriteLike(v) \/ CountLike(v) \/ KeepList(v) \/ EditCarpets(v)
         \/ InvalidateFilterCache(v) \/ CreateCarpet(v) \/ CommitCarpet(v)
         \/ GetFilter(v)
  PROVE  /\ visit[v].kind \notin PriceKinds
         /\ \E r : /\ Go(v, r) \/ Enter(v, r) \/ (r = Away /\ Exit(v))
                  /\ r.kind \notin PriceKinds
<1> USE DEF PriceKinds
<1>1. Away.kind \notin PriceKinds
  BY DEF Away
<1>2. CASE \E f \in Fan, m \in Model, counts \in BOOLEAN : ToggleLike(v, f, m, counts)
  <2>1. PICK f \in Fan, m \in Model, counts \in BOOLEAN : ToggleLike(v, f, m, counts)
    BY <1>2
  <2> DEFINE r == [kind |-> IF <<f, m>> \in liked THEN "unlike" ELSE "like",
                   fan |-> f, model |-> m, counts |-> counts]
  <2>2. Enter(v, r) /\ r.kind \in {"like", "unlike"}
    BY <2>1 DEF ToggleLike
  <2> QED
    BY <1>1, <2>2 DEF Enter
<1>3. CASE WriteLike(v)
  <2> DEFINE more == IF Doing(v, "like") THEN 1 ELSE -1
             r == [kind |-> "count", model |-> visit[v].model, more |-> more]
  <2>1. visit[v].kind \in {"like", "unlike"} /\ (Go(v, r) \/ Exit(v))
    BY <1>3 DEF WriteLike, During
  <2>2. r.kind = "count"
    OBVIOUS
  <2> QED
    BY <1>1, <2>1, <2>2
<1>4. CASE CountLike(v) \/ KeepList(v)
  BY <1>1, <1>4 DEF CountLike, KeepList, Doing
<1>5. CASE CommitCarpet(v)
  BY <1>1, <1>5 DEF CommitCarpet, Doing
<1>6. CASE EditCarpets(v) \/ CreateCarpet(v)
  <2>1. \E k \in {"announce", "announceFirst"} : Enter(v, [kind |-> k])
    BY <1>6 DEF EditCarpets, CreateCarpet
  <2> QED
    BY <1>1, <2>1 DEF Enter
<1>7. CASE InvalidateFilterCache(v)
  <2>1. /\ visit[v].kind \in {"announce", "announceFirst"}
        /\ Exit(v) \/ Go(v, [kind |-> "commit"])
    BY <1>7 DEF InvalidateFilterCache, During
  <2> QED
    BY <1>1, <2>1
<1>8. CASE GetFilter(v)
  <2> DEFINE r == [kind |-> "fill", value |-> offer]
  <2>1. Enter(v, r) /\ r.kind = "fill"
    BY <1>8 DEF GetFilter
  <2> QED
    BY <1>1, <2>1 DEF Enter
<1> QED
  BY <1>2, <1>3, <1>4, <1>5, <1>6, <1>7, <1>8

LEMMA NextPrices == PriceInv /\ [ListingsNext]_<<listingVars, part>> => PriceInv'
<1> SUFFICES ASSUME PriceInv, [ListingsNext]_<<listingVars, part>>
             PROVE  PriceInv'
  OBVIOUS
<1>0. VisitsTyped /\ VisitsTyped'
  BY NextVisits DEF PriceInv
<1>1. CASE \E v \in Visitor : PriceRequest(v)
  BY <1>0, <1>1, PriceStep
<1>2. CASE PriceStatement
  BY <1>0, <1>2, StatementStep
<1>3. CASE RestartListings
  <2>1. \A x \in Visitor : Brings(x)'
    BY <1>3 DEF RestartListings, Brings, Doing, Away
  <2>2. UNCHANGED <<price, uneven>>
    BY <1>3 DEF RestartListings
  <2> QED
    BY <1>0, <2>1, <2>2 DEF PriceInv, PricesEven, OnePricePerCollection, Stocked
<1>4. ASSUME NEW v \in Visitor,
             \/ \E f \in Fan, m \in Model, counts \in BOOLEAN : ToggleLike(v, f, m, counts)
             \/ WriteLike(v) \/ CountLike(v) \/ KeepList(v) \/ EditCarpets(v)
             \/ InvalidateFilterCache(v) \/ CreateCarpet(v) \/ CommitCarpet(v)
             \/ GetFilter(v)
      PROVE  PriceInv'
  <2>1. UNCHANGED <<price, uneven, stirred>>
    BY <1>4 DEF ToggleLike, WriteLike, CountLike, KeepList, EditCarpets,
                InvalidateFilterCache, CreateCarpet, CommitCarpet, GetFilter, priceVars
  <2>2. ~Pricing(v) /\ \E r : /\ Go(v, r) \/ Enter(v, r) \/ (r = Away /\ Exit(v))
                            /\ r.kind \notin PriceKinds
    BY <1>0, <1>4, OtherRequests DEF Pricing
  <2>4. ~Pricing(v)' /\ \A x \in Visitor \ {v} : visit'[x] = visit[x]
    BY <1>0, <2>2, OneMoves DEF Pricing
  <2> QED
    BY <1>0, <2>1, <2>2, <2>4, PricesAlone
<1>5. CASE \/ Recount \/ SellQuietly \/ ExpireList \/ UNCHANGED <<listingVars, part>>
  <2>1. UNCHANGED <<price, uneven, stirred, visit>>
    BY <1>5 DEF Recount, SellQuietly, ExpireList, listingVars, priceVars
  <2> QED
    BY <1>0, <2>1, PricesAlone
<1> QED
  BY <1>1, <1>2, <1>3, <1>4, <1>5 DEF ListingsNext, Taps, VisitStep, PriceRequest,
     PriceStatement

LEMMA InitPrices == ListingsInit => PriceInv
<1> SUFFICES ASSUME ListingsInit PROVE PriceInv
  OBVIOUS
<1>1. uneven /\ \A v \in Visitor : Brings(v)
  BY DEF ListingsInit, Away, Brings, Doing
<1> QED
  BY <1>1, InitVisits DEF PriceInv, PricesEven, OnePricePerCollection

\* A change of the collection's price reaches every carpet on sale, the rolls and
\* the returned ones too, although it reads them before it writes and leaves out
\* those that seem to have the price (propagateCollectionM2Price,
\* updateM2PriceByNames): unless somebody wrote a price between its start and its
\* end, and until one is written that is not spread.
THEOREM CollectionHasOnePrice == ListingsSpec => []OnePricePerCollection
<1>1. PriceInv => OnePricePerCollection
  BY DEF PriceInv, PricesEven
<1> QED
  BY <1>1, InitPrices, NextPrices, PTL DEF ListingsSpec

(***************************************************************************)
(* The cached lists                                                        *)
(***************************************************************************)
Announcing(v) == Doing(v, "announce")

FreshInv == VisitsTyped /\ ListIsFresh

\* A request announces a change until the cache is emptied.
LEMMA ListsAlone ==
  ASSUME FreshInv, VisitsTyped', UNCHANGED <<offer, shown, excused>>,
         \A x \in Visitor : Announcing(x) => Announcing(x)'
  PROVE  FreshInv'
BY DEF FreshInv, ListIsFresh, During, Announcing, Doing

LEMMA NextFresh == FreshInv /\ [ListingsNext]_<<listingVars, part>> => FreshInv'
<1> SUFFICES ASSUME FreshInv, [ListingsNext]_<<listingVars, part>>
             PROVE  FreshInv'
  OBVIOUS
<1>0. VisitsTyped /\ VisitsTyped'
  BY NextVisits DEF FreshInv
<1>1. CASE \/ ExpireList \/ RestartListings
           \/ \E v \in Visitor : InvalidateFilterCache(v)
  BY <1>0, <1>1 DEF ExpireList, RestartListings, InvalidateFilterCache, FreshInv,
                    ListIsFresh
<1>2. CASE SellQuietly
  BY <1>0, <1>2 DEF SellQuietly, FreshInv, ListIsFresh
<1>3. ASSUME NEW v \in Visitor, KeepList(v) \/ CommitCarpet(v)
      PROVE  FreshInv'
  <2>1. shown' \notin {Nothing, offer'} => excused'
    BY <1>3 DEF KeepList, CommitCarpet
  <2> QED
    BY <1>0, <2>1 DEF FreshInv, ListIsFresh
<1>4. ASSUME NEW v \in Visitor, EditCarpets(v) PROVE FreshInv'
  <2>1. Enter(v, [kind |-> "announce"])
    BY <1>4 DEF EditCarpets
  <2>2. Announcing(v)'
    BY <1>0, <2>1, OneMoves DEF Announcing, Doing
  <2> QED
    BY <1>0, <2>2 DEF FreshInv, ListIsFresh, During, Announcing, Doing
<1>5. ASSUME NEW v \in Visitor,
             \/ \E f \in Fan, m \in Model, counts \in BOOLEAN : ToggleLike(v, f, m, counts)
             \/ WriteLike(v) \/ CountLike(v) \/ CreateCarpet(v) \/ GetFilter(v)
      PROVE  FreshInv'
  <2>1. UNCHANGED <<offer, shown, excused>>
    BY <1>5 DEF ToggleLike, WriteLike, CountLike, CreateCarpet, GetFilter, listVars
  <2>2. ~Announcing(v)
    <3>1. CASE \/ \E f \in Fan, m \in Model, counts \in BOOLEAN : ToggleLike(v, f, m, counts)
               \/ CreateCarpet(v) \/ GetFilter(v)
      <4>1. visit[v] = Away
        BY <3>1 DEF ToggleLike, CreateCarpet, GetFilter, Enter
      <4> QED
        BY <4>1 DEF Away, Announcing, Doing
    <3>2. CASE WriteLike(v) \/ CountLike(v)
      BY <3>2 DEF WriteLike, CountLike, During, Doing, Announcing
    <3> QED
      BY <1>5, <3>1, <3>2
  <2>3. (\E r : Go(v, r) \/ Enter(v, r)) \/ Exit(v)
    BY <1>5, Zenon DEF ToggleLike, WriteLike, CountLike, CreateCarpet, GetFilter
  <2>4. \A x \in Visitor \ {v} : visit'[x] = visit[x]
    BY <1>0, <2>3, OneMoves
  <2>5. \A x \in Visitor : Announcing(x) => Announcing(x)'
    BY <2>2, <2>4 DEF Announcing, Doing
  <2> QED
    BY <1>0, <2>1, <2>5, ListsAlone
<1>6. CASE Recount \/ UNCHANGED <<listingVars, part>> \/ PriceStatement
  <2>1. UNCHANGED <<offer, shown, excused, visit>>
    BY <1>6, StatementMoves DEF Recount, listingVars, listVars
  <2> QED
    BY <1>0, <2>1, ListsAlone DEF Announcing, Doing
<1>7. ASSUME NEW v \in Visitor, PriceRequest(v) PROVE FreshInv'
  <2>1. \A x \in Visitor : Announcing(x) => Announcing(x)'
    BY <1>0, <1>7, PriceMoves DEF Announcing, Doing
  <2>2. UNCHANGED <<offer, shown, excused>>
    BY <1>0, <1>7, PriceMoves DEF listVars
  <2> QED
    BY <1>0, <2>1, <2>2, ListsAlone
<1> QED
  BY <1>1, <1>2, <1>3, <1>4, <1>5, <1>6, <1>7
     DEF ListingsNext, Taps, VisitStep, PriceRequest, PriceStatement

\* A cached list is older than the shop only between a change and its
\* announcement, or because it was read before the change, or because the change
\* is one nobody announces.
THEOREM ListsAreFresh == ListingsSpec => []ListIsFresh
<1>1. ListingsInit => FreshInv
  BY InitVisits DEF ListingsInit, FreshInv, ListIsFresh
<1>2. FreshInv => ListIsFresh
  BY DEF FreshInv
<1> QED
  BY <1>1, <1>2, NextFresh, PTL DEF ListingsSpec

(***************************************************************************)
(* The counter of likes                                                    *)
(***************************************************************************)
CountInv == VisitsTyped /\ LikesCounted

\* What is still to be counted for a carpet, as a request comes or goes.
LEMMA CountingMoves ==
  ASSUME VisitsTyped, VisitsTyped', NEW v \in Visitor,
         \A x \in Visitor \ {v} : visit'[x] = visit[x],
         NEW m \in Model, NEW n \in {1, -1}
  PROVE  /\ v \notin Counting(m, n) /\ v \in Counting(m, n)' =>
              Cardinality(Counting(m, n)') = Cardinality(Counting(m, n)) + 1
         /\ v \in Counting(m, n) /\ v \notin Counting(m, n)' =>
              Cardinality(Counting(m, n)') = Cardinality(Counting(m, n)) - 1
         /\ (v \in Counting(m, n) <=> v \in Counting(m, n)') =>
              Counting(m, n)' = Counting(m, n)
<1> DEFINE S == Counting(m, n)
           T == Counting(m, n)'
<1>1. S \in SUBSET Visitor /\ T \in SUBSET Visitor
  BY DEF Counting, During
<1>2. \A x \in Visitor \ {v} : x \in S <=> x \in T
  BY DEF Counting, During
<1>3. IsFiniteSet(S) /\ IsFiniteSet(T)
  BY <1>1, FiniteParts
<1> HIDE DEF S, T
<1>4. v \notin S /\ v \in T => T = S \cup {v}
  BY <1>1, <1>2
<1>5. v \in S /\ v \notin T => T = S \ {v}
  BY <1>1, <1>2
<1>6. (v \in S <=> v \in T) => T = S
  BY <1>1, <1>2
<1>7. v \notin S /\ v \in T => Cardinality(T) = Cardinality(S) + 1
  BY <1>3, <1>4, FS_AddElement
<1>8. v \in S /\ v \notin T => Cardinality(T) = Cardinality(S) - 1
  BY <1>3, <1>5, FS_RemoveElement
<1> QED
  BY <1>6, <1>7, <1>8 DEF S, T

\* A step that changes no like, and no request about to count one.
LEMMA LikesAlone ==
  ASSUME CountInv, VisitsTyped', UNCHANGED <<liked, likes, owed>>,
         \A x \in Visitor :
           visit'[x] = visit[x] \/ (~Doing(x, "count") /\ ~Doing(x, "count")')
  PROVE  CountInv'
<1>1. \A m \in Model : LikedBy(m)' = LikedBy(m) /\ Uncounted(m)' = Uncounted(m)
  <2> TAKE m \in Model
  <2>1. Counting(m, 1)' = Counting(m, 1) /\ Counting(m, -1)' = Counting(m, -1)
    BY DEF Counting, During, Doing
  <2>2. LikedBy(m)' = LikedBy(m)
    BY DEF LikedBy
  <2> QED
    BY <2>1, <2>2, LikesFinite, LikesFiniteNext
<1> QED
  BY <1>1 DEF CountInv, LikesCounted
\* A tap is written: what the rows gain the request still has to count, unless
\* it does not count.
LEMMA WriteLikeStep ==
  ASSUME CountInv, VisitsTyped', NEW v \in Visitor, WriteLike(v)
  PROVE  CountInv'
<1> DEFINE f == visit[v].fan
           m == visit[v].model
           more == IF Doing(v, "like") THEN 1 ELSE -1
           next == [kind |-> "count", model |-> m, more |-> more]
<1>1. VisitsTyped
  BY DEF CountInv
<1>2. /\ visit[v] \in LikeVisit
      /\ visit[v].kind \in {"like", "unlike"}
  BY <1>1, VisitKinds DEF WriteLike, During
<1>3. f \in Fan /\ m \in Model /\ visit[v].counts \in BOOLEAN
  BY <1>2 DEF LikeVisit
<1>4. ~Doing(v, "count")
  BY <1>2 DEF Doing
<1>5. likes' = likes
  BY DEF WriteLike
<1>6. CASE (Doing(v, "like") <=> <<f, m>> \notin liked)
  <2>1. /\ liked' = IF more = 1 THEN liked \cup {<<f, m>>} ELSE liked \ {<<f, m>>}
        /\ \/ Go(v, next) /\ owed' = owed
           \/ Exit(v) /\ owed' = [owed EXCEPT ![m] = @ + more]
    BY <1>6, Zenon DEF WriteLike
  <2>2. /\ visit'[v] \in {next, Away}
        /\ visit'[v] = next => owed' = owed
        /\ visit'[v] = Away => owed' = [owed EXCEPT ![m] = @ + more]
        /\ \A x \in Visitor \ {v} : visit'[x] = visit[x]
    <3>1. next # Away
      BY DEF Away
    <3>2. CASE Go(v, next) /\ owed' = owed
      BY <1>1, <3>1, <3>2, OneMoves
    <3>3. CASE Exit(v) /\ owed' = [owed EXCEPT ![m] = @ + more]
      BY <1>1, <3>1, <3>3, OneMoves
    <3> QED
      BY <2>1, <3>2, <3>3
  <2>3. ASSUME NEW k \in Model
        PROVE  likes'[k] = Cardinality(LikedBy(k)') - owed'[k] - Uncounted(k)'
    <3>1. likes[k] = Cardinality(LikedBy(k)) - owed[k] - Uncounted(k)
      BY DEF CountInv, LikesCounted
    <3>2. /\ owed[k] \in Int /\ likes[k] \in Int
          /\ Cardinality(Counting(k, 1)) \in Nat /\ Cardinality(Counting(k, -1)) \in Nat
          /\ Cardinality(Counting(k, 1)') \in Nat /\ Cardinality(Counting(k, -1)') \in Nat
      BY <1>1, FiniteParts DEF VisitsTyped, ListingsTypeOK, Counting, During
    <3>3. v \notin Counting(k, 1) /\ v \notin Counting(k, -1)
      BY <1>4 DEF Counting, During, Doing
    <3>4. CASE k # m
      <4>1. LikedBy(k)' = LikedBy(k)
        BY <1>3, <2>1, <3>4 DEF LikedBy
      <4>2. owed'[k] = owed[k]
        BY <1>1, <2>2, <3>4 DEF VisitsTyped, ListingsTypeOK
      <4>3. v \notin Counting(k, 1)' /\ v \notin Counting(k, -1)'
        BY <2>2, <3>4 DEF Counting, During, Away
      <4>4. Counting(k, 1)' = Counting(k, 1) /\ Counting(k, -1)' = Counting(k, -1)
        BY <1>1, <2>2, <3>3, <4>3, CountingMoves
      <4> QED
        BY <1>5, <3>1, <4>1, <4>2, <4>4, LikesFinite, LikesFiniteNext
    <3>5. CASE k = m
      <4>1. Cardinality(LikedBy(k)') = Cardinality(LikedBy(k)) + more
        <5>1. IsFiniteSet(LikedBy(k))
          BY FiniteParts DEF LikedBy
        <5>2. CASE Doing(v, "like")
          <6>1. f \notin LikedBy(k) /\ LikedBy(k)' = LikedBy(k) \cup {f}
            BY <1>3, <1>6, <2>1, <3>5, <5>2 DEF LikedBy
          <6> QED
            BY <5>1, <5>2, <6>1, FS_AddElement
        <5>3. CASE ~Doing(v, "like")
          <6>1. f \in LikedBy(k) /\ LikedBy(k)' = LikedBy(k) \ {f}
            BY <1>3, <1>6, <2>1, <3>5, <5>3 DEF LikedBy
          <6>2. Cardinality(LikedBy(k)') = Cardinality(LikedBy(k)) - 1
            BY <5>1, <6>1, FS_RemoveElement
          <6> QED
            BY <5>3, <6>2, LikesFinite
        <5> QED
          BY <5>2, <5>3
      <4>2. CASE visit'[v] = next
        <5>0. /\ visit'[v].kind = "count" /\ visit'[v].model = k
              /\ visit'[v].more = more
          BY <3>5, <4>2
        <5>1. \A n \in {1, -1} : v \in Counting(k, n)' <=> n = more
          BY <5>0 DEF Counting, During
        <5>2. Uncounted(k)' = Uncounted(k) + more
          <6>1. \A n \in {1, -1} :
                  /\ n = more => Cardinality(Counting(k, n)') = Cardinality(Counting(k, n)) + 1
                  /\ n # more => Counting(k, n)' = Counting(k, n)
            BY <1>1, <2>2, <3>3, <5>1, CountingMoves
          <6>2. CASE more = 1
            BY <3>2, <6>1, <6>2, LikesFinite, LikesFiniteNext
          <6>3. CASE more = -1
            BY <3>2, <6>1, <6>3, LikesFinite, LikesFiniteNext
          <6> QED
            BY <6>2, <6>3
        <5>3. owed'[k] = owed[k]
          BY <2>2, <4>2
        <5> QED
          BY <1>5, <3>1, <3>2, <4>1, <5>2, <5>3, LikesFinite
      <4>3. CASE visit'[v] = Away
        <5>1. v \notin Counting(k, 1)' /\ v \notin Counting(k, -1)'
          BY <4>3 DEF Counting, During, Away
        <5>2. Uncounted(k)' = Uncounted(k)
          BY <1>1, <2>2, <3>3, <5>1, CountingMoves, LikesFinite, LikesFiniteNext
        <5>3. owed'[k] = owed[k] + more
          BY <1>1, <2>2, <3>5, <4>3 DEF VisitsTyped, ListingsTypeOK
        <5> QED
          BY <1>5, <3>1, <3>2, <4>1, <5>2, <5>3, LikesFinite
      <4> QED
        BY <2>2, <4>2, <4>3
    <3> QED
      BY <3>4, <3>5
  <2> QED
    BY <2>3 DEF CountInv, LikesCounted
<1>7. CASE ~(Doing(v, "like") <=> <<f, m>> \notin liked)
  <2>1. Exit(v) /\ UNCHANGED <<liked, owed>>
    BY <1>7, Zenon DEF WriteLike
  <2>2. visit'[v] = Away /\ \A x \in Visitor \ {v} : visit'[x] = visit[x]
    BY <1>1, <2>1, OneMoves
  <2> QED
    BY <1>4, <1>5, <2>1, <2>2, LikesAlone DEF Doing, Away
<1> QED
  BY <1>6, <1>7

LEMMA CountLikeStep ==
  ASSUME CountInv, VisitsTyped', NEW v \in Visitor, CountLike(v)
  PROVE  CountInv'
<1> DEFINE m == visit[v].model
           more == visit[v].more
<1>1. VisitsTyped
  BY DEF CountInv
<1>2. visit[v] \in CountVisit /\ visit[v].kind = "count"
  BY <1>1, VisitKinds DEF CountLike, Doing
<1>3. m \in Model /\ more \in {1, -1}
  BY <1>2 DEF CountVisit
<1>4. /\ likes' = [likes EXCEPT ![m] = @ + more]
      /\ UNCHANGED <<liked, owed>> /\ Exit(v)
  BY DEF CountLike
<1>5. visit'[v] = Away /\ \A x \in Visitor \ {v} : visit'[x] = visit[x]
  BY <1>1, <1>4, OneMoves
<1>6. ASSUME NEW k \in Model
      PROVE  likes'[k] = Cardinality(LikedBy(k)') - owed'[k] - Uncounted(k)'
  <2>1. likes[k] = Cardinality(LikedBy(k)) - owed[k] - Uncounted(k)
    BY DEF CountInv, LikesCounted
  <2>2. /\ owed[k] \in Int /\ likes[k] \in Int
        /\ Cardinality(Counting(k, 1)) \in Nat /\ Cardinality(Counting(k, -1)) \in Nat
        /\ Cardinality(Counting(k, 1)') \in Nat /\ Cardinality(Counting(k, -1)') \in Nat
    BY <1>1, FiniteParts DEF VisitsTyped, ListingsTypeOK, Counting, During
  <2>3. v \notin Counting(k, 1)' /\ v \notin Counting(k, -1)'
    BY <1>5 DEF Counting, During, Away
  <2>4. LikedBy(k)' = LikedBy(k) /\ owed'[k] = owed[k]
    BY <1>4 DEF LikedBy
  <2>5. CASE k # m
    <3>1. v \notin Counting(k, 1) /\ v \notin Counting(k, -1)
      BY <2>5 DEF Counting
    <3>2. Counting(k, 1)' = Counting(k, 1) /\ Counting(k, -1)' = Counting(k, -1)
      BY <1>1, <1>5, <2>3, <3>1, CountingMoves
    <3>3. likes'[k] = likes[k]
      BY <1>1, <1>4, <2>5 DEF VisitsTyped, ListingsTypeOK
    <3> QED
      BY <2>1, <2>4, <3>2, <3>3, LikesFinite, LikesFiniteNext
  <2>6. CASE k = m
    <3>1. v \in Counting(k, more) /\ v \notin Counting(k, - more)
      BY <1>2, <1>3, <2>6 DEF Counting, During
    <3>2. Uncounted(k)' = Uncounted(k) - more
      BY <1>1, <1>3, <1>5, <2>2, <2>3, <3>1, CountingMoves, LikesFinite, LikesFiniteNext
    <3>3. likes'[k] = likes[k] + more
      BY <1>1, <1>4, <2>6 DEF VisitsTyped, ListingsTypeOK
    <3> QED
      BY <1>3, <2>1, <2>2, <2>4, <3>2, <3>3, LikesFinite
  <2> QED
    BY <2>5, <2>6
<1> QED
  BY <1>6 DEF CountInv, LikesCounted

\* The requests that are not counting a like.
LEMMA NotCounting ==
  ASSUME VisitsTyped, NEW v \in Visitor,
         \/ \E f \in Fan, m \in Model, counts \in BOOLEAN : ToggleLike(v, f, m, counts)
         \/ KeepList(v) \/ EditCarpets(v) \/ InvalidateFilterCache(v)
         \/ CreateCarpet(v) \/ CommitCarpet(v) \/ GetFilter(v)
  PROVE  /\ ~Doing(v, "count") /\ ~Doing(v, "count")'
         /\ \A x \in Visitor \ {v} : visit'[x] = visit[x]
<1>1. Away.kind = "none"
  BY DEF Away
<1>2. SUFFICES /\ visit[v].kind # "count"
               /\ \E r : /\ Go(v, r) \/ Enter(v, r) \/ (r = Away /\ Exit(v))
                        /\ r.kind # "count"
  BY OneMoves DEF Doing
<1>3. CASE \E f \in Fan, m \in Model, counts \in BOOLEAN : ToggleLike(v, f, m, counts)
  <2>1. PICK f \in Fan, m \in Model, counts \in BOOLEAN : ToggleLike(v, f, m, counts)
    BY <1>3
  <2> DEFINE r == [kind |-> IF <<f, m>> \in liked THEN "unlike" ELSE "like",
                   fan |-> f, model |-> m, counts |-> counts]
  <2>2. Enter(v, r) /\ r.kind \in {"like", "unlike"}
    BY <2>1 DEF ToggleLike
  <2> QED
    BY <1>1, <2>2 DEF Enter
<1>4. CASE KeepList(v) \/ CommitCarpet(v)
  BY <1>1, <1>4 DEF KeepList, CommitCarpet, Doing
<1>5. CASE \/ EditCarpets(v) \/ InvalidateFilterCache(v) \/ CreateCarpet(v)
           \/ GetFilter(v)
  <2>1. CASE EditCarpets(v) \/ CreateCarpet(v)
    <3>1. \E k \in {"announce", "announceFirst"} : Enter(v, [kind |-> k])
      BY <2>1 DEF EditCarpets, CreateCarpet
    <3> QED
      BY <1>1, <3>1 DEF Enter
  <2>2. CASE InvalidateFilterCache(v)
    <3>1. /\ visit[v].kind \in {"announce", "announceFirst"}
          /\ Exit(v) \/ Go(v, [kind |-> "commit"])
      BY <2>2 DEF InvalidateFilterCache, During
    <3> QED
      BY <1>1, <3>1
  <2>3. CASE GetFilter(v)
    <3> DEFINE r == [kind |-> "fill", value |-> offer]
    <3>1. Enter(v, r) /\ r.kind = "fill"
      BY <2>3 DEF GetFilter
    <3> QED
      BY <1>1, <3>1 DEF Enter
  <2> QED
    BY <1>5, <2>1, <2>2, <2>3
<1> QED
  BY <1>3, <1>4, <1>5

LEMMA NextCount == CountInv /\ [ListingsNext]_<<listingVars, part>> => CountInv'
<1> SUFFICES ASSUME CountInv, [ListingsNext]_<<listingVars, part>>
             PROVE  CountInv'
  OBVIOUS
<1>0. VisitsTyped /\ VisitsTyped'
  BY NextVisits DEF CountInv
<1>1. CASE \E v \in Visitor : WriteLike(v) \/ CountLike(v)
  BY <1>0, <1>1, WriteLikeStep, CountLikeStep
<1>2. CASE Recount
  <2>1. ASSUME NEW k \in Model
        PROVE  likes'[k] = Cardinality(LikedBy(k)') - owed'[k] - Uncounted(k)'
    <3>1. likes'[k] = Cardinality(LikedBy(k)) /\ owed'[k] = - Uncounted(k)
      BY <1>2 DEF Recount
    <3>2. LikedBy(k)' = LikedBy(k) /\ Counting(k, 1)' = Counting(k, 1)
          /\ Counting(k, -1)' = Counting(k, -1)
      BY <1>2 DEF Recount, LikedBy, Counting, During
    <3> QED
      BY <3>1, <3>2, LikesFinite, LikesFiniteNext
  <2> QED
    BY <1>0, <2>1 DEF CountInv, LikesCounted
<1>3. CASE RestartListings
  <2>1. ASSUME NEW k \in Model
        PROVE  likes'[k] = Cardinality(LikedBy(k)') - owed'[k] - Uncounted(k)'
    <3>1. likes[k] = Cardinality(LikedBy(k)) - owed[k] - Uncounted(k)
      BY DEF CountInv, LikesCounted
    <3>2. /\ likes'[k] = likes[k] /\ owed'[k] = owed[k] + Uncounted(k)
          /\ LikedBy(k)' = LikedBy(k)
      BY <1>3 DEF RestartListings, LikedBy
    <3>3. Counting(k, 1)' = {} /\ Counting(k, -1)' = {}
      BY <1>3 DEF RestartListings, Counting, During, Away
    <3>4. Uncounted(k)' = 0
      BY <3>3, FS_EmptySet, LikesFiniteNext
    <3>5. owed[k] \in Int
      BY <1>0 DEF VisitsTyped, ListingsTypeOK
    <3> QED
      BY <3>1, <3>2, <3>4, <3>5, LikesFinite
  <2> QED
    BY <1>0, <2>1 DEF CountInv, LikesCounted
<1>4. ASSUME NEW v \in Visitor,
             \/ \E f \in Fan, m \in Model, counts \in BOOLEAN : ToggleLike(v, f, m, counts)
             \/ KeepList(v) \/ EditCarpets(v) \/ InvalidateFilterCache(v)
             \/ CreateCarpet(v) \/ CommitCarpet(v) \/ GetFilter(v)
      PROVE  CountInv'
  <2>1. UNCHANGED <<liked, likes, owed>>
    BY <1>4 DEF ToggleLike, KeepList, EditCarpets, InvalidateFilterCache, CreateCarpet,
                CommitCarpet, GetFilter, likeVars
  <2>2. /\ ~Doing(v, "count") /\ ~Doing(v, "count")'
        /\ \A x \in Visitor \ {v} : visit'[x] = visit[x]
    BY <1>0, <1>4, NotCounting
  <2> QED
    BY <1>0, <2>1, <2>2, LikesAlone
<1>5. CASE \/ SellQuietly \/ ExpireList \/ UNCHANGED <<listingVars, part>>
           \/ PriceStatement
  <2>1. UNCHANGED <<liked, likes, owed, visit>>
    BY <1>5, StatementMoves DEF SellQuietly, ExpireList, listingVars, likeVars
  <2> QED
    BY <1>0, <2>1, LikesAlone
<1>6. ASSUME NEW v \in Visitor, PriceRequest(v) PROVE CountInv'
  <2>1. /\ ~Doing(v, "count") /\ ~Doing(v, "count")'
        /\ \A x \in Visitor \ {v} : visit'[x] = visit[x]
    BY <1>0, <1>6, PriceMoves DEF Doing
  <2>2. UNCHANGED <<liked, likes, owed>>
    BY <1>0, <1>6, PriceMoves DEF likeVars
  <2> QED
    BY <1>0, <2>1, <2>2, LikesAlone
<1> QED
  BY <1>1, <1>2, <1>3, <1>4, <1>5, <1>6
     DEF ListingsNext, Taps, VisitStep, PriceRequest, PriceStatement

\* The counter of a carpet is the number of users who like it, except for the
\* taps of the bot since the last start, for what is about to be counted, and
\* for what a restart cut short or counted twice.
THEOREM LikesAreCounted == ListingsSpec => []LikesCounted
<1>1. ListingsInit => CountInv
  <2> SUFFICES ASSUME ListingsInit PROVE CountInv
    OBVIOUS
  <2>1. ASSUME NEW k \in Model
        PROVE  likes[k] = Cardinality(LikedBy(k)) - owed[k] - Uncounted(k)
    <3>1. LikedBy(k) = {} /\ Counting(k, 1) = {} /\ Counting(k, -1) = {}
      BY DEF ListingsInit, LikedBy, Counting, During, Away
    <3>2. Cardinality(LikedBy(k)) = 0 /\ Uncounted(k) = 0
      BY <3>1, FS_EmptySet, LikesFinite
    <3>3. likes[k] = 0 /\ owed[k] = 0
      BY DEF ListingsInit
    <3> QED
      BY <3>2, <3>3
  <2> QED
    BY <2>1, InitVisits DEF CountInv, LikesCounted
<1>2. CountInv => LikesCounted
  BY DEF CountInv
<1> QED
  BY <1>1, <1>2, NextCount, PTL DEF ListingsSpec

(***************************************************************************)
(* The shelves                                                             *)
(***************************************************************************)
OnRecord == {"ACTIVE", "RESERVED", "SOLD", "ARCHIVED"}
AnyPiece == [carpet : Carpet \cup {NoCarpet}, status : OnRecord \cup {"none"}]
CarpetRow == [state : {"none", "listed", "archived"}, image : BOOLEAN]

CreateJob == [kind : {"create"}, code : Barcode]
UpdateJob == [kind : {"update"}, carpet : Carpet, image : BOOLEAN]
RemoveJob == [kind : {"remove", "hide"}, carpet : Carpet]
FileJob == [kind : {"validate", "load", "log"}, file : SUBSET Barcode]
RowJob == [kind : {"row", "piece", "newPiece"}, file : SUBSET Barcode,
           rest : SUBSET Barcode, seen : [Barcode -> AnyPiece],
           images : SUBSET Carpet, code : Barcode \cup {NoCarpet}]
DeskJob == {Vacant} \cup CreateJob \cup UpdateJob \cup RemoveJob \cup FileJob \cup RowJob

\* A piece that is on record is a piece of a carpet that is on record.
PieceOK(p) == \/ p = NoPiece
              \/ p.carpet \in Known /\ p.status \in OnRecord

\* What a synchronisation has read is still on record, and works on its file.
RowJobOK(w) ==
  desk[w].kind \in {"row", "piece", "newPiece"} =>
    /\ desk[w].rest \subseteq desk[w].file
    /\ \A b \in Barcode :
         /\ PieceOK(desk[w].seen[b])
         /\ desk[w].seen[b] # NoPiece => piece[b] # NoPiece
    /\ desk[w].kind # "row" => desk[w].code \in desk[w].file \ desk[w].rest
    /\ desk[w].kind = "piece" => desk[w].seen[desk[w].code] # NoPiece
    /\ desk[w].kind = "newPiece" => /\ desk[w].seen[desk[w].code] = NoPiece
                                    /\ desk[w].code \in Known

DeskOK(w) ==
  /\ desk[w].kind \in {"update", "remove", "hide"} => desk[w].carpet \in Known
  /\ RowJobOK(w)

ShelvesTyped ==
  /\ carpet \in [Carpet -> CarpetRow]
  /\ piece \in [Barcode -> AnyPiece]
  /\ \A b \in Barcode : PieceOK(piece[b])
  /\ desk \in [Desk -> DeskJob]
  /\ \A w \in Desk : DeskOK(w)
  /\ failed \subseteq Barcode /\ cut \subseteq Barcode
  /\ syncing \in BOOLEAN /\ disturbed \in BOOLEAN

Syncs(w) == desk[w].kind \in SyncKinds

AloneSyncs ==
  /\ \A v, w \in Desk : Syncs(v) /\ Syncs(w) => v = w
  /\ syncing <=> \E w \in Desk : Syncs(w)

\* A carpet that goes by a barcode was made by a synchronisation, which is
\* about to make its piece, has made it, or was cut short there.
Pending(w, b) == desk[w].kind = "newPiece" /\ desk[w].code = b
CarpetExplained ==
  \A b \in Barcode :
    b \in Known => b \in cut \/ piece[b] # NoPiece \/ \E w \in Desk : Pending(w, b)

\* The rows to come of a new piece whose carpet is there already were cut short.
RowsAt(w) ==
  desk[w].kind \in {"row", "piece", "newPiece"} =>
    \A b \in desk[w].rest : desk[w].seen[b] = NoPiece /\ b \in Known => b \in cut
RowsExplained == \A w \in Desk : RowsAt(w)

FailureInv == CarpetExplained /\ RowsExplained /\ SyncFailureExplained

\* A synchronisation nobody disturbs has put on sale the rows it has gone
\* through, and left alone the rest of the shelves.
ToGo(w) == desk[w].rest \cup (IF desk[w].kind = "row" THEN {} ELSE {desk[w].code})
MatchAt(w) ==
  /\ desk[w].kind \in {"row", "piece", "newPiece"} /\ ~disturbed =>
       \A b \in Barcode :
         IF b \in desk[w].file \ ToGo(w) THEN piece[b].status = "ACTIVE"
         ELSE piece[b].status = desk[w].seen[b].status
  /\ desk[w].kind = "log" /\ ~disturbed =>
       \A b \in Barcode : piece[b].status = "ACTIVE" <=> b \in desk[w].file
MatchInv == \A w \in Desk : MatchAt(w)

ShelfInv == ShelvesTyped /\ AloneSyncs /\ FailureInv /\ MatchInv

\* What a job of each kind carries.
LEMMA DeskKinds ==
  ASSUME ShelvesTyped, NEW w \in Desk
  PROVE  /\ desk[w] \in DeskJob
         /\ desk[w].kind = "create" => desk[w] \in CreateJob
         /\ desk[w].kind = "update" => desk[w] \in UpdateJob
         /\ desk[w].kind \in {"remove", "hide"} => desk[w] \in RemoveJob
         /\ desk[w].kind \in {"validate", "load", "log"} => desk[w] \in FileJob
         /\ desk[w].kind \in {"row", "piece", "newPiece"} => desk[w] \in RowJob
<1>1. desk[w] \in DeskJob
  BY DEF ShelvesTyped
<1> QED
  BY <1>1 DEF DeskJob, Vacant, CreateJob, UpdateJob, RemoveJob, FileJob, RowJob

LEMMA PieceFacts ==
  ASSUME ShelvesTyped, NEW b \in Barcode
  PROVE  /\ piece[b] \in AnyPiece /\ PieceOK(piece[b])
         /\ piece[b] # NoPiece => piece[b].carpet \in Known /\ piece[b].status \in OnRecord
         /\ piece[b].status \in OnRecord => piece[b] # NoPiece
BY DEF ShelvesTyped, PieceOK, NoPiece, OnRecord

\* The shelves stay sound when what was on record stays there and every job
\* that changes is sound.
LEMMA ShelvesStay ==
  ASSUME ShelvesTyped,
         carpet' \in [Carpet -> CarpetRow], Known \subseteq Known',
         piece' \in [Barcode -> AnyPiece], \A b \in Barcode : PieceOK(piece[b])',
         \A b \in Barcode : piece[b] # NoPiece => piece'[b] # NoPiece,
         desk' \in [Desk -> DeskJob],
         \A w \in Desk : desk'[w] = desk[w] \/ DeskOK(w)',
         failed' \subseteq Barcode, cut' \subseteq Barcode,
         syncing' \in BOOLEAN, disturbed' \in BOOLEAN
  PROVE  ShelvesTyped'
<1>1. \A w \in Desk : DeskOK(w)'
  <2> SUFFICES ASSUME NEW w \in Desk, desk'[w] = desk[w] PROVE DeskOK(w)'
    OBVIOUS
  <2>1. DeskOK(w)
    BY DEF ShelvesTyped
  <2>2. \A b \in Barcode : PieceOK(desk[w].seen[b]) => PieceOK(desk[w].seen[b])'
    BY DEF PieceOK, NoPiece
  <2>3. RowJobOK(w)'
    <3> SUFFICES ASSUME desk[w].kind \in {"row", "piece", "newPiece"} PROVE RowJobOK(w)'
      BY DEF RowJobOK
    <3>1. RowJobOK(w)
      BY <2>1 DEF DeskOK
    <3> QED
      BY <2>2, <3>1 DEF RowJobOK, NoPiece
  <2> QED
    BY <2>1, <2>3 DEF DeskOK
<1> QED
  BY <1>1 DEF ShelvesTyped

LEMMA SetPiecesEffect ==
  ASSUME ShelvesTyped, Known \subseteq Known', NEW bs \in SUBSET Barcode,
         \A b \in bs : piece[b] # NoPiece, NEW s \in OnRecord, SetPieces(bs, s)
  PROVE  /\ piece' \in [Barcode -> AnyPiece]
         /\ \A b \in Barcode : PieceOK(piece[b])'
         /\ \A b \in Barcode : piece[b] # NoPiece => piece'[b] # NoPiece
         /\ \A b \in bs : piece'[b].status = s
         /\ \A b \in Barcode \ bs : piece'[b] = piece[b]
<1>1. \A b \in Barcode :
        piece'[b] = IF b \in bs THEN [piece[b] EXCEPT !.status = s] ELSE piece[b]
  BY DEF SetPieces
<1>2. ASSUME NEW b \in bs
      PROVE  /\ piece'[b] \in AnyPiece /\ piece'[b].carpet \in Known
             /\ piece'[b].status = s /\ piece'[b] # NoPiece
  <2>1. piece[b] \in AnyPiece /\ piece[b].carpet \in Known
    BY PieceFacts
  <2>2. piece'[b] = [piece[b] EXCEPT !.status = s]
    BY <1>1
  <2>3. piece'[b].carpet = piece[b].carpet /\ piece'[b].status = s
    BY <2>1, <2>2 DEF AnyPiece
  <2>4. piece'[b] \in AnyPiece
    BY <2>1, <2>2 DEF AnyPiece
  <2>5. NoPiece.status \notin OnRecord
    BY DEF NoPiece, OnRecord
  <2> QED
    BY <2>1, <2>3, <2>4, <2>5
<1>3. \A b \in Barcode \ bs : piece'[b] = piece[b] /\ PieceOK(piece[b]) /\ piece[b] \in AnyPiece
  BY <1>1, PieceFacts
<1>4. \A b \in Barcode : piece'[b] \in AnyPiece
  BY <1>2, <1>3
<1>5. piece' \in [Barcode -> AnyPiece]
  BY <1>4 DEF SetPieces
<1>6. \A b \in Barcode : PieceOK(piece[b])'
  BY <1>2, <1>3 DEF PieceOK, NoPiece
<1> QED
  BY <1>2, <1>3, <1>5, <1>6

LEMMA ShelveEffect ==
  ASSUME ShelvesTyped, Known \subseteq Known', NEW home, DOMAIN home \subseteq Barcode,
         \A b \in DOMAIN home : home[b] \in Known', Shelve(home)
  PROVE  /\ piece' \in [Barcode -> AnyPiece]
         /\ \A b \in Barcode : PieceOK(piece[b])'
         /\ \A b \in Barcode : piece[b] # NoPiece => piece'[b] # NoPiece
         /\ \A b \in DOMAIN home : piece'[b].status = "ACTIVE" /\ piece'[b] # NoPiece
         /\ \A b \in Barcode \ DOMAIN home : piece'[b] = piece[b]
<1>1. \A b \in Barcode :
        piece'[b] = IF b \in DOMAIN home THEN [carpet |-> home[b], status |-> "ACTIVE"]
                    ELSE piece[b]
  BY DEF Shelve
<1>2. \A b \in DOMAIN home :
        /\ piece'[b] \in AnyPiece /\ piece'[b].carpet \in Known'
        /\ piece'[b].status = "ACTIVE" /\ piece'[b] # NoPiece
  <2> TAKE b \in DOMAIN home
  <2>1. piece'[b] = [carpet |-> home[b], status |-> "ACTIVE"] /\ b \in Barcode
    BY <1>1
  <2>2. home[b] \in Known' /\ home[b] \in Carpet
    BY DEF Known
  <2>3. piece'[b].carpet = home[b] /\ piece'[b].status = "ACTIVE"
    BY <2>1
  <2>4. piece'[b] \in AnyPiece
    BY <2>1, <2>2 DEF AnyPiece, OnRecord
  <2>5. NoPiece.status # "ACTIVE"
    BY DEF NoPiece
  <2> QED
    BY <2>2, <2>3, <2>4, <2>5
<1>3. \A b \in Barcode \ DOMAIN home :
        piece'[b] = piece[b] /\ PieceOK(piece[b]) /\ piece[b] \in AnyPiece
  BY <1>1, PieceFacts
<1>4. \A b \in Barcode : piece'[b] \in AnyPiece
  BY <1>2, <1>3
<1>5. piece' \in [Barcode -> AnyPiece]
  BY <1>4 DEF Shelve
<1>6. \A b \in Barcode : PieceOK(piece[b])'
  BY <1>2, <1>3 DEF PieceOK, NoPiece, OnRecord
<1> QED
  BY <1>2, <1>3, <1>5, <1>6

\* A job is taken, goes on or ends; nobody else's moves.
LEMMA DeskMoves ==
  ASSUME ShelvesTyped, NEW w \in Desk, NEW d \in DeskJob,
         Take(w, d) \/ Goto(w, d) \/ (d = Vacant /\ Leave(w))
  PROVE  /\ desk' \in [Desk -> DeskJob] /\ desk'[w] = d
         /\ \A x \in Desk \ {w} : desk'[x] = desk[x]
BY DEF ShelvesTyped, Take, Goto, Leave

LEMMA NoJobOK == Vacant \in DeskJob /\ Vacant.kind = "none"
BY DEF DeskJob, Vacant

(***************************************************************************)
(* Steps that are not a synchronisation's                                  *)
(***************************************************************************)
Outside ==
  /\ ShelvesTyped'
  /\ UNCHANGED <<syncing, cut, failed>>
  /\ \A w \in Desk : desk'[w] = desk[w] \/ (~Syncs(w) /\ ~Syncs(w)')
  /\ UNCHANGED <<piece, disturbed>> \/ disturbed' = (disturbed \/ syncing)
  /\ \A b \in Barcode : b \in Known' => b \in Known
  /\ \A b \in Barcode : piece[b] # NoPiece => piece'[b] # NoPiece

LEMMA OutsideKeeps == ShelfInv /\ Outside => ShelfInv'
<1> SUFFICES ASSUME ShelfInv, Outside PROVE ShelfInv'
  OBVIOUS
<1>1. \A w \in Desk : Syncs(w)' <=> Syncs(w)
  BY DEF Outside, Syncs
<1>2. AloneSyncs'
  BY <1>1 DEF ShelfInv, AloneSyncs, Outside
<1>3. \A w \in Desk : desk[w].kind \in SyncKinds \/ desk'[w].kind \in SyncKinds
        => desk'[w] = desk[w]
  BY DEF Outside, Syncs
<1>4. CarpetExplained'
  <2>1. \A w \in Desk, b \in Barcode : Pending(w, b) => Pending(w, b)'
    BY <1>3 DEF Pending, SyncKinds
  <2> QED
    BY <2>1 DEF ShelfInv, FailureInv, CarpetExplained, Outside
<1>5. RowsExplained'
  <2> SUFFICES ASSUME NEW w \in Desk, desk'[w].kind \in {"row", "piece", "newPiece"},
                      NEW b \in desk'[w].rest, desk'[w].seen[b] = NoPiece, b \in Known'
               PROVE  b \in cut'
    BY DEF RowsExplained, RowsAt, NoPiece
  <2>1. desk'[w] = desk[w] /\ desk[w].kind \in {"row", "piece", "newPiece"}
    BY <1>3 DEF SyncKinds
  <2>2. b \in Barcode
    BY <2>1, DeskKinds DEF ShelfInv, RowJob
  <2> QED
    BY <2>1, <2>2 DEF Outside, ShelfInv, FailureInv, RowsExplained, RowsAt
<1>6. SyncFailureExplained'
  BY DEF Outside, ShelfInv, FailureInv, SyncFailureExplained
<1>7. MatchInv'
  <2> SUFFICES ASSUME NEW w \in Desk, ~disturbed',
                      desk'[w].kind \in {"row", "piece", "newPiece", "log"}
               PROVE  /\ desk'[w] = desk[w] /\ ~disturbed
                      /\ \A b \in Barcode : piece'[b] = piece[b]
    BY DEF ShelfInv, MatchInv, MatchAt, ToGo
  <2>1. Syncs(w) /\ desk'[w] = desk[w]
    BY <1>3 DEF SyncKinds, Syncs
  <2>2. syncing
    BY <2>1 DEF ShelfInv, AloneSyncs
  <2>3. UNCHANGED <<piece, disturbed>>
    BY <2>2, Zenon DEF Outside
  <2> QED
    BY <2>1, <2>3
<1> QED
  BY <1>2, <1>4, <1>5, <1>6, <1>7 DEF ShelfInv, FailureInv, Outside
PiecesStay ==
  /\ piece' \in [Barcode -> AnyPiece]
  /\ \A b \in Barcode : PieceOK(piece[b])'
  /\ \A b \in Barcode : piece[b] # NoPiece => piece'[b] # NoPiece

CarpetsStay ==
  /\ carpet' \in [Carpet -> CarpetRow] /\ Known \subseteq Known'
  /\ \A b \in Barcode : b \in Known' => b \in Known

LEMMA PiecesAlone ==
  ASSUME ShelvesTyped, CarpetsStay, piece' = piece
  PROVE  PiecesStay
BY DEF ShelvesTyped, CarpetsStay, PiecesStay, PieceOK, NoPiece

LEMMA CarpetsAlone ==
  ASSUME ShelvesTyped, carpet' = carpet
  PROVE  CarpetsStay
BY DEF ShelvesTyped, CarpetsStay, Known

\* A carpet that is on record may change, or one with a number may be added.
LEMMA CarpetWritten ==
  ASSUME ShelvesTyped, NEW k \in Carpet, k \in Known \/ k \in Numbered,
         NEW r \in CarpetRow, r.state # "none", carpet' = [carpet EXCEPT ![k] = r]
  PROVE  CarpetsStay /\ k \in Known'
<1>1. carpet' \in [Carpet -> CarpetRow]
  BY DEF ShelvesTyped
<1>2. carpet'[k] = r /\ \A x \in Carpet \ {k} : carpet'[x] = carpet[x]
  BY DEF ShelvesTyped
<1>3. k \in Known' /\ Known \subseteq Known'
  BY <1>2 DEF Known
<1>4. \A b \in Barcode : b \in Known' => b \in Known
  BY <1>2, CatalogueAssumption DEF Known
<1> QED
  BY <1>1, <1>3, <1>4 DEF CarpetsStay

LEMMA ImageWritten ==
  ASSUME ShelvesTyped, NEW k \in Known, NEW image \in BOOLEAN,
         carpet' = [carpet EXCEPT ![k].image = image]
  PROVE  CarpetsStay /\ k \in Known'
<1>1. k \in Carpet /\ carpet[k] \in CarpetRow /\ carpet[k].state # "none"
  BY DEF Known, ShelvesTyped
<1> DEFINE r == [carpet[k] EXCEPT !.image = image]
<1>2. r \in CarpetRow /\ r.state = carpet[k].state
  BY <1>1 DEF CarpetRow
<1>3. carpet' = [carpet EXCEPT ![k] = r]
  OBVIOUS
<1> QED
  BY <1>1, <1>2, <1>3, CarpetWritten

LEMMA StateWritten ==
  ASSUME ShelvesTyped, NEW k \in Known, NEW s \in {"listed", "archived"},
         carpet' = [carpet EXCEPT ![k].state = s]
  PROVE  CarpetsStay /\ k \in Known'
<1>1. k \in Carpet /\ carpet[k] \in CarpetRow
  BY DEF Known, ShelvesTyped
<1> DEFINE r == [carpet[k] EXCEPT !.state = s]
<1>2. r \in CarpetRow /\ r.state # "none"
  BY <1>1 DEF CarpetRow
<1>3. carpet' = [carpet EXCEPT ![k] = r]
  OBVIOUS
<1> QED
  BY <1>1, <1>2, <1>3, CarpetWritten

LEMMA OutsideStep ==
  ASSUME ShelvesTyped, CarpetsStay, PiecesStay,
         NEW w \in Desk, NEW d \in DeskJob,
         Take(w, d) \/ Goto(w, d) \/ (d = Vacant /\ Leave(w)),
         desk[w].kind \notin SyncKinds, d.kind \notin SyncKinds,
         d.kind \in {"update", "remove", "hide"} => d.carpet \in Known',
         UNCHANGED <<syncing, cut, failed>>,
         UNCHANGED <<piece, disturbed>> \/ disturbed' = (disturbed \/ syncing)
  PROVE  Outside
<1>1. /\ desk' \in [Desk -> DeskJob] /\ desk'[w] = d
      /\ \A x \in Desk \ {w} : desk'[x] = desk[x]
  BY DeskMoves
<1>2. DeskOK(w)'
  BY <1>1 DEF DeskOK, RowJobOK, SyncKinds
<1>3. disturbed' \in BOOLEAN
  BY DEF ShelvesTyped
<1>4. ShelvesTyped'
  <2>1. failed' \subseteq Barcode /\ cut' \subseteq Barcode /\ syncing' \in BOOLEAN
    BY DEF ShelvesTyped
  <2>2. \A x \in Desk : desk'[x] = desk[x] \/ DeskOK(x)'
    BY <1>1, <1>2
  <2> QED
    BY <1>1, <1>3, <2>1, <2>2, ShelvesStay DEF CarpetsStay, PiecesStay
<1>5. \A x \in Desk : desk'[x] = desk[x] \/ (~Syncs(x) /\ ~Syncs(x)')
  BY <1>1 DEF Syncs
<1> QED
  BY <1>4, <1>5 DEF Outside, CarpetsStay, PiecesStay

LEMMA OnShelfFacts ==
  ASSUME ShelvesTyped, NEW k, NEW s \in OnRecord
  PROVE  OnShelf(k, s) \subseteq Barcode /\ \A b \in OnShelf(k, s) : piece[b] # NoPiece
BY DEF OnShelf, OnRecord, NoPiece

\* Pieces change their status, and stay on record.
LEMMA StatusWritten ==
  ASSUME ShelvesTyped, carpet' = carpet, NEW bs \in SUBSET Barcode,
         \A b \in bs : piece[b] # NoPiece, NEW s \in OnRecord, SetPieces(bs, s)
  PROVE  CarpetsStay /\ PiecesStay
<1>1. CarpetsStay
  BY CarpetsAlone
<1> QED
  BY <1>1, SetPiecesEffect DEF CarpetsStay, PiecesStay

LEMMA Shelved ==
  ASSUME ShelvesTyped, CarpetsStay, NEW home, DOMAIN home \subseteq Barcode,
         \A b \in DOMAIN home : home[b] \in Known', Shelve(home)
  PROVE  PiecesStay
BY ShelveEffect DEF CarpetsStay, PiecesStay

LEMMA EditsOutside ==
  ASSUME ShelvesTyped, Edits PROVE Outside
<1> USE DEF Others
<1>1. ASSUME NEW w \in Desk, NEW b \in Barcode, StartCreate(w, b) PROVE Outside
  <2> DEFINE d == [kind |-> "create", code |-> b]
  <2>1. d \in DeskJob /\ d.kind = "create"
    BY DEF DeskJob, CreateJob
  <2>2. Take(w, d) /\ UNCHANGED <<carpet, piece, syncing, cut, failed, disturbed>>
    BY <1>1 DEF StartCreate, syncHistory
  <2>3. desk[w].kind \notin SyncKinds /\ d.kind \notin SyncKinds
    BY <2>1, <2>2 DEF Take, SyncKinds, Vacant
  <2> QED
    BY <2>1, <2>2, <2>3, CarpetsAlone, PiecesAlone, OutsideStep
<1>2. ASSUME NEW w \in Desk, NEW k \in Carpet, StartUpdate(w, k) PROVE Outside
  <2>1. PICK image \in {carpet[k].image, TRUE} :
          Take(w, [kind |-> "update", carpet |-> k, image |-> image])
    BY <1>2 DEF StartUpdate
  <2> DEFINE d == [kind |-> "update", carpet |-> k, image |-> image]
  <2>2. image \in BOOLEAN
    BY DEF ShelvesTyped, CarpetRow
  <2>3. d \in DeskJob /\ d.kind = "update" /\ d.carpet = k /\ k \in Known
    BY <1>2, <2>2 DEF DeskJob, UpdateJob, StartUpdate
  <2>4. UNCHANGED <<carpet, piece, syncing, cut, failed, disturbed>>
    BY <1>2 DEF StartUpdate, syncHistory
  <2>5. desk[w].kind \notin SyncKinds /\ d.kind \notin SyncKinds
    BY <2>1, <2>3 DEF Take, SyncKinds, Vacant
  <2>6. CarpetsStay /\ k \in Known'
    BY <2>3, <2>4, CarpetsAlone DEF CarpetsStay
  <2> QED
    BY <2>1, <2>3, <2>4, <2>5, <2>6, PiecesAlone, OutsideStep
<1>3. ASSUME NEW w \in Desk, NEW k \in Carpet, StartRemove(w, k) PROVE Outside
  <2> DEFINE d == [kind |-> "remove", carpet |-> k]
  <2>1. d \in DeskJob /\ d.kind = "remove" /\ d.carpet = k /\ k \in Known
    BY <1>3 DEF DeskJob, RemoveJob, StartRemove
  <2>2. Take(w, d) /\ UNCHANGED <<carpet, piece, syncing, cut, failed, disturbed>>
    BY <1>3 DEF StartRemove, syncHistory
  <2>3. desk[w].kind \notin SyncKinds /\ d.kind \notin SyncKinds
    BY <2>1, <2>2 DEF Take, SyncKinds, Vacant
  <2>4. CarpetsStay /\ k \in Known'
    BY <2>1, <2>2, CarpetsAlone DEF CarpetsStay
  <2> QED
    BY <2>1, <2>2, <2>3, <2>4, PiecesAlone, OutsideStep
<1>4. ASSUME NEW w \in Desk, Create(w) PROVE Outside
  <2> DEFINE b == desk[w].code
  <2>1. At(w, "create") /\ b \in Barcode /\ desk[w].kind \notin SyncKinds
    BY <1>4, DeskKinds DEF Create, At, CreateJob, SyncKinds
  <2>2. Leave(w) /\ UNCHANGED <<syncing, cut, failed>>
    BY <1>4, Zenon DEF Create, syncHistory
  <2>3. Vacant.kind \notin SyncKinds /\ Vacant.kind \notin {"update", "remove", "hide"}
    BY NoJobOK DEF SyncKinds
  <2>4. ASSUME UNCHANGED <<carpet, piece, syncHistory>> PROVE Outside
    BY <2>1, <2>2, <2>3, <2>4, NoJobOK, CarpetsAlone, PiecesAlone, OutsideStep
       DEF syncHistory
  <2>5. ASSUME NEW k \in Unknown, NEW image \in BOOLEAN,
               carpet' = [carpet EXCEPT ![k] = [state |-> "listed", image |-> image]],
               Shelve([x \in {b} |-> k]), disturbed' = (disturbed \/ syncing)
        PROVE  Outside
    <3>1. k \in Numbered /\ k \in Carpet
      BY DEF Unknown, Carpet
    <3> DEFINE r == [state |-> "listed", image |-> image]
               home == [x \in {b} |-> k]
    <3>2. r \in CarpetRow /\ r.state # "none"
      BY DEF CarpetRow
    <3>3. CarpetsStay /\ k \in Known'
      BY <2>5, <3>1, <3>2, CarpetWritten
    <3>4. DOMAIN home \subseteq Barcode /\ \A x \in DOMAIN home : home[x] \in Known'
      BY <2>1, <3>3
    <3>5. PiecesStay
      BY <2>5, <3>3, <3>4, Shelved
    <3> QED
      BY <2>1, <2>2, <2>3, <2>5, <3>3, <3>5, NoJobOK, OutsideStep
  <2> QED
    BY <1>4, <2>4, <2>5, Zenon DEF Create
<1>5. ASSUME NEW w \in Desk, Update(w) PROVE Outside
  <2> DEFINE k == desk[w].carpet
             active == OnShelf(k, "ACTIVE")
  <2>1. At(w, "update") /\ k \in Known /\ desk[w].image \in BOOLEAN
    <3>1. desk[w].kind = "update" /\ desk[w] \in UpdateJob
      BY <1>5, DeskKinds DEF Update, At
    <3> QED
      BY <3>1 DEF UpdateJob, ShelvesTyped, DeskOK, At
  <2>2. desk[w].kind \notin SyncKinds
    BY <2>1 DEF At, SyncKinds
  <2>3. Leave(w) /\ UNCHANGED <<syncing, cut, failed>>
    BY <1>5, Zenon DEF Update, syncHistory
  <2>4. Vacant.kind \notin SyncKinds /\ Vacant.kind \notin {"update", "remove", "hide"}
    BY NoJobOK DEF SyncKinds
  <2>5. CASE UNCHANGED <<carpet, piece, syncHistory>>
    BY <2>2, <2>3, <2>4, <2>5, NoJobOK, CarpetsAlone, PiecesAlone, OutsideStep
       DEF syncHistory
  <2>6. CASE /\ carpet' = [carpet EXCEPT ![k].image = desk[w].image]
             /\ \/ UNCHANGED piece /\ Others
                \/ \E bs \in SUBSET active \ {active} :
                     SetPieces(bs, "ARCHIVED") /\ Others
                \/ \E bs \in SUBSET Fresh : Shelve([x \in bs |-> k]) /\ Others
    <3>1. CarpetsStay /\ k \in Known'
      BY <2>1, <2>6, ImageWritten
    <3>2. disturbed' = (disturbed \/ syncing)
      BY <2>6
    <3>3. ASSUME UNCHANGED piece PROVE PiecesStay
      BY <3>1, <3>3, PiecesAlone
    <3>4. ASSUME NEW bs \in SUBSET active, SetPieces(bs, "ARCHIVED") PROVE PiecesStay
      <4>1. bs \in SUBSET Barcode /\ (\A b \in bs : piece[b] # NoPiece)
            /\ "ARCHIVED" \in OnRecord
        BY OnShelfFacts DEF OnRecord
      <4> QED
        BY <3>1, <3>4, <4>1, SetPiecesEffect DEF PiecesStay, CarpetsStay
    <3>5. ASSUME NEW bs \in SUBSET Fresh, Shelve([x \in bs |-> k]) PROVE PiecesStay
      <4> DEFINE home == [x \in bs |-> k]
      <4>1. DOMAIN home \subseteq Barcode /\ \A x \in DOMAIN home : home[x] \in Known'
        BY <3>1 DEF Fresh
      <4> QED
        BY <3>1, <3>5, <4>1, Shelved
    <3>6. PiecesStay
      BY <2>6, <3>3, <3>4, <3>5
    <3> QED
      BY <2>2, <2>3, <2>4, <3>1, <3>2, <3>6, NoJobOK, OutsideStep
  <2> QED
    BY <1>5, <2>5, <2>6, Zenon DEF Update
<1>6. ASSUME NEW w \in Desk, ArchivePieces(w) PROVE Outside
  <2> DEFINE d == [desk[w] EXCEPT !.kind = "hide"]
             bs == OnShelf(desk[w].carpet, "ACTIVE")
  <2>1. desk[w].kind = "remove" /\ desk[w] \in RemoveJob /\ desk[w].carpet \in Known
    BY <1>6, DeskKinds DEF ArchivePieces, At, ShelvesTyped, DeskOK
  <2>2. d \in DeskJob /\ d.kind = "hide" /\ d.carpet = desk[w].carpet
    BY <2>1 DEF RemoveJob, DeskJob
  <2>3. /\ SetPieces(bs, "ARCHIVED") /\ Goto(w, d)
        /\ UNCHANGED <<carpet, syncing, cut, failed>>
        /\ disturbed' = (disturbed \/ syncing)
    BY <1>6 DEF ArchivePieces
  <2>4. bs \in SUBSET Barcode /\ (\A b \in bs : piece[b] # NoPiece)
        /\ "ARCHIVED" \in OnRecord /\ "ACTIVE" \in OnRecord
    BY OnShelfFacts DEF OnRecord
  <2>5. CarpetsStay /\ PiecesStay
    BY <2>3, <2>4, StatusWritten
  <2>6. desk[w].kind \notin SyncKinds /\ d.kind \notin SyncKinds
    BY <2>1, <2>2 DEF SyncKinds
  <2>7. d.carpet \in Known'
    BY <2>1, <2>2, <2>5 DEF CarpetsStay
  <2> QED
    BY <2>2, <2>3, <2>5, <2>6, <2>7, OutsideStep
<1>7. ASSUME NEW w \in Desk, HideCarpet(w) PROVE Outside
  <2> DEFINE k == desk[w].carpet
  <2>1. desk[w].kind = "hide" /\ k \in Known
    BY <1>7 DEF HideCarpet, At, ShelvesTyped, DeskOK
  <2>2. /\ carpet' = [carpet EXCEPT ![k].state = "archived"] /\ Leave(w)
        /\ UNCHANGED <<piece, syncing, cut, failed, disturbed>>
    BY <1>7 DEF HideCarpet, syncHistory
  <2>3. CarpetsStay
    BY <2>1, <2>2, StateWritten
  <2>4. desk[w].kind \notin SyncKinds /\ Vacant.kind \notin SyncKinds
        /\ Vacant.kind \notin {"update", "remove", "hide"}
    BY <2>1, NoJobOK DEF SyncKinds
  <2> QED
    BY <2>2, <2>3, <2>4, NoJobOK, PiecesAlone, OutsideStep
<1> QED
  BY <1>1, <1>2, <1>3, <1>4, <1>5, <1>6, <1>7 DEF Edits
LEMMA ImportOutside ==
  ASSUME ShelvesTyped, NEW items \in SUBSET Barcode, ImportBatch(items)
  PROVE  Outside
<1>1. PICK home \in Homes(items) :
        LET hit == KnownCarpets(items) \cup {home[b] : b \in DOMAIN home} IN
        /\ carpet' = [k \in Carpet |->
             IF k \notin hit THEN carpet[k]
             ELSE IF k \in Known THEN [carpet[k] EXCEPT !.image = TRUE]
             ELSE [state |-> "listed", image |-> TRUE]]
        /\ Shelve(home)
  BY DEF ImportBatch
<1> DEFINE hit == KnownCarpets(items) \cup {home[b] : b \in DOMAIN home}
<1>2. /\ DOMAIN home = items \cap Fresh
      /\ \A b \in DOMAIN home : home[b] \in Known \cup Numbered
  BY DEF Homes
<1>3. hit \subseteq Known \cup Numbered
  <2>1. KnownCarpets(items) \subseteq Known
    BY PieceFacts DEF KnownCarpets, Fresh
  <2> QED
    BY <1>2, <2>1
<1>4. \A k \in Carpet :
        carpet'[k] = IF k \notin hit THEN carpet[k]
                     ELSE IF k \in Known THEN [carpet[k] EXCEPT !.image = TRUE]
                     ELSE [state |-> "listed", image |-> TRUE]
  BY <1>1
<1>5. \A k \in Carpet :
        /\ carpet'[k] \in CarpetRow
        /\ k \in Known => carpet'[k].state = carpet[k].state
        /\ k \in hit => carpet'[k].state # "none"
        /\ k \notin hit => carpet'[k] = carpet[k]
  <2> TAKE k \in Carpet
  <2>1. carpet[k] \in CarpetRow /\ (k \in Known <=> carpet[k].state # "none")
    BY DEF ShelvesTyped, Known
  <2>2. CASE k \notin hit
    BY <1>4, <2>1, <2>2
  <2>3. CASE k \in hit /\ k \in Known
    <3>1. carpet'[k] = [carpet[k] EXCEPT !.image = TRUE]
      BY <1>4, <2>3
    <3> QED
      BY <2>1, <2>3, <3>1 DEF CarpetRow
  <2>4. CASE k \in hit /\ k \notin Known
    <3>1. carpet'[k] = [state |-> "listed", image |-> TRUE]
      BY <1>4, <2>4
    <3> QED
      BY <2>4, <3>1 DEF CarpetRow
  <2> QED
    BY <2>2, <2>3, <2>4
<1>6. CarpetsStay
  <2>1. carpet' \in [Carpet -> CarpetRow]
    BY <1>1, <1>5
  <2>2. Known \subseteq Known'
    BY <1>5 DEF Known
  <2>3. \A b \in Barcode : b \in Known' => b \in Known
    BY <1>3, <1>5, CatalogueAssumption DEF Known
  <2> QED
    BY <2>1, <2>2, <2>3 DEF CarpetsStay
<1>7. DOMAIN home \subseteq Barcode /\ \A b \in DOMAIN home : home[b] \in Known'
  <2> SUFFICES ASSUME NEW b \in DOMAIN home PROVE home[b] \in Known'
    BY <1>2
  <2>1. home[b] \in hit /\ home[b] \in Carpet
    BY <1>2 DEF Known, Carpet
  <2> QED
    BY <1>5, <2>1 DEF Known
<1>8. PiecesStay
  BY <1>1, <1>6, <1>7, Shelved
<1>9. /\ UNCHANGED <<syncing, desk, cut, failed>>
      /\ disturbed' = (disturbed \/ syncing)
  BY DEF ImportBatch, Others
<1>10. ShelvesTyped'
  <2>1. /\ failed' \subseteq Barcode /\ cut' \subseteq Barcode
        /\ syncing' \in BOOLEAN /\ desk' \in [Desk -> DeskJob]
    BY <1>9 DEF ShelvesTyped
  <2>2. disturbed' \in BOOLEAN
    BY <1>9
  <2> QED
    BY <1>6, <1>8, <1>9, <2>1, <2>2, ShelvesStay DEF CarpetsStay, PiecesStay
<1> QED
  BY <1>6, <1>8, <1>9, <1>10 DEF Outside, CarpetsStay, PiecesStay

LEMMA OrdersOutside ==
  ASSUME ShelvesTyped, NEW b \in Barcode, Sell(b) \/ GiveBack(b)
  PROVE  Outside
<1>1. PICK from \in OnRecord, to \in OnRecord : MovePiece(b, from, to)
  BY DEF Sell, GiveBack, OnRecord
<1>2. piece[b] # NoPiece
  BY <1>1, PieceFacts DEF MovePiece
<1>3. CarpetsStay /\ PiecesStay
  BY <1>1, <1>2, StatusWritten DEF MovePiece
<1>4. UNCHANGED <<syncing, desk, cut, failed>> /\ disturbed' = (disturbed \/ syncing)
  BY <1>1 DEF MovePiece, Others
<1>5. ShelvesTyped'
  <2>1. /\ failed' \subseteq Barcode /\ cut' \subseteq Barcode
        /\ syncing' \in BOOLEAN /\ desk' \in [Desk -> DeskJob]
    BY <1>4 DEF ShelvesTyped
  <2>2. disturbed' \in BOOLEAN
    BY <1>4
  <2> QED
    BY <1>3, <1>4, <2>1, <2>2, ShelvesStay DEF CarpetsStay, PiecesStay
<1> QED
  BY <1>3, <1>4, <1>5 DEF Outside, CarpetsStay, PiecesStay
(***************************************************************************)
(* The steps of a synchronisation                                          *)
(***************************************************************************)
LEMMA OnlyOne ==
  ASSUME ShelfInv, NEW w \in Desk, Syncs(w)
  PROVE  syncing /\ \A x \in Desk \ {w} : ~Syncs(x)
BY DEF ShelfInv, AloneSyncs

LEMMA RowKinds ==
  ASSUME NEW w
  PROVE  desk[w].kind \in {"row", "piece", "newPiece", "log"} => Syncs(w)
BY DEF Syncs, SyncKinds

LEMMA RowKindsNext ==
  ASSUME NEW w
  PROVE  desk'[w].kind \in {"row", "piece", "newPiece", "log"} => Syncs(w)'
BY DEF Syncs, SyncKinds

\* A step that begins or carries on the one synchronisation.
LEMMA SyncGoesOn ==
  ASSUME ShelfInv, NEW w \in Desk, \A x \in Desk \ {w} : ~Syncs(x),
         NEW d \in DeskJob, Take(w, d) \/ Goto(w, d), d.kind \in SyncKinds,
         syncing' = TRUE, UNCHANGED <<cut, failed>>, disturbed' \in BOOLEAN, PiecesStay,
         carpet' \in [Carpet -> CarpetRow], Known \subseteq Known',
         RowJobOK(w)', CarpetExplained', RowsAt(w)', MatchAt(w)'
  PROVE  ShelfInv'
<1>1. ShelvesTyped
  BY DEF ShelfInv
<1>2. /\ desk' \in [Desk -> DeskJob] /\ desk'[w] = d
      /\ \A x \in Desk \ {w} : desk'[x] = desk[x]
  BY <1>1, DeskMoves
<1>3. Syncs(w)' /\ \A x \in Desk \ {w} : ~Syncs(x)'
  BY <1>2 DEF Syncs
<1>4. DeskOK(w)'
  BY <1>2 DEF DeskOK, SyncKinds
<1>5. ShelvesTyped'
  <2>1. failed' \subseteq Barcode /\ cut' \subseteq Barcode
    BY <1>1 DEF ShelvesTyped
  <2>2. \A x \in Desk : desk'[x] = desk[x] \/ DeskOK(x)'
    BY <1>2, <1>4
  <2> QED
    BY <1>1, <1>2, <2>1, <2>2, ShelvesStay DEF PiecesStay
<1>6. AloneSyncs'
  BY <1>3 DEF AloneSyncs
<1>7. RowsExplained' /\ MatchInv'
  BY <1>3, RowKindsNext DEF RowsExplained, RowsAt, MatchInv, MatchAt
<1>8. SyncFailureExplained'
  BY DEF ShelfInv, FailureInv, SyncFailureExplained
<1> QED
  BY <1>5, <1>6, <1>7, <1>8 DEF ShelfInv, FailureInv

\* A step after which no synchronisation is under way.
LEMMA SyncIsOver ==
  ASSUME ShelfInv, UNCHANGED <<carpet, piece>>, desk' \in [Desk -> DeskJob],
         \A x \in Desk : desk'[x] = desk[x] \/ desk'[x] = Vacant,
         \A x \in Desk : ~Syncs(x)',
         syncing' = FALSE, disturbed' = FALSE,
         failed' \subseteq Barcode, cut' \subseteq Barcode, cut \subseteq cut',
         failed' \subseteq cut',
         \A x \in Desk : desk[x].kind = "newPiece" =>
           desk[x].code \in cut' \/ piece[desk[x].code] # NoPiece
  PROVE  ShelfInv'
<1>1. ShelvesTyped
  BY DEF ShelfInv
<1>2. CarpetsStay /\ PiecesStay
  BY <1>1, CarpetsAlone, PiecesAlone
<1>3. \A x \in Desk : desk'[x] = desk[x] \/ DeskOK(x)'
  BY NoJobOK DEF DeskOK, RowJobOK
<1>4. ShelvesTyped'
  BY <1>1, <1>2, <1>3, ShelvesStay DEF CarpetsStay, PiecesStay
<1>5. AloneSyncs'
  BY DEF AloneSyncs
<1>6. RowsExplained' /\ MatchInv'
  BY RowKindsNext DEF RowsExplained, RowsAt, MatchInv, MatchAt
<1>7. CarpetExplained'
  BY <1>2 DEF CarpetsStay, ShelfInv, FailureInv, CarpetExplained, Pending, NoPiece
<1>8. SyncFailureExplained'
  BY DEF SyncFailureExplained
<1> QED
  BY <1>4, <1>5, <1>6, <1>7, <1>8 DEF ShelfInv, FailureInv

LEMMA FinishKeeps ==
  ASSUME ShelfInv, NEW w \in Desk, Syncs(w), Finish(w),
         UNCHANGED <<carpet, piece>>,
         failed' \subseteq Barcode, cut' \subseteq Barcode, cut \subseteq cut',
         failed' \subseteq cut',
         desk[w].kind = "newPiece" => desk[w].code \in cut'
  PROVE  ShelfInv'
<1>1. ShelvesTyped
  BY DEF ShelfInv
<1>2. Leave(w) /\ syncing' = FALSE /\ disturbed' = FALSE
  BY DEF Finish
<1>3. /\ desk' \in [Desk -> DeskJob] /\ desk'[w] = Vacant
      /\ \A x \in Desk \ {w} : desk'[x] = desk[x]
  BY <1>1, <1>2, NoJobOK, DeskMoves
<1>4. \A x \in Desk \ {w} : ~Syncs(x)
  BY OnlyOne
<1>5. \A x \in Desk : ~Syncs(x)'
  BY <1>3, <1>4, NoJobOK DEF Syncs, SyncKinds
<1>6. \A x \in Desk : desk[x].kind = "newPiece" => desk[x].code \in cut'
  BY <1>4, RowKinds
<1> QED
  BY <1>2, <1>3, <1>5, <1>6, SyncIsOver
LEMMA PendingStays ==
  ASSUME ShelfInv, NEW w \in Desk, desk[w].kind # "newPiece",
         \A x \in Desk \ {w} : desk'[x] = desk[x],
         CarpetsStay, PiecesStay, cut' = cut
  PROVE  CarpetExplained'
<1>1. \A x \in Desk, b \in Barcode : Pending(x, b) => Pending(x, b)'
  BY DEF Pending
<1> QED
  BY <1>1 DEF ShelfInv, FailureInv, CarpetExplained, CarpetsStay, PiecesStay

LEMMA SyncFromExcelStep ==
  ASSUME ShelfInv, NEW w \in Desk, SyncFromExcel(w) PROVE ShelfInv'
<1>1. ShelvesTyped /\ \A x \in Desk : ~Syncs(x)
  BY DEF ShelfInv, AloneSyncs, SyncFromExcel
<1>2. PICK file \in SUBSET Barcode : Take(w, [kind |-> "validate", file |-> file])
  BY DEF SyncFromExcel
<1> DEFINE d == [kind |-> "validate", file |-> file]
<1>3. d \in DeskJob /\ d.kind = "validate" /\ d.kind \in SyncKinds
  BY DEF DeskJob, FileJob, SyncKinds
<1>4. /\ syncing' = TRUE /\ UNCHANGED <<carpet, piece, cut, failed, disturbed>>
  BY DEF SyncFromExcel, syncHistory
<1>5. desk'[w] = d /\ \A x \in Desk \ {w} : desk'[x] = desk[x]
  BY <1>1, <1>2, <1>3, DeskMoves
<1>6. CarpetsStay /\ PiecesStay
  BY <1>1, <1>4, CarpetsAlone, PiecesAlone
<1>7. desk[w].kind # "newPiece"
  BY <1>1, RowKinds
<1>8. CarpetExplained'
  BY <1>4, <1>5, <1>6, <1>7, PendingStays
<1>9. RowJobOK(w)' /\ RowsAt(w)' /\ MatchAt(w)'
  BY <1>3, <1>5 DEF RowJobOK, RowsAt, MatchAt
<1>10. disturbed' \in BOOLEAN
  BY <1>1, <1>4 DEF ShelvesTyped
<1> QED
  BY <1>1, <1>2, <1>3, <1>4, <1>6, <1>8, <1>9, <1>10, SyncGoesOn DEF CarpetsStay

LEMMA PreviewStep ==
  ASSUME ShelfInv, NEW w \in Desk, Preview(w) PROVE ShelfInv'
<1>1. /\ ShelvesTyped /\ desk[w] \in FileJob /\ desk[w].kind = "validate" /\ Syncs(w)
      /\ failed \subseteq Barcode /\ cut \subseteq Barcode /\ failed \subseteq cut
  BY DeskKinds DEF ShelfInv, Preview, At, Syncs, SyncKinds, ShelvesTyped, FailureInv,
     SyncFailureExplained
<1>2. UNCHANGED <<carpet, piece, cut, failed>>
  BY DEF Preview
<1>3. CASE Finish(w)
  BY <1>1, <1>2, <1>3, FinishKeeps
<1>4. CASE /\ Goto(w, [desk[w] EXCEPT !.kind = "load"])
           /\ UNCHANGED <<syncing, disturbed>>
  <2> DEFINE d == [desk[w] EXCEPT !.kind = "load"]
  <2>1. d \in DeskJob /\ d.kind = "load" /\ d.kind \in SyncKinds
    BY <1>1 DEF DeskJob, FileJob, SyncKinds
  <2>2. desk'[w] = d /\ \A x \in Desk \ {w} : desk'[x] = desk[x]
    BY <1>1, <1>4, <2>1, DeskMoves
  <2>3. CarpetsStay /\ PiecesStay
    BY <1>1, <1>2, CarpetsAlone, PiecesAlone
  <2>4. CarpetExplained'
    BY <1>1, <1>2, <2>2, <2>3, PendingStays
  <2>5. RowJobOK(w)' /\ RowsAt(w)' /\ MatchAt(w)'
    BY <2>1, <2>2 DEF RowJobOK, RowsAt, MatchAt
  <2>6. disturbed' \in BOOLEAN /\ syncing' = TRUE
    BY <1>1, <1>4, OnlyOne DEF ShelvesTyped
  <2> QED
    BY <1>1, <1>2, <1>4, <2>1, <2>3, <2>4, <2>5, <2>6, OnlyOne, SyncGoesOn
       DEF CarpetsStay
<1> QED
  BY <1>3, <1>4 DEF Preview

LEMMA LoadStep ==
  ASSUME ShelfInv, NEW w \in Desk, Load(w) PROVE ShelfInv'
<1>1. ShelvesTyped /\ desk[w] \in FileJob /\ desk[w].kind = "load" /\ Syncs(w)
  BY DeskKinds DEF ShelfInv, Load, At, Syncs, SyncKinds
<1> DEFINE d == [kind |-> "row", file |-> desk[w].file, rest |-> desk[w].file,
                 seen |-> piece, images |-> {k \in Carpet : carpet[k].image},
                 code |-> NoCarpet]
<1>2. /\ Goto(w, d) /\ disturbed' = FALSE
      /\ UNCHANGED <<carpet, piece, syncing, cut, failed>>
  BY DEF Load
<1>3. desk[w].file \subseteq Barcode
  BY <1>1 DEF FileJob
<1>4. d \in DeskJob
  BY <1>1, <1>3 DEF DeskJob, RowJob, ShelvesTyped
<1>5. /\ d.kind = "row" /\ d.kind \in SyncKinds /\ d.file = desk[w].file
      /\ d.rest = desk[w].file /\ d.seen = piece
  BY DEF SyncKinds
<1>6. desk'[w] = d /\ \A x \in Desk \ {w} : desk'[x] = desk[x]
  BY <1>1, <1>2, <1>4, DeskMoves
<1> HIDE DEF d
<1>7. CarpetsStay /\ PiecesStay
  BY <1>1, <1>2, CarpetsAlone, PiecesAlone
<1>8. CarpetExplained'
  BY <1>1, <1>2, <1>6, <1>7, PendingStays
<1>9. RowJobOK(w)'
  BY <1>2, <1>5, <1>6, <1>7 DEF RowJobOK, PiecesStay, NoPiece
<1>10. RowsAt(w)'
  <2> SUFFICES ASSUME NEW b \in desk[w].file, piece[b] = NoPiece, b \in Known
               PROVE  b \in cut
    BY <1>2, <1>5, <1>6, <1>7 DEF RowsAt, NoPiece, Known
  <2>1. b \in Barcode /\ \A x \in Desk : ~Pending(x, b)
    BY <1>1, <1>3, OnlyOne, RowKinds DEF Pending
  <2> QED
    BY <2>1 DEF ShelfInv, FailureInv, CarpetExplained
<1>11. MatchAt(w)'
  BY <1>2, <1>5, <1>6 DEF MatchAt, ToGo
<1>12. disturbed' \in BOOLEAN /\ syncing' = TRUE
  BY <1>1, <1>2, OnlyOne
<1> QED
  BY <1>1, <1>2, <1>4, <1>5, <1>7, <1>8, <1>9, <1>10, <1>11, <1>12, OnlyOne,
     SyncGoesOn DEF CarpetsStay

\* The job that a row leads to.
LEMMA RowTaken ==
  ASSUME ShelfInv, NEW w \in Desk, NEW b \in Barcode, At(w, "row"), b \in desk[w].rest,
         NEW kind \in {"piece", "newPiece"}, ToPiece(w, kind, b)
  PROVE  /\ Syncs(w) /\ desk[w] \in RowJob /\ RowJobOK(w)
         /\ [desk[w] EXCEPT !.kind = kind, !.rest = @ \ {b}, !.code = b] \in DeskJob
         /\ desk'[w].kind = kind /\ desk'[w].file = desk[w].file
         /\ desk'[w].rest = desk[w].rest \ {b} /\ desk'[w].seen = desk[w].seen
         /\ desk'[w].code = b
         /\ desk'[w] = [desk[w] EXCEPT !.kind = kind, !.rest = @ \ {b}, !.code = b]
         /\ \A x \in Desk \ {w} : desk'[x] = desk[x]
<1>1. ShelvesTyped /\ desk[w] \in RowJob /\ desk[w].kind = "row"
  BY DeskKinds DEF ShelfInv, At
<1>2. Syncs(w) /\ RowJobOK(w)
  BY <1>1, RowKinds DEF ShelvesTyped, DeskOK
<1> DEFINE d == [desk[w] EXCEPT !.kind = kind, !.rest = @ \ {b}, !.code = b]
<1>3. /\ d \in RowJob /\ d.kind = kind /\ d.file = desk[w].file
      /\ d.rest = desk[w].rest \ {b} /\ d.seen = desk[w].seen /\ d.code = b
  BY <1>1 DEF RowJob
<1>4. d \in DeskJob
  BY <1>3 DEF DeskJob
<1>5. desk'[w] = d /\ \A x \in Desk \ {w} : desk'[x] = desk[x]
  BY <1>1, <1>4, DeskMoves DEF ToPiece
<1> QED
  BY <1>1, <1>2, <1>3, <1>4, <1>5

LEMMA UpdateRowStep ==
  ASSUME ShelfInv, NEW w \in Desk, NEW b \in Barcode, UpdateRow(w, b) PROVE ShelfInv'
<1> DEFINE k == desk[w].seen[b].carpet
           d == [desk[w] EXCEPT !.kind = "piece", !.rest = @ \ {b}, !.code = b]
<1>1. /\ desk[w].kind = "row" /\ b \in desk[w].rest /\ desk[w].seen[b] # NoPiece
      /\ ToPiece(w, "piece", b) /\ At(w, "row")
      /\ UNCHANGED <<piece, syncing, cut, failed, disturbed>>
  BY SMTT(60) DEF UpdateRow, At, syncHistory
<1>2. /\ Syncs(w) /\ desk[w] \in RowJob /\ RowJobOK(w) /\ d \in DeskJob
      /\ desk'[w].kind = "piece" /\ desk'[w].file = desk[w].file
      /\ desk'[w].rest = desk[w].rest \ {b} /\ desk'[w].seen = desk[w].seen
      /\ desk'[w].code = b /\ desk'[w] = d
      /\ \A x \in Desk \ {w} : desk'[x] = desk[x]
  BY <1>1, RowTaken
<1> HIDE DEF d
<1>3. ShelvesTyped
  BY DEF ShelfInv
<1>4. k \in Known
  BY <1>1, <1>2 DEF RowJobOK, PieceOK
<1>5. CarpetsStay
  <2>1. PICK design \in Designs :
          carpet' = [carpet EXCEPT ![k].state = "listed",
                                   ![k].image = k \in desk[w].images \/ design]
    BY DEF UpdateRow
  <2> DEFINE image == k \in desk[w].images \/ design
             r == [[carpet[k] EXCEPT !.state = "listed"] EXCEPT !.image = image]
  <2>2. carpet[k] \in CarpetRow /\ k \in Carpet /\ image \in BOOLEAN
    BY <1>3, <1>4 DEF ShelvesTyped, Known
  <2>3. r \in CarpetRow /\ r.state # "none"
    BY <2>2 DEF CarpetRow
  <2>4. carpet' = [carpet EXCEPT ![k] = r]
    BY <2>1, <2>2 DEF ShelvesTyped
  <2> QED
    BY <1>3, <1>4, <2>2, <2>3, <2>4, CarpetWritten
<1>6. PiecesStay
  BY <1>1, <1>3, <1>5, PiecesAlone
<1>7. CarpetExplained'
  BY <1>1, <1>2, <1>5, <1>6, PendingStays
<1>8. RowJobOK(w)'
  <2>1. \A x \in Barcode : PieceOK(desk[w].seen[x])'
    BY <1>1, <1>2, <1>5 DEF RowJobOK, PieceOK, CarpetsStay, NoPiece
  <2> QED
    BY <1>1, <1>2, <2>1 DEF RowJobOK, PieceOK, NoPiece
<1>9. RowsAt(w)'
  <2>1. RowsAt(w) /\ desk[w].rest \subseteq Barcode
    BY <1>2 DEF ShelfInv, FailureInv, RowsExplained, RowJob
  <2> QED
    BY <1>1, <1>2, <1>5, <2>1 DEF RowsAt, CarpetsStay, NoPiece
<1>10. MatchAt(w)'
  <2>1. MatchAt(w) /\ ToGo(w)' = ToGo(w)
    BY <1>1, <1>2 DEF ShelfInv, MatchInv, ToGo
  <2> QED
    BY <1>1, <1>2, <2>1 DEF MatchAt
<1>11. disturbed' \in BOOLEAN /\ syncing' = TRUE
  BY <1>1, <1>2, <1>3, OnlyOne DEF ShelvesTyped
<1>12. Goto(w, d) /\ d.kind \in SyncKinds
  BY <1>1, <1>2 DEF ToPiece, SyncKinds, d
<1> QED
  BY <1>1, <1>2, <1>5, <1>6, <1>7, <1>8, <1>9, <1>10, <1>11, <1>12, OnlyOne,
     SyncGoesOn DEF CarpetsStay
\* The job that goes on to the next row.
LEMMA RowDone ==
  ASSUME ShelfInv, NEW w \in Desk, desk[w].kind \in {"piece", "newPiece"},
         Goto(w, [desk[w] EXCEPT !.kind = "row", !.code = NoCarpet])
  PROVE  /\ Syncs(w) /\ desk[w] \in RowJob /\ RowJobOK(w)
         /\ [desk[w] EXCEPT !.kind = "row", !.code = NoCarpet] \in DeskJob
         /\ desk'[w].kind = "row" /\ desk'[w].file = desk[w].file
         /\ desk'[w].rest = desk[w].rest /\ desk'[w].seen = desk[w].seen
         /\ desk'[w] = [desk[w] EXCEPT !.kind = "row", !.code = NoCarpet]
         /\ \A x \in Desk \ {w} : desk'[x] = desk[x]
<1>1. ShelvesTyped /\ desk[w] \in RowJob
  BY DeskKinds DEF ShelfInv
<1>2. Syncs(w) /\ RowJobOK(w)
  BY <1>1, RowKinds DEF ShelvesTyped, DeskOK
<1> DEFINE d == [desk[w] EXCEPT !.kind = "row", !.code = NoCarpet]
<1>3. /\ d \in RowJob /\ d.kind = "row" /\ d.file = desk[w].file
      /\ d.rest = desk[w].rest /\ d.seen = desk[w].seen
  BY <1>1 DEF RowJob
<1>4. d \in DeskJob
  BY <1>3 DEF DeskJob
<1>5. desk'[w] = d /\ \A x \in Desk \ {w} : desk'[x] = desk[x]
  BY <1>1, <1>4, DeskMoves
<1> QED
  BY <1>1, <1>2, <1>3, <1>4, <1>5

\* What is to go of a file when a row is done.
LEMMA ToGoDone ==
  ASSUME NEW w, desk[w].kind \in {"piece", "newPiece"}, desk[w] \in RowJob, RowJobOK(w),
         desk'[w].kind = "row", desk'[w].rest = desk[w].rest
  PROVE  /\ ToGo(w) = desk[w].rest \cup {desk[w].code}
         /\ ToGo(w)' = desk[w].rest
         /\ desk[w].code \in desk[w].file /\ desk[w].code \notin desk[w].rest
         /\ desk[w].code \in Barcode
BY DEF ToGo, RowJobOK, RowJob

LEMMA UpdatePieceStep ==
  ASSUME ShelfInv, NEW w \in Desk, UpdatePiece(w) PROVE ShelfInv'
<1> DEFINE b == desk[w].code
           d == [desk[w] EXCEPT !.kind = "row", !.code = NoCarpet]
<1>1. /\ desk[w].kind = "piece" /\ SetPieces({b}, "ACTIVE") /\ Goto(w, d)
      /\ UNCHANGED <<carpet, syncing, cut, failed, disturbed>>
  BY DEF UpdatePiece, At, syncHistory
<1>2. /\ Syncs(w) /\ desk[w] \in RowJob /\ RowJobOK(w) /\ d \in DeskJob
      /\ desk'[w].kind = "row" /\ desk'[w].file = desk[w].file
      /\ desk'[w].rest = desk[w].rest /\ desk'[w].seen = desk[w].seen
      /\ desk'[w] = d
      /\ \A x \in Desk \ {w} : desk'[x] = desk[x]
  BY <1>1, RowDone
<1> HIDE DEF d
<1>3. ShelvesTyped /\ CarpetsStay
  BY <1>1, CarpetsAlone DEF ShelfInv
<1>4. b \in Barcode /\ piece[b] # NoPiece
  BY <1>1, <1>2, ToGoDone DEF RowJobOK
<1>5. /\ PiecesStay /\ piece'[b].status = "ACTIVE"
      /\ \A x \in Barcode \ {b} : piece'[x] = piece[x]
  <2> DEFINE bs == {b}
  <2>1. /\ bs \in SUBSET Barcode /\ "ACTIVE" \in OnRecord
        /\ \A x \in bs : piece[x] # NoPiece
    BY <1>4 DEF OnRecord
  <2>2. SetPieces(bs, "ACTIVE") /\ Known \subseteq Known'
    BY <1>1, <1>3 DEF CarpetsStay
  <2>3. b \in bs /\ \A x \in Barcode : x # b => x \in Barcode \ bs
    OBVIOUS
  <2> HIDE DEF bs
  <2>4. /\ PiecesStay /\ \A x \in bs : piece'[x].status = "ACTIVE"
        /\ \A x \in Barcode \ bs : piece'[x] = piece[x]
    BY <1>3, <2>1, <2>2, SetPiecesEffect DEF PiecesStay
  <2> QED
    BY <2>3, <2>4
<1>6. CarpetExplained'
  BY <1>1, <1>2, <1>3, <1>5, PendingStays
<1>7. RowJobOK(w)'
  <2>1. \A x \in Barcode : PieceOK(desk[w].seen[x])'
    BY <1>1, <1>2, <1>3 DEF RowJobOK, PieceOK, CarpetsStay, NoPiece
  <2> QED
    BY <1>1, <1>2, <1>5, <2>1 DEF RowJobOK, PieceOK, NoPiece, PiecesStay
<1>8. RowsAt(w)'
  <2>1. RowsAt(w) /\ desk[w].rest \subseteq Barcode
    BY <1>2 DEF ShelfInv, FailureInv, RowsExplained, RowJob
  <2> QED
    BY <1>1, <1>2, <1>3, <2>1 DEF RowsAt, CarpetsStay, NoPiece
<1>9. MatchAt(w)'
  <2>1. MatchAt(w)
    BY DEF ShelfInv, MatchInv
  <2>2. /\ ToGo(w) = desk[w].rest \cup {b} /\ ToGo(w)' = desk[w].rest
        /\ b \in desk[w].file /\ b \notin desk[w].rest
    BY <1>1, <1>2, ToGoDone
  <2>3. SUFFICES ASSUME ~disturbed, NEW x \in Barcode
                 PROVE  IF x \in desk[w].file \ desk[w].rest
                        THEN piece'[x].status = "ACTIVE"
                        ELSE piece'[x].status = desk[w].seen[x].status
    BY <1>1, <1>2, <2>2 DEF MatchAt
  <2>4. CASE x = b
    BY <1>5, <2>2, <2>4
  <2>5. CASE x # b
    BY <1>1, <1>5, <2>1, <2>2, <2>3, <2>5 DEF MatchAt
  <2> QED
    BY <2>4, <2>5
<1>10. disturbed' \in BOOLEAN /\ syncing' = TRUE
  BY <1>1, <1>2, <1>3, OnlyOne DEF ShelvesTyped
<1>11. d.kind \in SyncKinds
  BY <1>2 DEF SyncKinds
<1> QED
  BY <1>1, <1>2, <1>3, <1>5, <1>6, <1>7, <1>8, <1>9, <1>10, <1>11, OnlyOne,
     SyncGoesOn DEF CarpetsStay

LEMMA InsertRowStep ==
  ASSUME ShelfInv, NEW w \in Desk, NEW b \in Barcode, InsertRow(w, b) PROVE ShelfInv'
<1>1. /\ desk[w].kind = "row" /\ At(w, "row") /\ b \in desk[w].rest
      /\ desk[w].seen[b] = NoPiece /\ UNCHANGED <<piece, cut>>
  BY DEF InsertRow, At
<1>2. ShelvesTyped /\ Syncs(w) /\ RowsAt(w)
  BY <1>1, RowKinds DEF ShelfInv, FailureInv, RowsExplained
<1>3. CASE b \in Known
  <2>1. failed' = failed \cup {b} /\ Finish(w) /\ UNCHANGED carpet
    BY <1>3 DEF InsertRow
  <2>2. b \in cut
    BY <1>1, <1>2, <1>3 DEF RowsAt
  <2>3. failed \subseteq Barcode /\ cut \subseteq Barcode /\ failed \subseteq cut
    BY <1>2 DEF ShelfInv, FailureInv, SyncFailureExplained, ShelvesTyped
  <2> QED
    BY <1>1, <1>2, <2>1, <2>2, <2>3, FinishKeeps
<1>4. CASE b \notin Known
  <2> DEFINE d == [desk[w] EXCEPT !.kind = "newPiece", !.rest = @ \ {b}, !.code = b]
  <2>1. PICK design \in Designs :
          carpet' = [carpet EXCEPT ![b] = [state |-> "listed", image |-> design]]
    BY <1>4 DEF InsertRow
  <2>2. ToPiece(w, "newPiece", b) /\ UNCHANGED <<syncing, disturbed, failed>>
    BY <1>4, SMTT(60) DEF InsertRow
  <2>3. /\ desk[w] \in RowJob /\ RowJobOK(w) /\ d \in DeskJob
        /\ desk'[w].kind = "newPiece" /\ desk'[w].file = desk[w].file
        /\ desk'[w].rest = desk[w].rest \ {b} /\ desk'[w].seen = desk[w].seen
        /\ desk'[w].code = b /\ desk'[w] = d
        /\ \A x \in Desk \ {w} : desk'[x] = desk[x]
    BY <1>1, <2>2, RowTaken
  <2> HIDE DEF d
  <2>4. design \in BOOLEAN /\ b \in Carpet
    BY CatalogueAssumption DEF Carpet
  <2>5. /\ carpet'[b] = [state |-> "listed", image |-> design]
        /\ \A x \in Carpet \ {b} : carpet'[x] = carpet[x]
    BY <1>2, <2>1, <2>4 DEF ShelvesTyped
  <2>6. carpet' \in [Carpet -> CarpetRow]
    BY <1>2, <2>1, <2>4 DEF ShelvesTyped, CarpetRow
  <2>7. Known' = Known \cup {b}
    BY <2>4, <2>5 DEF Known
  <2>8. PiecesStay
    BY <1>1, <1>2, <2>7 DEF ShelvesTyped, PiecesStay, PieceOK, NoPiece
  <2>9. CarpetExplained'
    <3>1. \A x \in Desk, y \in Barcode : Pending(x, y) => Pending(x, y)'
      BY <1>1, <2>3 DEF Pending
    <3>2. Pending(w, b)'
      BY <2>3 DEF Pending
    <3> QED
      BY <1>1, <2>7, <3>1, <3>2 DEF ShelfInv, FailureInv, CarpetExplained, NoPiece
  <2>10. RowJobOK(w)'
    <3>1. \A x \in Barcode : PieceOK(desk[w].seen[x])'
      BY <1>1, <2>3, <2>7 DEF RowJobOK, PieceOK, NoPiece
    <3> QED
      BY <1>1, <2>3, <2>7, <3>1 DEF RowJobOK, NoPiece
  <2>11. RowsAt(w)'
    BY <1>1, <1>2, <2>3, <2>7 DEF RowsAt, NoPiece
  <2>12. MatchAt(w)'
    <3>1. MatchAt(w) /\ ToGo(w)' = ToGo(w)
      BY <1>1, <2>3 DEF ShelfInv, MatchInv, ToGo
    <3> QED
      BY <1>1, <2>2, <2>3, <3>1 DEF MatchAt
  <2>13. disturbed' \in BOOLEAN /\ syncing' = TRUE
    BY <1>2, <2>2, OnlyOne DEF ShelvesTyped
  <2>14. Goto(w, d) /\ d.kind \in SyncKinds
    BY <2>2, <2>3 DEF ToPiece, SyncKinds, d
  <2> QED
    BY <1>1, <1>2, <2>2, <2>3, <2>6, <2>7, <2>8, <2>9, <2>10, <2>11, <2>12, <2>13,
       <2>14, OnlyOne, SyncGoesOn
<1> QED
  BY <1>3, <1>4

LEMMA InsertPieceStep ==
  ASSUME ShelfInv, NEW w \in Desk, InsertPiece(w) PROVE ShelfInv'
<1> DEFINE b == desk[w].code
           d == [desk[w] EXCEPT !.kind = "row", !.code = NoCarpet]
<1>1. desk[w].kind = "newPiece" /\ UNCHANGED <<carpet, failed>>
  BY DEF InsertPiece, At
<1>2. ShelvesTyped /\ Syncs(w) /\ desk[w] \in RowJob /\ RowJobOK(w)
  BY <1>1, RowKinds, DeskKinds DEF ShelfInv, ShelvesTyped, DeskOK
<1>3. b \in Barcode /\ b \in Known
  BY <1>1, <1>2 DEF RowJobOK, RowJob
<1>4. CASE piece[b] # NoPiece
  <2>1. cut' = cut \cup {b} /\ Finish(w) /\ UNCHANGED piece
    BY <1>4, Zenon DEF InsertPiece
  <2>2. failed \subseteq Barcode /\ cut \subseteq Barcode /\ failed \subseteq cut
    BY <1>2 DEF ShelfInv, FailureInv, SyncFailureExplained, ShelvesTyped
  <2> QED
    BY <1>1, <1>2, <1>3, <2>1, <2>2, FinishKeeps
<1>5. CASE piece[b] = NoPiece
  <2> DEFINE home == [x \in {b} |-> b]
  <2>1. Shelve(home) /\ Goto(w, d) /\ UNCHANGED <<syncing, disturbed, cut>>
    BY <1>5, Zenon DEF InsertPiece
  <2>2. /\ d \in DeskJob
        /\ desk'[w].kind = "row" /\ desk'[w].file = desk[w].file
        /\ desk'[w].rest = desk[w].rest /\ desk'[w].seen = desk[w].seen
        /\ desk'[w] = d
        /\ \A x \in Desk \ {w} : desk'[x] = desk[x]
    BY <1>1, <2>1, RowDone
  <2> HIDE DEF d
  <2>3. CarpetsStay
    BY <1>1, <1>2, CarpetsAlone
  <2>4. DOMAIN home \subseteq Barcode /\ DOMAIN home = {b}
        /\ \A x \in DOMAIN home : home[x] \in Known'
    BY <1>3, <2>3 DEF CarpetsStay
  <2> HIDE DEF home
  <2>5. /\ PiecesStay /\ piece'[b].status = "ACTIVE" /\ piece'[b] # NoPiece
        /\ \A x \in Barcode \ {b} : piece'[x] = piece[x]
    BY <1>2, <2>1, <2>3, <2>4, ShelveEffect DEF PiecesStay, CarpetsStay
  <2>6. CarpetExplained'
    <3>1. \A x \in Desk, y \in Barcode \ {b} : Pending(x, y) => Pending(x, y)'
      BY <2>2 DEF Pending
    <3>2. SUFFICES ASSUME NEW y \in Barcode, y \in Known', y # b
                   PROVE  \/ y \in cut' \/ piece'[y] # NoPiece
                          \/ \E x \in Desk : Pending(x, y)'
      BY <2>5 DEF CarpetExplained, NoPiece
    <3>3. y \in cut \/ piece[y] # NoPiece \/ \E x \in Desk : Pending(x, y)
      BY <2>3, <3>2 DEF ShelfInv, FailureInv, CarpetExplained, CarpetsStay
    <3> QED
      BY <2>1, <2>5, <3>1, <3>2, <3>3 DEF PiecesStay
  <2>7. RowJobOK(w)'
    <3>1. \A x \in Barcode : PieceOK(desk[w].seen[x])'
      BY <1>1, <1>2, <2>2, <2>3 DEF RowJobOK, PieceOK, CarpetsStay, NoPiece
    <3> QED
      BY <1>1, <1>2, <2>2, <2>5, <3>1 DEF RowJobOK, NoPiece, PiecesStay
  <2>8. RowsAt(w)'
    <3>1. RowsAt(w) /\ desk[w].rest \subseteq Barcode
      BY <1>2 DEF ShelfInv, FailureInv, RowsExplained, RowJob
    <3> QED
      BY <1>1, <2>1, <2>2, <2>3, <3>1 DEF RowsAt, CarpetsStay, NoPiece
  <2>9. MatchAt(w)'
    <3>1. MatchAt(w)
      BY DEF ShelfInv, MatchInv
    <3>2. /\ ToGo(w) = desk[w].rest \cup {b} /\ ToGo(w)' = desk[w].rest
          /\ b \in desk[w].file /\ b \notin desk[w].rest
      BY <1>1, <1>2, <2>2, ToGoDone
    <3>3. SUFFICES ASSUME ~disturbed, NEW x \in Barcode
                   PROVE  IF x \in desk[w].file \ desk[w].rest
                          THEN piece'[x].status = "ACTIVE"
                          ELSE piece'[x].status = desk[w].seen[x].status
      BY <2>1, <2>2, <3>2 DEF MatchAt
    <3>4. CASE x = b
      BY <2>5, <3>2, <3>4
    <3>5. CASE x # b
      BY <1>1, <2>5, <3>1, <3>2, <3>3, <3>5 DEF MatchAt
    <3> QED
      BY <3>4, <3>5
  <2>10. disturbed' \in BOOLEAN /\ syncing' = TRUE
    BY <1>2, <2>1, OnlyOne DEF ShelvesTyped
  <2>11. d.kind \in SyncKinds
    BY <2>2 DEF SyncKinds
  <2> QED
    BY <1>1, <1>2, <2>1, <2>2, <2>3, <2>5, <2>6, <2>7, <2>8, <2>9, <2>10, <2>11,
       OnlyOne, SyncGoesOn DEF CarpetsStay
<1> QED
  BY <1>4, <1>5
LEMMA ArchiveMissingStep ==
  ASSUME ShelfInv, NEW w \in Desk, ArchiveMissing(w) PROVE ShelfInv'
<1> DEFINE seen == desk[w].seen
           bs == {b \in Barcode \ desk[w].file : seen[b].status = "ACTIVE"}
           d == [kind |-> "log", file |-> desk[w].file]
<1>1. /\ desk[w].kind = "row" /\ desk[w].rest = {}
      /\ SetPieces(bs, "ARCHIVED") /\ Goto(w, d)
      /\ UNCHANGED <<carpet, syncing, cut, failed, disturbed>>
  BY DEF ArchiveMissing, At, syncHistory
<1>2. ShelvesTyped /\ Syncs(w) /\ desk[w] \in RowJob /\ RowJobOK(w) /\ MatchAt(w)
  BY <1>1, RowKinds, DeskKinds DEF ShelfInv, ShelvesTyped, DeskOK, MatchInv
<1>3. CarpetsStay
  BY <1>1, <1>2, CarpetsAlone
<1>4. /\ bs \in SUBSET Barcode /\ "ARCHIVED" \in OnRecord
      /\ \A b \in bs : piece[b] # NoPiece
  <2>1. NoPiece.status # "ACTIVE"
    BY DEF NoPiece
  <2>2. \A b \in Barcode : seen[b] # NoPiece => piece[b] # NoPiece
    BY <1>1, <1>2 DEF RowJobOK
  <2> QED
    BY <2>1, <2>2 DEF OnRecord
<1>5. \A b \in Barcode : b \in bs <=> b \notin desk[w].file /\ seen[b].status = "ACTIVE"
  OBVIOUS
<1> HIDE DEF bs
<1>6. /\ PiecesStay /\ \A b \in bs : piece'[b].status = "ARCHIVED"
      /\ \A b \in Barcode \ bs : piece'[b] = piece[b]
  BY <1>1, <1>2, <1>3, <1>4, SetPiecesEffect DEF PiecesStay, CarpetsStay
<1>7. d \in DeskJob /\ d.kind = "log" /\ d.file = desk[w].file
  BY <1>2 DEF DeskJob, FileJob, RowJob
<1>8. desk'[w] = d /\ \A x \in Desk \ {w} : desk'[x] = desk[x]
  BY <1>1, <1>2, <1>7, DeskMoves
<1> HIDE DEF d
<1>9. CarpetExplained'
  BY <1>1, <1>3, <1>6, <1>8, PendingStays
<1>10. RowJobOK(w)' /\ RowsAt(w)'
  BY <1>7, <1>8 DEF RowJobOK, RowsAt
<1>11. MatchAt(w)'
  <2>1. SUFFICES ASSUME ~disturbed, NEW b \in Barcode
                 PROVE  piece'[b].status = "ACTIVE" <=> b \in desk[w].file
    BY <1>1, <1>7, <1>8 DEF MatchAt
  <2>2. IF b \in desk[w].file THEN piece[b].status = "ACTIVE"
        ELSE piece[b].status = seen[b].status
    BY <1>1, <1>2, <2>1 DEF MatchAt, ToGo
  <2> QED
    BY <1>5, <1>6, <2>2
<1>12. disturbed' \in BOOLEAN /\ syncing' = TRUE
  BY <1>1, <1>2, OnlyOne DEF ShelvesTyped
<1>13. d.kind \in SyncKinds
  BY <1>7 DEF SyncKinds
<1> QED
  BY <1>1, <1>2, <1>3, <1>6, <1>7, <1>9, <1>10, <1>11, <1>12, <1>13, OnlyOne,
     SyncGoesOn DEF CarpetsStay

LEMMA CompleteSyncJobStep ==
  ASSUME ShelfInv, NEW w \in Desk, CompleteSyncJob(w) PROVE ShelfInv'
<1>1. /\ desk[w].kind = "log" /\ Finish(w) /\ UNCHANGED <<carpet, piece, cut, failed>>
  BY DEF CompleteSyncJob, At
<1>2. /\ Syncs(w) /\ failed \subseteq Barcode /\ cut \subseteq Barcode
      /\ failed \subseteq cut
  BY <1>1, RowKinds DEF ShelfInv, ShelvesTyped, FailureInv, SyncFailureExplained
<1> QED
  BY <1>1, <1>2, FinishKeeps

LEMMA RestartDeskStep ==
  ASSUME ShelfInv, RestartDesk PROVE ShelfInv'
<1>1. /\ desk' = [w \in Desk |-> Vacant] /\ syncing' = FALSE /\ disturbed' = FALSE
      /\ cut' = cut \cup {desk[w].code : w \in {x \in Desk : At(x, "newPiece")}}
      /\ UNCHANGED <<carpet, piece, failed>>
  BY DEF RestartDesk
<1>2. desk' \in [Desk -> DeskJob] /\ \A x \in Desk : desk'[x] = Vacant /\ ~Syncs(x)'
  BY <1>1, NoJobOK DEF Syncs, SyncKinds
<1>3. failed \subseteq Barcode /\ cut \subseteq Barcode /\ failed \subseteq cut
  BY DEF ShelfInv, ShelvesTyped, FailureInv, SyncFailureExplained
<1>4. \A x \in Desk : desk[x].kind = "newPiece" => desk[x].code \in Barcode
  <2> TAKE x \in Desk
  <2> HAVE desk[x].kind = "newPiece"
  <2>1. RowJobOK(x) /\ desk[x] \in RowJob
    BY DeskKinds DEF ShelfInv, ShelvesTyped, DeskOK
  <2> QED
    BY <2>1 DEF RowJobOK, RowJob
<1>5. cut' \subseteq Barcode /\ cut \subseteq cut' /\ failed' \subseteq cut'
  BY <1>1, <1>3, <1>4 DEF At
<1>6. \A x \in Desk : desk[x].kind = "newPiece" => desk[x].code \in cut'
  BY <1>1 DEF At
<1> QED
  BY <1>1, <1>2, <1>3, <1>5, <1>6, SyncIsOver

LEMMA InitShelves == CatalogueInit => ShelfInv
<1> SUFFICES ASSUME CatalogueInit PROVE ShelfInv
  OBVIOUS
<1>1. \A w \in Desk : desk[w] = Vacant /\ ~Syncs(w)
  BY NoJobOK DEF CatalogueInit, Syncs, SyncKinds
<1>2. ShelvesTyped
  <2>1. carpet \in [Carpet -> CarpetRow] /\ piece \in [Barcode -> AnyPiece]
    BY DEF CatalogueInit, CarpetRow, NoRow, AnyPiece, NoPiece
  <2>2. \A b \in Barcode : PieceOK(piece[b])
    BY DEF CatalogueInit, PieceOK
  <2>3. desk \in [Desk -> DeskJob] /\ \A w \in Desk : DeskOK(w)
    BY <1>1, NoJobOK DEF CatalogueInit, DeskOK, RowJobOK
  <2> QED
    BY <2>1, <2>2, <2>3 DEF CatalogueInit, ShelvesTyped
<1>3. AloneSyncs
  BY <1>1 DEF CatalogueInit, AloneSyncs
<1>4. Known = {}
  BY DEF CatalogueInit, Known, NoRow
<1>5. FailureInv
  BY <1>1, <1>4, NoJobOK
     DEF CatalogueInit, FailureInv, CarpetExplained, RowsExplained, RowsAt,
         SyncFailureExplained
<1>6. MatchInv
  BY <1>1, NoJobOK DEF MatchInv, MatchAt
<1> QED
  BY <1>2, <1>3, <1>5, <1>6 DEF ShelfInv

LEMMA NextShelves == ShelfInv /\ [CatalogueNext]_<<catalogueVars, uses>> => ShelfInv'
<1> SUFFICES ASSUME ShelfInv, [CatalogueNext]_<<catalogueVars, uses>> PROVE ShelfInv'
  OBVIOUS
<1>0. ShelvesTyped
  BY DEF ShelfInv
<1>1. CASE UNCHANGED <<catalogueVars, uses>>
  BY <1>1 DEF catalogueVars, ShelfInv, ShelvesTyped, DeskOK, RowJobOK, PieceOK,
     AloneSyncs, Syncs, FailureInv, CarpetExplained, Pending, RowsExplained, RowsAt,
     SyncFailureExplained, MatchInv, MatchAt, ToGo, Known
<1>2. CASE Edits
  BY <1>0, <1>2, EditsOutside, OutsideKeeps
<1>3. CASE \E items \in SUBSET Barcode : ImportBatch(items)
  BY <1>0, <1>3, ImportOutside, OutsideKeeps
<1>4. CASE \E b \in Barcode : Sell(b) \/ GiveBack(b)
  BY <1>0, <1>4, OrdersOutside, OutsideKeeps
<1>5. CASE \E w \in Desk : SyncFromExcel(w)
  BY <1>5, SyncFromExcelStep
<1>6. ASSUME NEW w \in Desk, SyncStep(w) PROVE ShelfInv'
  BY <1>6, PreviewStep, LoadStep, UpdatePieceStep, InsertPieceStep, UpdateRowStep,
     InsertRowStep, ArchiveMissingStep, CompleteSyncJobStep DEF SyncStep
<1>7. CASE RestartDesk
  BY <1>7, RestartDeskStep
<1> QED
  BY <1>1, <1>2, <1>3, <1>4, <1>5, <1>6, <1>7 DEF CatalogueNext

LEMMA ShelvesKept == CatalogueSpec => []ShelfInv
BY InitShelves, NextShelves, PTL DEF CatalogueSpec

\* Two synchronisations never run at the same time, whoever starts them.
THEOREM SyncsRunAlone == CatalogueSpec => []OneSyncAtATime
<1>1. ShelfInv => OneSyncAtATime
  <2> SUFFICES ASSUME ShelfInv PROVE OneSyncAtATime
    OBVIOUS
  <2>1. syncing <=> Running # {}
    BY DEF ShelfInv, AloneSyncs, Running, Syncs
  <2>2. Cardinality(Running) <= 1
    <3>1. CASE Running = {}
      BY <3>1, FS_EmptySet
    <3>2. CASE Running # {}
      <4>1. PICK w \in Desk : Running = {w}
        BY <3>2 DEF ShelfInv, AloneSyncs, Running, Syncs
      <4> QED
        BY <4>1, FS_Singleton
    <3> QED
      BY <3>1, <3>2
  <2> QED
    BY <2>1, <2>2 DEF OneSyncAtATime
<1> QED
  BY <1>1, ShelvesKept, PTL

\* When a synchronisation has gone through its file and nobody else touched the
\* shelves meanwhile, what is on sale is what the file names.
THEOREM ShelvesMatchTheFile == CatalogueSpec => []SyncMatchesFile
<1>1. ShelfInv => SyncMatchesFile
  <2> SUFFICES ASSUME ShelfInv, NEW w \in Desk, At(w, "log"), ~disturbed
               PROVE  {b \in Barcode : piece[b].status = "ACTIVE"} = desk[w].file
    BY DEF SyncMatchesFile
  <2>1. \A b \in Barcode : piece[b].status = "ACTIVE" <=> b \in desk[w].file
    BY DEF ShelfInv, MatchInv, MatchAt, At
  <2>2. desk[w].file \subseteq Barcode
    BY DeskKinds DEF ShelfInv, At, FileJob
  <2> QED
    BY <2>1, <2>2
<1> QED
  BY <1>1, ShelvesKept, PTL

\* A synchronisation fails at a row only because an earlier one was cut short,
\* or met a barcode somebody created meanwhile, after it had created the carpet
\* of that row and before it had created the piece.
THEOREM FailuresAreExplained == CatalogueSpec => []SyncFailureExplained
<1>1. ShelfInv => SyncFailureExplained
  BY DEF ShelfInv, FailureInv
<1> QED
  BY <1>1, ShelvesKept, PTL

(***************************************************************************)
(* The parts together                                                      *)
(***************************************************************************)

\* The shelves, and what the shop shows of them, behave in the composition as
\* they do alone.
THEOREM PartsStandAlone == Spec => CatalogueSpec /\ ListingsSpec
<1>1. Init => CatalogueInit /\ ListingsInit
  BY DEF Init
<1>2. [Next /\ UNCHANGED part]_vars
        => [CatalogueNext]_<<catalogueVars, uses>> /\ [ListingsNext]_<<listingVars, part>>
  BY DEF Next, vars
<1> QED
  BY <1>1, <1>2, PTL DEF Spec, CatalogueSpec, ListingsSpec

\* Everything the shop window is made of has its type, whatever interleaves.
THEOREM WindowTyped == Spec => []ShopWindowTypeOK
<1>1. ShelfInv => CatalogueTypeOK
  BY DEF ShelfInv, ShelvesTyped, CatalogueTypeOK, CarpetRow, PieceOK, OnRecord
<1>2. FreshInv => ListingsTypeOK
  BY DEF FreshInv, VisitsTyped
<1>3. ListingsInit => FreshInv
  BY InitVisits DEF ListingsInit, FreshInv, ListIsFresh
<1>4. ListingsSpec => []ListingsTypeOK
  BY <1>2, <1>3, NextFresh, PTL DEF ListingsSpec
<1>5. CatalogueSpec => []CatalogueTypeOK
  BY <1>1, ShelvesKept, PTL
<1>6. CatalogueTypeOK /\ ListingsTypeOK => ShopWindowTypeOK
  BY DEF ShopWindowTypeOK
<1> QED
  BY PartsStandAlone, <1>4, <1>5, <1>6, PTL
=============================================================================
