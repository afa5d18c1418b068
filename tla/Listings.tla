------------------------------ MODULE Listings ------------------------------
(***************************************************************************)
(* What the shop shows of its carpets beside the shelves themselves        *)
(* (carpets.service.ts): how often a carpet is liked, the price of its     *)
(* collection, and the cached lists of names, materials and sizes the      *)
(* filters offer.  The three parts share nothing and are explored one at a *)
(* time; requests run at the same time, and a statement is one step.       *)
(***************************************************************************)
EXTENDS Integers, FiniteSets

CONSTANTS Fan,       \* users who like carpets
          Model,     \* carpets that can be of one collection, in known sizes
          Visitor,   \* requests that run at the same time
          Price, NoPrice,
          PriceWays, \* the operations on prices explored
          MaxOffers, \* bound: changes of what the filters would offer
          MaxDrift,  \* bound: how far a counter may be off when taps begin
          Parts      \* the parts explored

ASSUME ListingsAssumption ==
  /\ IsFiniteSet(Fan) /\ IsFiniteSet(Visitor)
  /\ Price \subseteq Nat \ {0} /\ NoPrice \notin Price \cup {0}
  /\ MaxOffers \in Nat

VARIABLES
  liked, likes,    \* carpet_likes, and the counter of every carpet
  owed,            \* history: what the counter misses, see LikesCounted
  recount,         \* the count at the start of the process is still to come
  price, sort,     \* price of one square metre; what a carpet is
  uneven,          \* history: a price was written and has not been spread
  stirred,         \* history: requests during which somebody wrote a price
  offer, shown,    \* what the filters would offer now, and what is cached
  excused,         \* history: why the cached list may be old
  visit,           \* what each request is in the middle of
  part

likeVars == <<liked, likes, owed, recount>>
priceVars == <<price, sort, uneven, stirred>>
listVars == <<offer, shown, excused>>
listingVars == <<likeVars, priceVars, listVars, visit>>

Nothing == -1
Away == [kind |-> "none"]
Prices == Price \cup {0}     \* a carpet may be created without a price
\* A returned carpet is one of a RETURN type, a prayer carpet has that category.
Sort == {"ready", "roll", "prayer", "returned"}

ListingsInit ==
  /\ liked = {} /\ likes = [m \in Model |-> 0]
  /\ owed = [m \in Model |-> 0] /\ recount = FALSE
  /\ price \in [Model -> Prices \cup {NoPrice}] /\ sort \in [Model -> Sort]
  /\ uneven = TRUE /\ stirred = {}
  /\ offer = 0 /\ shown = Nothing /\ excused = FALSE
  /\ visit = [v \in Visitor |-> Away]
  /\ part \in Parts

Enter(v, r) == visit[v] = Away /\ visit' = [visit EXCEPT ![v] = r]
Go(v, r) == visit' = [visit EXCEPT ![v] = r]
Exit(v) == visit' = [visit EXCEPT ![v] = Away]
Doing(v, k) == visit[v].kind = k
During(ks) == {v \in Visitor : visit[v].kind \in ks}

----------------------------------------------------------------------------
(* Likes *)

\* toggleLike, handleFavoriteToggle and the bot's handleLikeToggle: the row of
\* the user is looked up.  The bot's does not count.
ToggleLike(v, f, m, counts) ==
  /\ part = "likes" /\ owed[m] \in -MaxDrift .. MaxDrift
  /\ Enter(v, [kind |-> IF <<f, m>> \in liked THEN "unlike" ELSE "like",
              fan |-> f, model |-> m, counts |-> counts])
  /\ UNCHANGED <<likeVars, priceVars, listVars>>

\* The row is written, or was there already, or is gone: then nothing is counted.
WriteLike(v) ==
  LET f == visit[v].fan
      m == visit[v].model
      more == IF Doing(v, "like") THEN 1 ELSE -1
  IN
  /\ v \in During({"like", "unlike"})
  /\ IF Doing(v, "like") <=> <<f, m>> \notin liked
     THEN /\ liked' = IF more = 1 THEN liked \cup {<<f, m>>} ELSE liked \ {<<f, m>>}
          /\ IF visit[v].counts
             THEN Go(v, [kind |-> "count", model |-> m, more |-> more]) /\ UNCHANGED owed
             ELSE Exit(v) /\ owed' = [owed EXCEPT ![m] = @ + more]
     ELSE Exit(v) /\ UNCHANGED <<liked, owed>>
  /\ UNCHANGED <<likes, recount, priceVars, listVars>>

\* Fault: the counter is written from a value read before.
CountFromRows(v) ==
  /\ Doing(v, "count")
  /\ likes' = [likes EXCEPT ![visit[v].model] =
                 Cardinality({f \in Fan : <<f, visit[v].model>> \in liked})]
  /\ Exit(v)
  /\ UNCHANGED <<liked, owed, recount, priceVars, listVars>>

CountLike(v) ==
  /\ Doing(v, "count")
  /\ likes' = [likes EXCEPT ![visit[v].model] = @ + visit[v].more]
  /\ Exit(v)
  /\ UNCHANGED <<liked, owed, recount, priceVars, listVars>>

LikedBy(m) == {f \in Fan : <<f, m>> \in liked}
Uncounted(m) ==
  Cardinality({v \in During({"count"}) : visit[v].model = m /\ visit[v].more = 1})
  - Cardinality({v \in During({"count"}) : visit[v].model = m /\ visit[v].more = -1})

\* onModuleInit: some time after the start the counters are set to the rows, and
\* what was about to be counted is counted a second time.
Recount ==
  /\ recount /\ recount' = FALSE
  /\ likes' = [m \in Model |-> Cardinality(LikedBy(m))]
  /\ owed' = [m \in Model |-> - Uncounted(m)]
  /\ UNCHANGED <<liked, priceVars, listVars, visit>>

----------------------------------------------------------------------------
(* Prices *)

\* Carpets of the collection that are not archived; the others have NoPrice.
Stocked == {m \in Model : price[m] # NoPrice}
Priced(way) == part = "prices" /\ way \in PriceWays

\* A price is written, which disturbs the requests under way but those of vs.
Written(vs) == stirred' = {x \in Visitor \ vs : visit[x] # Away}

\* One price is written and nothing spreads it.
PutPrice(m, p) == price' = [price EXCEPT ![m] = p] /\ uneven' = TRUE

\* update with a price, of a carpet of the collection or one renamed into it:
\* refused for a returned carpet; otherwise the price is written, and then it is
\* propagated unless the carpet is for prayers, a roll (which has no piece to
\* measure) or sold out by the same update.
UpdatePrice(v, m, p, soldOut) ==
  /\ Priced("update") /\ sort[m] # "returned" /\ visit[v] = Away
  /\ PutPrice(m, p) /\ Written({v})
  /\ IF sort[m] = "ready" /\ ~soldOut
     THEN Enter(v, [kind |-> "propagate", model |-> m, price |-> p])
     ELSE UNCHANGED visit
  /\ UNCHANGED <<sort, likeVars, listVars>>

\* Fault: carpets that came back are left alone.
ToNewOnly(v) ==
  /\ Doing(v, "propagate")
  /\ Go(v, [kind |-> "spread", price |-> visit[v].price,
           models |-> {m \in Stocked \ {visit[v].model} : sort[m] # "returned"}])
  /\ UNCHANGED <<likeVars, priceVars, listVars>>

\* propagateCollectionM2Price reads the other carpets of the collection, and
\* leaves out the pieces that have the price already ...
PropagateM2Price(v) ==
  /\ Doing(v, "propagate")
  /\ Go(v, [kind |-> "spread", price |-> visit[v].price,
           models |-> {m \in Stocked \ {visit[v].model} :
                         price[m] # visit[v].price \/ sort[m] = "roll"}])
  /\ UNCHANGED <<likeVars, priceVars, listVars>>

\* updateM2PriceByNames: the tariff of the collection is written, and then all
\* its carpets are read ...
UpdateM2Price(v, p) ==
  /\ Priced("tariff")
  /\ Enter(v, [kind |-> "tariff", price |-> p])
  /\ UNCHANGED <<likeVars, priceVars, listVars>>

CollectCarpets(v) ==
  /\ Doing(v, "tariff")
  /\ Go(v, [kind |-> "spread", price |-> visit[v].price, models |-> Stocked])
  /\ UNCHANGED <<likeVars, priceVars, listVars>>

\* ... and both write what they have read in one transaction.
SpreadPrice(v) ==
  /\ Doing(v, "spread")
  /\ price' = [m \in Model |-> IF m \in visit[v].models \cap Stocked
                               THEN visit[v].price ELSE price[m]]
  /\ uneven' = ~(v \notin stirred \/ Stocked \subseteq visit[v].models)
  /\ Written({v}) /\ Exit(v)
  /\ UNCHANGED <<sort, likeVars, listVars>>

\* importBatch: a row has a price of its own, or that of its collection by its
\* tariff or its average (getCollectionM2Price), or none; it is found before the
\* transaction that writes it.
PrepareImport(v, m, p) ==
  /\ Priced("import")
  /\ Enter(v, [kind |-> "import", model |-> m, price |-> p])
  /\ UNCHANGED <<likeVars, priceVars, listVars>>

ImportRow(v) ==
  /\ Doing(v, "import")
  /\ PutPrice(visit[v].model, visit[v].price) /\ Written({v}) /\ Exit(v)
  /\ UNCHANGED <<sort, likeVars, listVars>>

\* executeSync writes the price of every row of its file, and create the price
\* it is given; a carpet without one may also be renamed into the collection.
SyncRow(m, p) ==
  /\ Priced("sync")
  /\ PutPrice(m, p) /\ Written({})
  /\ UNCHANGED <<sort, visit, likeVars, listVars>>

PriceNewCarpet(m, p) ==
  /\ Priced("create") /\ m \notin Stocked
  /\ PutPrice(m, p) /\ Written({})
  /\ UNCHANGED <<sort, visit, likeVars, listVars>>

\* remove archives a carpet, and update may rename it out of the collection.
LeaveCollection(m) ==
  /\ Priced("remove")
  /\ price' = [price EXCEPT ![m] = NoPrice]
  /\ UNCHANGED <<sort, uneven, stirred, visit, likeVars, listVars>>

----------------------------------------------------------------------------
(* The cached lists of the filters *)

\* getFilterNames, getFilterMaterials, getFilterSizes: without a cached list the
\* carpets are read ...
GetFilter(v) ==
  /\ part = "lists" /\ shown = Nothing
  /\ Enter(v, [kind |-> "fill", value |-> offer])
  /\ UNCHANGED <<likeVars, priceVars, listVars>>

\* ... and what was read is kept for five minutes.
KeepList(v) ==
  /\ Doing(v, "fill")
  /\ shown' = visit[v].value
  /\ excused' = (visit[v].value # offer)
  /\ Exit(v)
  /\ UNCHANGED <<offer, likeVars, priceVars>>

Change == offer < MaxOffers /\ offer' = offer + 1

\* Fault: a change is not announced to the cache.
EditSilently(v) ==
  /\ part = "lists" /\ Change
  /\ Enter(v, [kind |-> "leave"])
  /\ UNCHANGED <<shown, excused, likeVars, priceVars>>

\* update, remove, importBatch: written, then announced.
EditCarpets(v) ==
  /\ part = "lists" /\ Change
  /\ Enter(v, [kind |-> "announce"])
  /\ UNCHANGED <<shown, excused, likeVars, priceVars>>

\* invalidateFilterCache
InvalidateFilterCache(v) ==
  /\ v \in During({"announce", "announceFirst"})
  /\ shown' = Nothing /\ excused' = FALSE
  /\ IF Doing(v, "announce") THEN Exit(v) ELSE Go(v, [kind |-> "commit"])
  /\ UNCHANGED <<offer, likeVars, priceVars>>

\* create announces inside its transaction, before it commits.
CreateCarpet(v) ==
  /\ part = "lists"
  /\ Enter(v, [kind |-> "announceFirst"])
  /\ UNCHANGED <<likeVars, priceVars, listVars>>

CommitCarpet(v) ==
  /\ Doing(v, "commit")
  /\ Change /\ excused' = (shown # Nothing)
  /\ Exit(v)
  /\ UNCHANGED <<shown, likeVars, priceVars>>

\* Orders and synchronisations change what is on sale and announce nothing.
SellQuietly ==
  /\ part = "lists"
  /\ Change /\ excused' = (excused \/ shown # Nothing)
  /\ UNCHANGED <<shown, visit, likeVars, priceVars>>

\* The time of the list is over.
ExpireList ==
  /\ shown # Nothing
  /\ shown' = Nothing /\ excused' = FALSE
  /\ UNCHANGED <<offer, visit, likeVars, priceVars>>

----------------------------------------------------------------------------
\* The process restarts: requests are cut short, the cache is empty.
RestartListings ==
  /\ visit' = [v \in Visitor |-> Away]
  /\ shown' = Nothing /\ excused' = FALSE
  /\ recount' = (part = "likes")
  /\ owed' = [m \in Model |-> owed[m] + Uncounted(m)]
  /\ stirred' = {}
  /\ UNCHANGED <<liked, likes, price, sort, uneven, offer>>

Taps == \E v \in Visitor, f \in Fan, m \in Model, counts \in BOOLEAN :
  ToggleLike(v, f, m, counts)

VisitStep(v) ==
  \/ WriteLike(v) \/ CountLike(v) \/ PropagateM2Price(v) \/ CollectCarpets(v)
  \/ SpreadPrice(v) \/ ImportRow(v)
  \/ KeepList(v) \/ EditCarpets(v) \/ InvalidateFilterCache(v)
  \/ CreateCarpet(v) \/ CommitCarpet(v) \/ GetFilter(v)

ListingsNext ==
  /\ \/ Taps \/ Recount \/ SellQuietly \/ ExpireList \/ RestartListings
     \/ \E v \in Visitor : VisitStep(v)
     \/ \E v \in Visitor, m \in Model, p \in Price, soldOut \in BOOLEAN :
          UpdatePrice(v, m, p, soldOut)
     \/ \E v \in Visitor, p \in Price : UpdateM2Price(v, p)
     \/ \E v \in Visitor, m \in Model, p \in Prices : PrepareImport(v, m, p)
     \/ \E m \in Model, p \in Prices : SyncRow(m, p) \/ PriceNewCarpet(m, p)
     \/ \E m \in Model : LeaveCollection(m)
  /\ UNCHANGED part

ListingsSpec == ListingsInit /\ [][ListingsNext]_<<listingVars, part>>
----------------------------------------------------------------------------
ListingsTypeOK ==
  /\ liked \subseteq Fan \X Model /\ likes \in [Model -> Int] /\ owed \in [Model -> Int]
  /\ price \in [Model -> Prices \cup {NoPrice}] /\ sort \in [Model -> Sort]
  /\ stirred \subseteq Visitor
  /\ offer \in 0 .. MaxOffers /\ shown \in {Nothing} \cup 0 .. MaxOffers

\* The counter of a carpet is the number of users who like it, whoever taps
\* twice at the same time, except for the taps of the bot since the last start,
\* for what is about to be counted, and for what a restart cut short or counted
\* twice.
LikesCounted ==
  \A m \in Model : likes[m] = Cardinality(LikedBy(m)) - owed[m] - Uncounted(m)

\* A change of the collection's price leaves one price per square metre on all
\* its carpets, the returned and the rolls too, although it reads them first and
\* leaves out those that seem to have the price: when nobody wrote another price
\* between its start and its end, or it has read every carpet there is.  It
\* stays so until a price is written that is not spread: by a creation, an
\* import, a synchronisation, or the update of a roll, of a prayer carpet, of a
\* carpet that is sold out.
OnePricePerCollection ==
  ~uneven => \A m, n \in Stocked : price[m] = price[n]

\* A cached list is older than the shop only between a change and its
\* announcement, or because it was read before the change, or because the change
\* is one nobody announces.
ListIsFresh ==
  shown \notin {Nothing, offer} => excused \/ During({"announce"}) # {}

\* "Qaytarilgan gilam narxlari o'zgarmas hisoblanadi.": the price of a carpet
\* that came back never changes.
ReturnedPriceFixed ==
  [][\A m \in Stocked \cap Stocked' :
       sort[m] = "returned" => price'[m] = price[m]]_listingVars
=============================================================================
