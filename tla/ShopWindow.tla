----------------------------- MODULE ShopWindow -----------------------------
(***************************************************************************)
(* The shelves with the synchronisation, what the shop shows of them, and  *)
(* how carpets are found.  The parts share no variable: only one of them   *)
(* moves in a run, and the variable `part' of Listings tells which.        *)
(***************************************************************************)
EXTENDS Catalogue, Listings, CarpetSearch

\* The parts that are not explored stay where they begin.
Init ==
  /\ CatalogueInit /\ ListingsInit
  /\ part = "shelves" \/ uses = CHOOSE u \in Uses : TRUE
  /\ \/ part = "prices"
     \/ \A m \in Model : price[m] = NoPrice /\ sort[m] = "ready"
  /\ IF part = "search" THEN SearchInit ELSE question = Nothing /\ answer = {}

Next ==
  \/ /\ part = "shelves" /\ CatalogueNext
     /\ UNCHANGED <<listingVars, searchVars>>
  \/ /\ part \in {"likes", "prices", "lists"} /\ ListingsNext
     /\ UNCHANGED <<catalogueVars, uses, searchVars>>
  \/ /\ part = "search" /\ SearchNext
     /\ UNCHANGED <<catalogueVars, uses, listingVars>>

vars == <<catalogueVars, uses, listingVars, searchVars, part>>

Spec == Init /\ [][Next /\ UNCHANGED part]_vars
          /\ \A w \in Desk : WF_catalogueVars(SyncStep(w))

ShopWindowTypeOK == CatalogueTypeOK /\ ListingsTypeOK
=============================================================================
