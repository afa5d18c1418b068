----------------------------- MODULE Catalogue -----------------------------
(***************************************************************************)
(* The shelves (carpets.service.ts) and the synchronisation with the       *)
(* BASKO warehouse (basko-integration.service.ts, basko-sync.service.ts).  *)
(* Carpets are written by administrators, by an import and by a            *)
(* synchronisation, while orders take their pieces and give them back.     *)
(*                                                                         *)
(* A statement is one step, and so is a transaction.  A piece is known by  *)
(* its barcode.  Prices, sizes and names are left to Listings.             *)
(***************************************************************************)
EXTENDS Naturals, FiniteSets

CONSTANTS Numbered, \* carpets administrators create, by their number
          Barcode,  \* pieces
          Desk,     \* requests of administrators at the same time
          NoCarpet,
          Designs,  \* whether the design of a carpet has an image of its own
          Uses      \* the groups of operations explored, one at a time

\* Carpets go by their uniqueCode: a number, or the barcode of the piece a
\* synchronisation created them for.
Carpet == Numbered \cup Barcode

ASSUME CatalogueAssumption ==
  NoCarpet \notin Carpet /\ Numbered \cap Barcode = {} /\ Designs \subseteq BOOLEAN

VARIABLES carpet,    \* carpets: state, and whether it has an image
          piece,     \* inventory_items: carpet and inventoryStatus
          syncing,   \* isSyncRunning
          desk,      \* what each request is in the middle of
          disturbed, \* history: a piece was changed by others during the sync
          cut,       \* history: barcodes whose insertion was cut short
          failed,    \* history: carpets at which a synchronisation failed
          uses       \* the operations in use, one group of Uses

catalogueVars == <<carpet, piece, syncing, desk, disturbed, cut, failed>>
syncHistory == <<disturbed, cut, failed>>

NoRow == [state |-> "none", image |-> FALSE]
NoPiece == [carpet |-> NoCarpet, status |-> "none"]
Vacant == [kind |-> "none"]
SyncKinds == {"validate", "load", "row", "piece", "newPiece", "log"}

CatalogueInit ==
  /\ carpet = [k \in Carpet |-> NoRow] /\ piece = [b \in Barcode |-> NoPiece]
  /\ syncing = FALSE /\ desk = [w \in Desk |-> Vacant]
  /\ disturbed = FALSE /\ cut = {} /\ failed = {}
  /\ uses \in Uses

Known == {k \in Carpet : carpet[k].state # "none"}
Unknown == Numbered \ Known
OnShelf(k, s) == {b \in Barcode : piece[b].carpet = k /\ piece[b].status = s}
Fresh == {b \in Barcode : piece[b] = NoPiece}

Take(w, d) == desk[w] = Vacant /\ desk' = [desk EXCEPT ![w] = d]
Goto(w, d) == desk' = [desk EXCEPT ![w] = d]
Leave(w) == desk' = [desk EXCEPT ![w] = Vacant]
At(w, k) == desk[w].kind = k

\* Every change of the shelves that is not the synchronisation's.
Others == disturbed' = (disturbed \/ syncing) /\ UNCHANGED <<cut, failed>>

SetPieces(bs, s) ==
  piece' = [b \in Barcode |-> IF b \in bs THEN [piece[b] EXCEPT !.status = s] ELSE piece[b]]
Shelve(home) ==
  piece' = [b \in Barcode |->
    IF b \in DOMAIN home THEN [carpet |-> home[b], status |-> "ACTIVE"] ELSE piece[b]]

----------------------------------------------------------------------------
(* Administrators *)

\* create: the barcode is looked up ...
StartCreate(w, b) ==
  /\ piece[b] = NoPiece
  /\ Take(w, [kind |-> "create", code |-> b])
  /\ UNCHANGED <<carpet, piece, syncing, syncHistory>>

\* ... and carpet and piece are written together, unless the barcode is there
\* by then, or another carpet has drawn the same number.
Create(w) ==
  LET b == desk[w].code IN
  /\ At(w, "create")
  /\ \/ /\ piece[b] = NoPiece
        /\ \E k \in Unknown, image \in BOOLEAN :
             /\ carpet' = [carpet EXCEPT ![k] = [state |-> "listed", image |-> image]]
             /\ Shelve([x \in {b} |-> k])
        /\ Others
     \/ UNCHANGED <<carpet, piece, syncHistory>>
  /\ Leave(w)
  /\ UNCHANGED syncing

\* update: the images of the carpet are read and written back, unless new ones
\* are given.
StartUpdate(w, k) ==
  /\ k \in Known
  /\ \E image \in {carpet[k].image, TRUE} :
       Take(w, [kind |-> "update", carpet |-> k, image |-> image])
  /\ UNCHANGED <<carpet, piece, syncing, syncHistory>>

\* The pieces on the shelf become `stock' many.  For no stock at all the carpet
\* is deleted, which its own pieces, or the entry of the ledger, forbid.
Update(w) ==
  LET k == desk[w].carpet
      active == OnShelf(k, "ACTIVE")
  IN
  /\ At(w, "update")
  /\ \/ /\ carpet' = [carpet EXCEPT ![k].image = desk[w].image]
        /\ \/ UNCHANGED piece /\ Others
           \/ \E bs \in SUBSET active \ {active} :
                SetPieces(bs, "ARCHIVED") /\ Others
           \/ \E bs \in SUBSET Fresh : Shelve([x \in bs |-> k]) /\ Others
     \/ UNCHANGED <<carpet, piece, syncHistory>>     \* stock = 0
  /\ Leave(w)
  /\ UNCHANGED syncing

\* remove: no piece is reserved; then its pieces and the carpet are archived.
StartRemove(w, k) ==
  /\ k \in Known /\ OnShelf(k, "RESERVED") = {}
  /\ Take(w, [kind |-> "remove", carpet |-> k])
  /\ UNCHANGED <<carpet, piece, syncing, syncHistory>>

ArchivePieces(w) ==
  /\ At(w, "remove")
  /\ SetPieces(OnShelf(desk[w].carpet, "ACTIVE"), "ARCHIVED")
  /\ Goto(w, [desk[w] EXCEPT !.kind = "hide"])
  /\ Others
  /\ UNCHANGED <<carpet, syncing>>

\* Fault: the carpet is deleted, not archived.
DeleteCarpet(w) ==
  /\ At(w, "hide")
  /\ carpet' = [carpet EXCEPT ![desk[w].carpet] = NoRow]
  /\ Leave(w)
  /\ UNCHANGED <<piece, syncing, syncHistory>>

HideCarpet(w) ==
  /\ At(w, "hide")
  /\ carpet' = [carpet EXCEPT ![desk[w].carpet].state = "archived"]
  /\ Leave(w)
  /\ UNCHANGED <<piece, syncing, syncHistory>>

\* importBatch: a barcode that is known leads to its carpet ...
KnownCarpets(items) == {piece[b].carpet : b \in items \ Fresh}

\* ... and a new one joins the carpet of its name and design, archived or not,
\* or starts one.
Homes(items) == [items \cap Fresh -> Known \cup Numbered]

\* The rows of a file whose designs have an image, in one transaction: every
\* carpet they lead to gets that image.
ImportBatch(items) ==
  /\ items # {}
  /\ \E home \in Homes(items) :
       LET hit == KnownCarpets(items) \cup {home[b] : b \in DOMAIN home} IN
       /\ carpet' = [k \in Carpet |->
            IF k \notin hit THEN carpet[k]
            ELSE IF k \in Known THEN [carpet[k] EXCEPT !.image = TRUE]
            ELSE [state |-> "listed", image |-> TRUE]]
       /\ Shelve(home)
  /\ Others
  /\ UNCHANGED <<syncing, desk>>

----------------------------------------------------------------------------
(* Orders, as Inventory has them *)

MovePiece(b, from, to) ==
  /\ piece[b].status = from
  /\ SetPieces({b}, to)
  /\ Others
  /\ UNCHANGED <<carpet, syncing, desk>>

Sell(b) == MovePiece(b, "ACTIVE", "RESERVED") \/ MovePiece(b, "RESERVED", "SOLD")
GiveBack(b) == MovePiece(b, "RESERVED", "ACTIVE")

----------------------------------------------------------------------------
(* syncFromExcel *)

\* Fault: the lock is taken after the first awaited call.
SyncNoLock(w) ==
  /\ \E file \in SUBSET Barcode : Take(w, [kind |-> "validate", file |-> file])
  /\ UNCHANGED <<carpet, piece, syncing, syncHistory>>

SyncFromExcel(w) ==
  /\ ~syncing /\ syncing' = TRUE
  /\ \E file \in SUBSET Barcode : Take(w, [kind |-> "validate", file |-> file])
  /\ UNCHANGED <<carpet, piece, syncHistory>>

\* Fault: the lock is released on success only.
FinishKeepsLock(w) == disturbed' = FALSE /\ Leave(w) /\ UNCHANGED syncing

\* The end of a synchronisation, whichever it is (finally).
Finish(w) == syncing' = FALSE /\ disturbed' = FALSE /\ Leave(w)

\* previewSync: a file with no good row, or with too many bad ones, is refused.
Preview(w) ==
  /\ At(w, "validate")
  /\ \/ Finish(w)
     \/ /\ desk[w].file # {}
        /\ Goto(w, [desk[w] EXCEPT !.kind = "load"])
        /\ UNCHANGED <<syncing, disturbed>>
  /\ UNCHANGED <<carpet, piece, cut, failed>>

\* Fault: only what is on sale is read.
LoadOnSale(w) ==
  /\ At(w, "load")
  /\ Goto(w, [kind |-> "row", file |-> desk[w].file, rest |-> desk[w].file,
              seen |-> [b \in Barcode |-> IF piece[b].status = "ACTIVE" THEN piece[b]
                                          ELSE NoPiece],
              images |-> {k \in Carpet : carpet[k].image}, code |-> NoCarpet])
  /\ disturbed' = FALSE
  /\ UNCHANGED <<carpet, piece, syncing, cut, failed>>

\* executeSync reads the whole warehouse.
Load(w) ==
  /\ At(w, "load")
  /\ Goto(w, [kind |-> "row", file |-> desk[w].file, rest |-> desk[w].file,
              seen |-> piece, images |-> {k \in Carpet : carpet[k].image},
              code |-> NoCarpet])
  /\ disturbed' = FALSE
  /\ UNCHANGED <<carpet, piece, syncing, cut, failed>>

ToPiece(w, kind, b) ==
  Goto(w, [desk[w] EXCEPT !.kind = kind, !.rest = @ \ {b}, !.code = b])

\* A row of a piece that was there: its carpet is listed again, with the images
\* it had, or those of its design if it had none.
UpdateRow(w, b) ==
  LET k == desk[w].seen[b].carpet IN
  /\ At(w, "row") /\ b \in desk[w].rest /\ desk[w].seen[b] # NoPiece
  /\ \E design \in Designs :
       carpet' = [carpet EXCEPT ![k].state = "listed",
                                ![k].image = k \in desk[w].images \/ design]
  /\ ToPiece(w, "piece", b)
  /\ UNCHANGED <<piece, syncing, syncHistory>>

\* ... and the piece is on sale, whatever it was.
UpdatePiece(w) ==
  /\ At(w, "piece")
  /\ SetPieces({desk[w].code}, "ACTIVE")
  /\ Goto(w, [desk[w] EXCEPT !.kind = "row", !.code = NoCarpet])
  /\ UNCHANGED <<carpet, syncing, syncHistory>>

\* A row of a new piece: a carpet whose code is the barcode ...
InsertRow(w, b) ==
  /\ At(w, "row") /\ b \in desk[w].rest /\ desk[w].seen[b] = NoPiece
  /\ IF b \in Known
     THEN failed' = failed \cup {b} /\ Finish(w) /\ UNCHANGED carpet
     ELSE /\ \E design \in Designs :
               carpet' = [carpet EXCEPT ![b] = [state |-> "listed", image |-> design]]
          /\ ToPiece(w, "newPiece", b)
          /\ UNCHANGED <<syncing, disturbed, failed>>
  /\ UNCHANGED <<piece, cut>>

\* ... and the piece, unless somebody has created the barcode meanwhile.
InsertPiece(w) ==
  LET b == desk[w].code IN
  /\ At(w, "newPiece")
  /\ IF piece[b] = NoPiece
     THEN /\ Shelve([x \in {b} |-> b])
          /\ Goto(w, [desk[w] EXCEPT !.kind = "row", !.code = NoCarpet])
          /\ UNCHANGED <<syncing, disturbed, cut>>
     ELSE cut' = cut \cup {b} /\ Finish(w) /\ UNCHANGED piece
  /\ UNCHANGED <<carpet, failed>>

\* Fault: every piece on the shelves is archived unless it is a new one.
ArchiveAll(w) ==
  /\ At(w, "row") /\ desk[w].rest = {}
  /\ SetPieces({b \in Barcode : desk[w].seen[b].status = "ACTIVE"}, "ARCHIVED")
  /\ Goto(w, [kind |-> "log", file |-> desk[w].file])
  /\ UNCHANGED <<carpet, syncing, syncHistory>>

\* What was on sale and is not in the file is archived.
ArchiveMissing(w) ==
  /\ At(w, "row") /\ desk[w].rest = {}
  /\ SetPieces({b \in Barcode \ desk[w].file : desk[w].seen[b].status = "ACTIVE"},
               "ARCHIVED")
  /\ Goto(w, [kind |-> "log", file |-> desk[w].file])
  /\ UNCHANGED <<carpet, syncing, syncHistory>>

\* completeSyncJob: the log is written or not.
CompleteSyncJob(w) ==
  /\ At(w, "log")
  /\ Finish(w)
  /\ UNCHANGED <<carpet, piece, cut, failed>>

\* The process restarts: every request is cut short, and the lock is forgotten.
RestartDesk ==
  /\ desk' = [w \in Desk |-> Vacant] /\ syncing' = FALSE /\ disturbed' = FALSE
  /\ cut' = cut \cup {desk[w].code : w \in {x \in Desk : At(x, "newPiece")}}
  /\ UNCHANGED <<carpet, piece, failed>>

SyncStep(w) ==
  \/ Preview(w) \/ Load(w) \/ UpdatePiece(w) \/ InsertPiece(w)
  \/ \E b \in Barcode : UpdateRow(w, b) \/ InsertRow(w, b)
  \/ ArchiveMissing(w) \/ CompleteSyncJob(w)

Edits ==
  \/ "create" \in uses /\ \E w \in Desk, b \in Barcode : StartCreate(w, b)
  \/ "update" \in uses /\ \E w \in Desk, k \in Carpet : StartUpdate(w, k)
  \/ "remove" \in uses /\ \E w \in Desk, k \in Carpet : StartRemove(w, k)
  \/ \E w \in Desk : Create(w) \/ Update(w) \/ ArchivePieces(w) \/ HideCarpet(w)

CatalogueNext ==
  /\ \/ \E w \in Desk : SyncFromExcel(w) \/ SyncStep(w)
     \/ Edits
     \/ \E items \in SUBSET Barcode : "import" \in uses /\ ImportBatch(items)
     \/ \E b \in Barcode : "orders" \in uses /\ (Sell(b) \/ GiveBack(b))
     \/ RestartDesk
  /\ UNCHANGED uses

\* Awaited statements answer.
CatalogueSpec == CatalogueInit /\ [][CatalogueNext]_<<catalogueVars, uses>>
                   /\ \A w \in Desk : WF_catalogueVars(SyncStep(w))
----------------------------------------------------------------------------
CatalogueTypeOK ==
  /\ carpet \in [Carpet -> [state : {"none", "listed", "archived"}, image : BOOLEAN]]
  /\ \A b \in Barcode :
       \/ piece[b] = NoPiece
       \/ piece[b].carpet \in Known
          /\ piece[b].status \in {"ACTIVE", "RESERVED", "SOLD", "ARCHIVED"}
  /\ failed \subseteq Barcode /\ cut \subseteq Barcode

Running == {w \in Desk : desk[w].kind \in SyncKinds}

\* Two synchronisations never run at the same time, whoever starts them
\* ("prevents simultaneous sync runs").
OneSyncAtATime == Cardinality(Running) <= 1 /\ (syncing <=> Running # {})

\* When a synchronisation has gone through its file and nobody else touched the
\* shelves meanwhile, what is on sale is what the file names.
SyncMatchesFile ==
  \A w \in Desk :
    At(w, "log") /\ ~disturbed
      => {b \in Barcode : piece[b].status = "ACTIVE"} = desk[w].file

\* A synchronisation fails at a row only because an earlier one was cut short,
\* or met a barcode somebody created meanwhile, after it had created the carpet
\* of that row and before it had created the piece.
SyncFailureExplained == failed \subseteq cut

\* The lock of a synchronisation comes free, whether it succeeds, fails or is
\* cut short.
LockComesFree == syncing ~> ~syncing
=============================================================================
