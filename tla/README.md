# YEC Market backend: a verification project

TLA+ models of this NestJS/Prisma backend, TLC runs that check them on small
instances, and TLAPS proofs of what matters most for any number of orders,
items, tokens, delivery days and concurrent requests.

The shop sells carpets. A *ready-made* carpet is a stock of inventory items
with bar codes; a *roll* is cut to the length a customer asks for. Customers
order through the web API; administrators and couriers move orders along from
an admin panel and from a Telegram bot; payment providers call webhooks; two
scheduled jobs expire reservations and close return windows. All of them write
the same few tables of one PostgreSQL database, each with transactions, checks
and omissions of its own. That is where this system can go wrong, and the
repository has no test of the order, return, payment or delivery services (its
specs cover the catalogue, Basko, the bots, health and login), so that is where
the project begins. Around this core stand the accounts and roles, the catalogue
with its synchronisation and search, the delivery days, the room previews, the
conversations of the bots and the life of the process; they share little or no
state with it and with each other, and each is a module of its own.

## 1. Inventory of the system

| component | state it keeps | operations | hard because | what makes it correct |
|---|---|---|---|---|
| Orders (`orders/orders.service.ts`) | order status, version, dates, payment, order items | create, updateStatus, updateOrder, confirmDelivery, cancelMyOrder, confirmRemainingPayment, markItemAsCut | every handler reads outside its transaction and only updateStatus checks a version | status follows the transition map; finished stays finished |
| Inventory (`inventory/inventory.service.ts`) | status of items, links order item to item | allocateFIFO, markInventorySold, releaseInventory, releaseExpiredReservations (cron) | concurrent checkouts; releases on many paths | an item belongs to one order; off the shelf exactly while kept |
| Rolls (`inventory/roll-inventory.service.ts`) | current and reserved length, one allocation per order item | reserve, release, cut (restock has no caller) | three statuses run the cut logic; lengths are bare increments | reserved = sum of uncut allocations; length conserved; cut once |
| Returns (`orders/return.service.ts`) | return request, refund history | createReturnRequest, approveRefund, review, (no-op) action | two places approve refunds | money back at most once |
| Order cron (`orders/order-cron.service.ts`) | none | close return windows, remind | works on a stale answer | a delivered order is closed in the end |
| Payment webhooks (`orders/payment-webhook.controller.ts`) | payment transaction, payment fields of the order | Click, Payme callbacks | repeated and late delivery, four separate statements | paid + remaining = price |
| Telegram order buttons (`telegram/telegram.update.ts`) | pending approvals (memory) | confirm/reject return, courier delivered, confirm arrival | buttons live for ever; rules of the panel repeated by hand | same rules as the panel |
| Delivery slots (`delivery/`) | count, capacity and status per day | availability, reserve, release, capacity | unlocked read-modify-write, reserved outside the checkout, released without awaiting; the date of an order changes without its slot | the count is that of the orders that hold a slot |
| Promo codes | codes, usages | CRUD, use at checkout | concurrent use | once per customer (unique key) |
| Carpet catalogue (`carpets/`) | carpets, pieces, likes, prices, cached filter lists | create, update, remove, importBatch, toggleLike, prices of a collection, search, ranking | several writers per row; counters beside rows; caches beside tables | counters agree with rows, a collection has one price, lists are fresh, sizes are read alike |
| Basko integration (`basko/`) | sync log, in-process flag | preview and sync | a file against live stock, row by row, no transaction | one sync at a time; afterwards the shelf is the file's |
| Telegram bot (`telegram/telegram.update.ts`) | requests, links, approvals, modes, searches, all in memory | `/start`, contact, admin requests, search dialogue, questions to administrators | updates are concurrent; memory is lost by a restart; unique keys | a request is decided once, a link keeps its first user, linking succeeds whoever held the chat before |
| Seller bot (`telegram/telegram-seller.service.ts`) | prompt, search sessions, timers, favourites | prompts, results, pages, sync menu, toggle | results are awaited while the seller writes on | one prompt takes one answer |
| Telegram service | connection, stop flag | webhook or polling, supervisor, send | a stop during a launch, retries for ever | stops for good |
| Authentication (`auth/`) | OTP codes, refresh tokens | register, log in, refresh, log out, reset | rotation and one-time use under concurrency | a token or code works once; what was ended stays ended |
| AI (`ai/`) | preview rows, queue, enabled flag | ask, queue, process, fail, fall back | retries, redelivery, Redis may fail | a preview ends, and its result stays |
| Keep-alive, health, `main.ts` | timers, flags | port check, ping, shut down | overlapping pings, signals | one ping at a time, none after shutdown |
| Users, customers | rows | create, convert, link, role, phone, remove | the same row written by web, shop and bot | an account keeps its e-mail |
| Cart, categories | rows | CRUD | | |
| Notifications, mail, upload | none | send | | I/O only |
| Framework and persistence | connection | bootstrap, guards, filters, caches | retry | |

How they interact: a checkout calls delivery slots, then opens one interactive
transaction over promo code, stock and order. Status changes call inventory and
roll services inside their transaction and fire notifications, slot releases
and loyalty updates without awaiting them. Webhooks, Telegram buttons and cron
jobs do not call the order service: they write the order table themselves. The
website, the shop assistants' panel and two bots write the users table, the bots
after looking at maps in memory that no transaction protects. The catalogue is
written by administrators, by orders (which take pieces) and by the
synchronisation.
`PROJECT.json` lists the components with their status, and every hazard at its
line.

## 2. Modules

    Inventory --> Orders --> Returns --> Shop --> ShopProperties --> MCShop
                                                   |        |
                                     CarpetStock <-+        +--> ShopProofs --> StockProofs
                                                                     |              \--> RollProofs
                                                                     \--> MoneyProofs

    BotRoles, Sessions, Registration              --> Accounts   --> MCAccounts,  AccountProofs
    Catalogue, Listings, CarpetSearch             --> ShopWindow --> MCCatalogue, WindowProofs, SearchProofs
    BotDialogue, Delivery, Previews, ProcessLife  --> Services   --> ServiceProofs

| module | models |
|---|---|
| `Inventory` | the stock tables and the statements of the two inventory services, as operators from old to new value |
| `Orders` | the order table and all handlers of `orders.service.ts` |
| `Returns` | `return.service.ts`, the return buttons of the bot, the return-window cron |
| `Shop` | payment webhooks, arrival buttons, the expiry cron; `Next` and `Spec` |
| `CarpetStock` | the abstract promise: a carpet is on the shelf or belongs to one order, which takes, sells and gives back its carpets in single steps |
| `ShopProperties` | what should be true, fairness, the refinement mapping |
| `MCShop` | carts, sets of operations and symmetry for TLC |
| `BotRoles` | who is linked to which chat with which role: `/start` with its links, requests and decisions, contact, the website's role operations, restarts |
| `Sessions` | refresh tokens: log-in, exchange, reuse detection, logout, logout everywhere |
| `Registration` | one-time codes and the rows they create, convert or give a new password; Google, the shop's offline customers, changes of a phone number |
| `Catalogue` | carpets and pieces under administrators, imports, orders and the BASKO synchronisation |
| `Listings` | likes and their counter, the price of a collection, the cached filter lists |
| `CarpetSearch` | reading sizes, edit distance and correction, scores, ranking of what is near: pure operators, and one question with its answer |
| `BotDialogue` | modes, searches, prompts, sessions, timers and questions of the two bots' conversations |
| `Delivery` | days, orders with their dates, and the requests that book, move, cancel, revive and release |
| `Previews` | room previews: request, queue, worker, retries, loss of Redis, restarts |
| `ProcessLife` | start, pings, bot connection, signal and shutdown |
| `Accounts`, `ShopWindow`, `Services` | compositions: the parts share no variable, and one of them moves in a behaviour (variable `part`) |
| `MCAccounts`, `MCCatalogue` | sets of operations, rows and prices for TLC |
| `ShopProofs`, `StockProofs`, `RollProofs`, `MoneyProofs` | theorems about the shop |
| `AccountProofs`, `WindowProofs`, `ServiceProofs` | theorems about the compositions and their parts |
| `SearchProofs` | theorems about the operators of `CarpetSearch`, and about every answer |

### State of the shop

| variable | in the database |
|---|---|
| `item`, `links` | `inventory_items.inventoryStatus`, `order_item_inventories` |
| `alloc`, `pieces`, `roll` | `order_item_rolls.status`, the items created when a roll is cut, `roll_inventories.currentLengthCm/reservedLengthCm` |
| `soldCount` | `categories.soldCount` |
| `status`, `version` | `orders.status`, `orders.version` |
| `window` | `deliveryCompletedAt` and `returnDeadline`, each unset, within its 24 hours, or past |
| `basket`, `edition`, `returned` | the order items: what they ask for, how often `updateOrder` has replaced them, `isReturnedInventoryCreated` |
| `pay`, `payTx` | payment columns of the order, status of its deposit `payment_transactions` row |
| `request`, `refunds` | `return_requests.status`, number of REFUND rows in `payment_histories` |
| `old` | orders created more than 24 hours ago |
| `button` | who can press an arrival button in Telegram |
| `job` | what each request in flight has read: the local variables of the handler |

### How a handler becomes actions

A handler reads the order, checks, and later writes. `StartX(h, o)` is the read
with the early returns after it; it stores in `job[h]` exactly what the code
uses again. The action named after the handler is the write: an interactive
transaction, or one autocommitted statement, with everything it changes.
Between the two, any other handler may run. `Abandon(h)` drops a job where it
stands: the write threw (version moved, row missing, unique key), or the
process died. A handler with several autocommitted statements has an action for
each: the webhook has three, `confirmDelivery` three of which the first is never
awaited and may therefore come at any time.

A transaction is one step. The order transactions that check a version do so in
the condition of an update of the order row, whose lock they then hold; checkout
locks the carpet and roll rows it counts. `cancelMyOrder` and `updateOrder`
write the order row last, so under READ COMMITTED their statements may mix with
those of another transaction on the same order; that is not modelled, and no
stock property is claimed with either of them in use.

The transactions of the bot that link a chat are not one step (`BotRoles`). They
first take the chat, then the user name from the other rows that hold them at that
moment (`TakeChat`, `TakeName`), and then update their own row (`Write`); under READ
COMMITTED each statement sees what was committed before it, and others see nothing
until the commit, which `tx` stands for. A row that was taken is locked: a writer
of that row waits, which is the order in which it comes after the commit, or two
wait for each other and one is aborted (`Deadlock`). Somebody who gives the same chat
to a third row in between makes the last statement break the unique key.

`updateStatus` without a status, or with the current one, still runs the
transaction of the order's own status; so does the model.

### Abstractions

- One ready-made carpet and one roll. A cart asks for a number of carpets and a
  length of the roll. Several carpets would multiply the state, not the paths.
- A price is one unit per carpet and per unit of length; the deposit is one
  unit. Promo codes and discounts are part of the price.
- FIFO order of items is abstracted to any choice of ACTIVE items.
- The number of days is abstracted to "within 24 hours" and "past".
- Authorisation is left out: an action stands for any caller who may call it.
  Delivery proof, courier data and reasons only guard against missing input.
- The refund of an order with a roll item always throws: the helpers that make a
  bar code for the returned piece query columns `barcode` and `sku` that the
  `Carpet` model of `schema.prisma` does not have. `Refund` requires `len = 0`.
- Pieces cut for an order whose items `updateOrder` deletes lose their link and
  leave the model; `releaseInventory` has made them ordinary stock.
- `markInventorySold` reads its links and updates the items in one step even
  where `confirmDelivery` calls it outside a transaction.
- Ledgers, history rows, notifications and loyalty points are not read by the
  code modelled here. Delivery slots are a module of their own, because a slot
  and the stock of an order are never decided on together.

### State of the other modules

| module | variables | in the code |
|---|---|---|
| `BotRoles` | `users`; `requests`, `preApproved`, `pendingSeller`, `links`; `job`, `tx` | role, `telegramChatId`, `telegramUsername` of the users table; the maps of `TelegramUpdate`; handlers in flight and their open transactions |
| `Sessions` | `token`; `request` | `refresh_tokens`; requests in flight |
| `Registration` | `row`; `code`, `issued`; `call` | e-mail, phone and `ONLINE` of the users table; `otp_codes`; requests in flight |
| `Catalogue` | `carpet`, `piece`; `syncing`; `desk` | `carpets`, `inventory_items`; `isSyncRunning`; requests in flight |
| `Listings` | `liked`, `likes`; `price`, `sort`; `offer`, `shown`; `visit` | `carpet_likes` and the counter; price of a square metre of each carpet, and whether it is ready-made, a roll, for prayers or returned; what the filters would show and what `CacheService` holds |
| `BotDialogue` | `mode`, `search`, `question`; `panel`, `session`, `timer`; `task` | the `search...State` sets, `userSearchState`, `pendingReturnApprovals`; `sellerStates`, `searchSessions`, the redirects still to come; handlers that await |
| `Delivery` | `day`; `booking`; `caller`, `stale` | `delivery_schedules`; orders with the day of `deliveryDate`; calls in flight, and those whose order has got a new version |
| `Previews` | `preview`; `job`; `asker`; `enabled` | `ai_room_previews.status`; the Bull job; requests; `isQueueEnabled` |
| `ProcessLife` | `phase`, `attempt`, `leaving`; `timers`, `requests`, `inProgress`, `isDestroyed`; `bot`, `isStopping` | `bootstrap`; `KeepAliveService`; `TelegramService` |

What remains are history variables: they are read by properties only, and say
what happened (an exchange, an overlap of two requests, a crash in the middle of
a row), never what may happen. A property with an exception ("unless two requests
had both read it") names the exception through one of them.

As in the shop, one statement of the database is one step, an interactive
transaction is one step, and a handler that awaits between them is a job (of a
`Worker`, `Request`, `Clerk`, `Desk`, `Visitor`, `Caller` or `Asker`) with an
action for each part. What a handler of the bots does between two awaits runs
alone, as JavaScript does. A crash drops a job where it stands; `Restart...`
actions also empty what the process held in memory.

- `BotRoles` and `Registration` both describe the users table, each the columns
  it is about; no operation decides on columns of both, except that
  `customers.update` also writes a Telegram user name, which is left out.
- Codes are numbered in the order of issue; two codes are never equal by
  accident. Expiry of tokens and codes only refuses, and is left out.
- In `Catalogue` a carpet created by a synchronisation goes by the bar code of
  its piece, which is what the code uses as its `uniqueCode`.
- Texts are members of small sets in `BotDialogue`; in `CarpetSearch` words are
  sequences of letters and numbers are written in hundredths, because the
  properties are about the conversions themselves.
- In `Listings` the price of a carpet is its price per square metre, so that the
  areas and their rounding are left out; the tariff of a collection, and the average
  that stands in for it, may be any price. The carpets of the model have names that
  begin with that of the collection: the three ways in which the code finds the
  carpets of a collection then agree.
- In `BotRoles` a purged link is gone. The code puts it back when a handler that had
  looked at it marks it, but every later look purges it first.
- `Delivery` starts with no day stored; the start-up run that gives every stored
  day the default capacity is left out. Days pass by not being asked for.

## 3. Runs

The runs of the shop instantiate `MCShop`, where `Ops` says which operations are in
use; `Accounts`, `ShopWindow` and `Services` are the compositions.

| run | question | instance |
|---|---|---|
| `ReadyStock` | do two customers ever get, lose or keep the wrong ready-made carpet? `WritesAreSound` is the inductive part of the proof, `StockPromise` the refinement | 2 orders, 2 items, carts of 1 or 2, 2 handlers; sales, returns, rejections, refunds |
| `RollStock` | are lengths reserved, cut and released exactly once, whatever detour a status takes? | 2 orders on a roll of 3 units, carts of 1 unit or of 2 and a carpet, 2 handlers |
| `Lifecycle` | does every change follow the transition map at the moment of the write, and is a delivered order closed in the end? | 1 order, 2 handlers, 1 cron handler, fairness |
| `Staff` | with edits, customers' confirmations and both refund paths: is money given back once, and does finished stay finished? | 1 order, 2 handlers, 1 edit |
| `Payments` | with callbacks one at a time, do paid and remaining add up to the price? | 1 order, 1 handler and 1 cron handler, all operations but the manual confirmation |
| `Accounts` | roles, sessions and registrations: decided once, linked for ever, rotated once, ended for good, used once | 2 rows, 2 chats, 2 handlers; groups of operations that can interfere (`Groups`, `Ways`) one after the other, with at most two of the ways to link a chat in a group |
| `ShopWindow` | catalogue with synchronisation; likes, prices, lists; search | 1 numbered carpet, 2 bar codes, 2 requests; 2 users, 2 carpets of any two sorts, 2 prices and none, all writers of prices; words of up to 3 letters, shelves of up to 3 pieces, sizes at every boundary of every reader |
| `Services` | conversations, delivery days, previews, start and stop | 1 chat, 2 handlers; 2 days of capacity 1 or 0, open or closed, 1 order, 2 callers; 2 previews, 2 attempts, 2 restarts; 2 tries for the port, webhook asked for (a refused webhook polls) |
| `RollLeak`, `WebhookTwice`, `ApprovedInAdvance`, `ReturnedRepriced` | one disagreement each between the code and what it says, see section 6 | 1 or 2 orders; 2 rows and 2 chats; 2 carpets |

What the properties of the last three runs say:

- `DecidedOnce`: a request to become an administrator is decided at most once,
  because both buttons take it from the map before they await anything.
  `LinkKeepsFirst`: a one-time link keeps the person who used it first, although
  it is looked at before the database is read and marked afterwards.
  `LinkingRefusedOnlyIfCrossed`: linking by profile, invitation or `/start` frees the
  unique chat and user name first, whoever holds them; the unique keys stop it only
  if another handler gives the chat to a third row between its statements.
- `RotatedOnceUnlessRaced`: a refresh token is exchanged a second time only by a
  request that had read it before the first exchange (the code reads and revokes
  in two statements, so that race exists). `EndedStaysEnded`: a session that was
  ended has no valid token again, except from a refresh under way at that moment.
- `CodeWorksOnce`: a one-time code is acted on twice only by requests that both
  found it open. `AccountKeepsEmail`: a registration converts an offline
  customer and never the account of somebody who registered meanwhile, unless
  both had found the same offline row.
- `OneSyncAtATime`, `LockComesFree`: the flag admits one synchronisation and is
  given back on every path. `SyncMatchesFile`: undisturbed, the shelf is what the
  file says. `SyncFailureExplained`: a row fails only where an earlier
  synchronisation was cut between a carpet and its piece.
- `LikesCounted`: the counter is the number of likes but for what the history
  variable `owed` names: the bot's taps, which change rows and no counter until
  the recount at the next start, and what that recount met half-done.
  `OnePricePerCollection`: a change that is spread, without another price written
  meanwhile or over all the carpets there are, leaves one price on the collection,
  rolls and returned carpets too. It stays until a price is written that is not
  spread: by `create`, by a row of an import, with a price of its own or one found
  before the transaction, by a synchronisation, by the update of a roll, of a prayer
  carpet or of a carpet the update sells out, or by an update or spread that was cut
  short. `ListIsFresh`: a cached list is old only
  between a change and its announcement, or where the code announces nothing.
- `ReadsRight`: every reader reads a plain size alike; the distance is the least
  number of edits and a word is corrected within two of them; a name with at most
  two errors is found. `RankingDeterministic`: the order in which the database
  returns rows does not change what is offered.
- `PromptAnsweredOnce`: a prompt takes one text although its results are awaited.
  `SlotsAddUp`: as long as the reads of a day do not overlap, its count is that of
  its orders and of the checkouts and cancellations under way, and what is free fits
  it, with these exceptions, of one slot each, which `extra` counts: too many for an
  order that was given another date (`updateOrder`, `updateStatus`), that its customer
  cancelled, or whose request died before the slot was given back; too few for an
  order that was given this date or revived, by a late payment or a status that is
  written over the customer's cancellation, and for a cancellation
  that gave back a slot although it was rolled back or came after the customer's.
  `PreviewEnds`, `ResultStays`: a job ends, unless it
  was lost with its process or queue, and what was shown stays. `StopsForGood`:
  after a signal nothing pings or polls again, unless the signal came during a
  launch.

**Which operations.** The operations that check a version, or that cannot hurt
one that does, are `DisciplinedOps`. The stock properties hold for these; they do
not hold once `cancelMyOrder`, `markItemAsCut`, webhooks, arrival buttons or the
expiry cron join, because those write without looking again, and the violating
runs show how. A passing run therefore names the operations it includes, and
nothing is claimed for the others. `RefundOncePerEdition` and `TypeOK` are
proved with all operations in use.

**Bounds.** `MaxVersion` stops status updates (4 to 7 writes: enough for a whole
life, a detour through CANCEL_REQUESTED and, in `Lifecycle`, delivery and
completion); a refund and a completion may come one write later, so that an
order at the bound can still be closed. `MaxEdits` bounds `updateOrder` (1: an
edit before, between or after any other step). `MarkItemAsCut` stops at
`-RollLength`. Two handlers give every pair of interleaved requests; the checks
compare what one handler read with what one other wrote, so a third handler adds
no new kind of conflict, and the theorems do not depend on the number. Two
orders give competition for an item or a length; two items give a cart of two, a
partial and a full overlap. Orders, items and ordinary handlers are symmetric
where a run checks safety only.

In the other runs `MaxAsks` (requests of one chat), `MaxCodes`, `MaxOffers` and
`MaxDrift` (changes of a list, counters off at the start), `MaxPrompts`,
`MaxDeaths` and `MaxRetries` bound what could be repeated without end; two of each
give every pair of interleaved requests, a repetition and a crash in between.
Operations are explored in groups: two operations belong together when one writes
what the other reads. A chat more gives no new conflict, since every
unique key and every map is about one chat; a third row does (the chat is taken from
one row, and given to another before it comes to its own), and it is covered by the
theorem and not by the run, as is a second order on a delivery day. `Boundaries`
holds a number on each side of every comparison in the readers of sizes.

Runs say `CHECK_DEADLOCK FALSE` because a shop may come to rest: all orders
closed, or every bound reached.

**Fairness** (`FairSpec`). The clock goes on (`ReturnWindowCloses`), and a
request does not last for ever (`Abandon`: a handler times out or its process is
restarted). The cron gets strong fairness for its three steps: it runs again
every five minutes, and one order's failure is caught and logged, so it does not
lose against other writers for ever. No fairness is assumed for anything a person
does. In `ShopWindow` a synchronisation that runs goes on (`SyncStep`): each of its
awaits is answered or throws. In `Services` (`PreviewFairness`, `LifeFairness`)
requests, workers and acknowledgements go on, timers fire, a ping ends within its
timeout, the supervisor of the bot comes back from every await, and after a signal
the shutdown hooks run; that Redis fails, that a process dies or that a launch
succeeds is never assumed.

Every property of a passing run has a mutant in `PROJECT.json`: a definition
marked as a fault in the module, which stands for a plausible bug (a version not
checked, a status not looked at, a length moved once), and breaks the property
under the run's own configuration.

## 4. Proofs

Checked by TLAPS, for any number of orders, items, handlers, users, tokens,
codes, carpets, shelves, days and previews, any cart and any bounds.

| theorem | states |
|---|---|
| `ShopProofs!TypeCorrect` | `Spec => []TypeOK`, all operations |
| `ShopProofs!StatusKeepsToTheMap` | `Spec => StatusFollowsMap`, for `MapInUse` |
| `StockProofs!NoOrderSharesACarpet`, `TheShelfIsRight`, `SoldAtTheHandOver` | the three stock invariants, for `Ops \subseteq DisciplinedOps` |
| `StockProofs!FinishedIsFinal`, `HandlersWriteWhatStillHolds` | action property and the soundness of what handlers remember |
| `StockProofs!NeverCompletedEarly` | no order leaves DELIVERED for COMPLETED before its deadline, for the disciplined operations |
| `RollProofs!TheRollSuffices`, `NoLengthIsLost`, `EachLengthIsCutOnce`, `CancelledIsReleased` | the four roll invariants, for the disciplined operations |
| `MoneyProofs!NoDoubleRefund`, `RefundsStayDecided` | `Spec => []RefundOncePerEdition`, `[]RefundIsDecided`, all operations |
| `MoneyProofs!PaidAndRemainingAddUp` | `Spec => []MoneyAddsUp`, for `PaymentsInTurn` |
| `StockProofs!TheShopKeepsItsPromise` | the shop implements `CarpetStock`, for the disciplined operations |
| `AccountProofs!TokensRotateOnce`, `SessionsStayEnded` | `SessionsSpec => []RotatedOnceUnlessRaced`, `[]EndedStaysEnded` |
| `AccountProofs!RequestsDecidedOnce`, `LinksRefusedOnlyIfCrossed`, `LinksKeepTheFirst` | `RolesSpec => []DecidedOnce`, `[]LinkingRefusedOnlyIfCrossed`, `LinkKeepsFirst` |
| `AccountProofs!CodesWorkOnce`, `AccountsKeepEmail` | `RegistrationSpec => []CodeWorksOnce`, `AccountKeepsEmail` |
| `WindowProofs!SyncsRunAlone`, `ShelvesMatchTheFile`, `FailuresAreExplained` | `CatalogueSpec => []OneSyncAtATime`, `[]SyncMatchesFile`, `[]SyncFailureExplained` |
| `WindowProofs!LikesAreCounted`, `CollectionHasOnePrice`, `ListsAreFresh` | `ListingsSpec => []LikesCounted`, `[]OnePricePerCollection`, `[]ListIsFresh` |
| `SearchProofs!OffersAreDeterministic`, `ReadersAgree` | `Spec => []RankingDeterministic`, `[]SizesAgree` (a part of `ReadsRight`) |
| `SearchProofs!DistanceIsFewestEdits` | for all words `a` and `b`, `GetLevenshteinDistance(a, b)` is the least number of edits between them |
| `SearchProofs!EverythingIsReadRight` | `Spec => []ReadsRight` |
| `ServiceProofs!SlotsOfADay`, `PromptsAnsweredOnce`, `ResultsStay` | `DeliverySpec => []SlotsAddUp`, `DialogueSpec => []PromptAnsweredOnce`, `PreviewSpec => []ResultStays` |
| `ServiceProofs!JobsOnlyGoOn`, `NothingStartsAfterTheStop` | what safety says of `PreviewEnds` and `StopsForGood`: a job never goes back on its way, which is of bounded length; what was stopped starts nothing |
| `PartsStandAlone` of `AccountProofs`, `WindowProofs`, `ServiceProofs` | the `Spec` of a run implies the specification of each of its parts, so that the theorems about a part hold of the run |
| `AccountsTyped`, `WindowTyped`, `ServicesTyped` | the type invariants of the three compositions |

Assumptions: those stated on the constants (carts of natural numbers, a cron
handler is a handler, `NoOrder` is no order; what is counted is finite: users,
carpets, bookings, requests, letters and the pieces of a carpet; the words of an
index are no longer than those considered; every tag a synonym stands for has a
weight; a search result that is not empty has a page) and, where said, one of

- `Ops \subseteq DisciplinedOps`, see section 3;
- `MapInUse`: `updateStatus`, the confirmation of the remaining sum and either
  return requests or the cron that completes orders. Not both of the last two:
  `createReturnRequest` looks at the status before its transaction and checks no
  version, so the order may be completed in between and leave COMPLETED for
  RETURN_REQUESTED, which the map does not have;
- `PaymentsInTurn`: one handler at a time beside the crons (`WebhookTwice` shows
  what two do), no manual confirmation of the rest while a deposit is on its way,
  and no cart cheaper than the deposit, which the code caps at the total
  (`orders.service.ts:297`) of a cart that is never empty.

*Stock.* The stock invariants are not inductive: a handler could write on the
strength of something untrue. `StockInv` adds `WritesAreSound`: for every handler
in flight, either the version of its order has moved, so that its write will be
refused, or what it read still allows what it will write. The steps that change a
status without bumping the version (return requests, rejections) all happen
after the hand-over, where no version-checked write can be misled by them; that is
what makes it inductive, and it stops being true with the first undisciplined
operation. Every step is then either *tame* (changes no stock, no keeping) or one
of three moves, take, sell, give back, which is also the case split of the
refinement proof.

*The return window.* `DeliveredIsClosed` says that the cron does not come too late;
`NeverCompletedEarly` that it does not come too early, although three steps lie
between its query and its write. `DeadlineInv` adds to `StockInv` that an update
whose version still holds was not begun for a delivered order, and that an order the
cron has found due is, as long as it is DELIVERED, one whose deadline has passed: it
cannot have left DELIVERED and come back, because the way back leads through a status
before the hand-over.

*The roll.* `RollInv` adds to `StockInv` what the status of an order says of its
length (`RollFits`): reserved and uncut before CUTTING is over, cut into one piece
afterwards, released or ordinary stock once the order is cancelled. The sums over
all orders are cardinalities of sets of units (pairs of an order and a number up to
its length), so each step takes the units of one order out of one set and puts them
into another, and lemmas on finite sets do the adding (`Metered`). A refused
cancellation is the interesting step: the order returns to CUTTING with its piece,
and only the allocation, no longer RESERVED, keeps it from being cut again.

*The map.* `FollowInv` says of each handler that the status it read, or that the
cron's answer promised, is still the status of the order unless the version moved;
the only change without a version is the return request out of DELIVERED.

*Refunds.* `RefundInv` says that a handler about to refund remembers the flag of
the edition it read, unless that edition is gone, and that refunds are counted by
edition: every edition before the present one was refunded at most once, and the
present one only if its items are flagged. A second refund then needs either an
old edition, whose items are gone, or an unset flag of a flagged edition, which
the version check rules out.

*Payments.* `MoneyInv` follows a callback through its statements (`JobPays`): until
it pays, nothing was paid for its order and at least the deposit remains (`Owes`),
so that the clamp of the remainder at zero never bites, and the remainder it has
read is the one it will write over; the same holds of every order whose deposit is
pending or failed.

*Sessions.* `SessionInv` says who may still write: a request remembers a token of
its own user and device (`JobFits`), a device belongs to one user (`OneOwner`), a
token that was exchanged is revoked (`ExchangeRevokes`), whoever still holds one is
in a race that was seen (`RacesSeen`), and whoever refreshes an ended session was
under way when it ended (`LateSeen`). Ending all sessions of a user ends all
devices of that user only because of `OneOwner`.

*Roles.* `RolesInv` has the unique keys of the users table as an invariant of the
table alone (`KeysHold`). `TxFits` says of an open transaction that nobody crossed that
the rows it has taken so far are all others that hold its chat (and, after the
second statement, its user name), whatever was written since; hence what it commits
satisfies the keys (`TakesAll`). Every write of another handler either leaves that
true or gives the chat to another row, and then the transaction is crossed. Decided
requests and the one that still waits never exceed those that were asked, because
both buttons take the request out of the map in the same turn in which they find it.

*Registration.* `CodeFacts` says that a request holding a code found it open, that
two requests holding one code, or one holding a code that was acted on, are in
`overlap`, and that codes not issued yet are held by nobody. `ConvertFacts` says that
a request about to convert a row either finds it still offline, or the row was
found by two.

*Synchronisation.* `ShelfInv` follows the row loop: exactly the request at one of the
synchronisation's stages holds the flag (`AloneSyncs`); undisturbed, the pieces are
what was read before the loop, but for the rows already done, and once what the file
lacks is archived the shelf is the file's (`MatchInv`); a carpet that goes by a bar
code has its piece, is about to get it, or was cut there (`FailureInv`).

*Likes, prices, lists.* The counter of a carpet is the cardinality of its likes plus
what requests between their two statements still add or take, one member more or
less at each step (`CountInv`); a change of a price that nobody has stirred brings
every carpet to its new price: those it does not write have it already (`Brings`), and
who joins meanwhile was written by somebody, which stirs it (`PriceInv`); a list that is old has a request that is about to empty the cache
(`FreshInv`).

*Offers and sizes.* A sort is given by the places ahead of each place, so that its
result can be reasoned about without recursion. The numbers of places ahead are all
different and less than the number of places, hence every rank is taken
(`EveryRankIsTaken`). Who is sorted to place *n* has at most *n* - 1 rows before it
and at least *n* not after it (`Between`); these two numbers do not change when the
rows are read in another order, so the rows that two orders put at place *n* are not
before each other (`SamePlace`). Pieces that are not before each other agree in all
that is shown of them, because distances are numbers (`DistanceIsANumber`, with the
root for every square within the limit) and `rankCandidates` compares the carpet
last; rolls agree in price and length. The step of the code that matters is that last
comparison: without it the proof of `PiecesAlike` stops where it should.

*Words.* The distance of two words is a recursive function over the places of the
table; the fewest edits are found by enlarging a ball of words one edit at a time.
That both give one number is an induction, which is done over the natural numbers
as a set: if some number is an exception there is a least one (`LeastOfSome`,
`Counting`). First, the table exists: cells can be filled for words of every total
length (`TableExists`, `TableTyped`). Then one edit of a word changes its distance
from any other by at most one (`FarFollows`, with `RemovalIsOne`, `ReplacementIsOne`),
so that a word in the ball after *k* edits is at most *k* away; and a cell *n* is
reached by *n* edits whose intermediate words are no longer than the longer of the two
(`WayOfCell`, `FewEdits`), so that the bound on the length of the words in the ball
excludes nothing (`FewestEdits`). The correction and the search follow: the term
within two edits that is nearer than all others is the one a word is corrected to
(`FewestIsRead`), it scores against its own name (`TypoFinds`), points are never
negative (`WordPointsAre`), and every row with points has a place in the sorted
result (`EveryoneIsSorted`).

*Delivery days.* A count is a cardinality, so `DeliveryInv` says that a checkout
works on an order of its own (`CheckoutFits`) and that on a day without a race at
most one request has read, and what it has read is still there (`ReaderKnows`);
lemmas on cardinalities turn each step into one member more or less (`DateStep`,
`ReviveStep` and the others, one for every action). The clamp at
zero in `releaseSlot` can bite, after a cancellation that was rolled back gave a
slot back; `LeftOver` counts what it swallows.

*Conversations and previews.* `DialogueInv` counts the prompts of a seller: those
answered and the one that waits are no more than those made, since the panel leaves
its prompt before anything is awaited. `PreviewInv` says where the job of a preview
can be: a key has one job, added by the one request that created its row
(`AddedOnce`), and a job whose result could be shown has ended, unless it was
delivered again (`ShownIsOver`). Retries and redeliveries carry a count of their
own, so that stalls, attempts and the place of a job grow in lexicographic order
(`Further`); a restart marks what it delivers again. The pings of `ProcessLife` need only that one request is
under way exactly while `inProgress` is set.

Model-checked only: `DeliveredIsClosed`, `LockComesFree`, `PreviewEnds` and
`StopsForGood`, which are liveness under fairness and out of the prover's reach; what
safety has to say of them (`NeverCompletedEarly`, `SyncsRunAlone`, `JobsOnlyGoOn`,
`NothingStartsAfterTheStop`) is proved.
The violating runs are counterexamples, with nothing to prove.

## 5. Not modelled

The status of every component is in `PROJECT.json`. Left out, and why:

- **Pure I/O and CRUD**: notifications, mail, upload, cart, categories, promo
  codes, health reports, the listing and reporting queries of orders, carpets and
  users. Their results depend on one row or on none.
- **Sending messages** (`telegram.service.ts` 275 and following): retries and
  fall-backs of one message, with no state. A message whose answer is lost in a
  timeout is sent again as plain text and may arrive twice.
- **Menus of the bot that only show something**, photos, and the questions an AI
  model answers; the wording of all messages.
- **Floating-point scoring**: recommendations and similarity. Price formulas
  (`pricing.service.ts`) have no caller outside tests, like
  `standardizeCollectionPricesByAverage`; deposits are in `Shop`.
- **Reading the workbook** of BASKO and mapping its columns. Nothing outside tests
  calls `syncFromExcel` at present; the model is of what a call does.
- **Predefined names and designs** of carpets: import of static lists.
- **Loyalty points, histories, notifications** of orders; **row locks** inside a
  checkout and the deadlocks two carts with the same carpets may run into: a
  transaction is one step here.
- **`createInventoryEntry`** beside running orders: stock is constant in the shop
  model; `Catalogue` has the other writers of the same table.
- **Framework**: bootstrap apart from the port and the signals, guards, filters,
  connection retry, the Redis cache.

Candidates for more: promo codes and row locks in the checkout; the synchronisation
and the deliveries as refinements of abstract specifications.

## 6. Disagreements between the code and what it says

Found while modelling. Each of these has a run that exhibits it and an entry in
`PROJECT.json`:

- **Roll length is lost** (`RollLeak`): the customer's own cancellation releases
  items but not roll lengths.
- **A deposit counts twice** (`WebhookTwice`): two deliveries of one callback both
  pass the duplicate check.
- **Approved in advance, still a customer** (`ApprovedInAdvance`): the bot promises
  that registering and writing `/start` is enough; only the `admin_join` link reads
  the approval.
- **The price of a returned carpet changes** (`ReturnedRepriced`): an update of the
  carpet refuses it, the price of its collection and the price list write it.

These were met on the way; the passing runs leave the operations out, or name the
exception:

- a late payment callback or an old arrival button writes the status of a finished
  order (`payment-webhook.controller.ts:81`, `telegram.update.ts:2485`);
- the bot's confirm button refunds an order nobody paid for, which the panel
  refuses (`telegram.update.ts:2087`, `return.service.ts:214`);
- an order its customer confirms has no return deadline, so the cron never
  completes it (`orders.service.ts:1890`); in `Lifecycle`, which has no such
  confirmation, `DeliveredIsClosed` holds;
- expiring an order's reservation leaves its claim on the item, which hurts the
  next owner (`inventory.service.ts:46`);
- releasing a slot opens again a day that was closed by hand
  (`delivery.service.ts:250`);
- a like in the bot does not count before the next start
  (`telegram.update.ts:4892`);
- a preview that failed blocks its parameters for ever: the row's unique key
  refuses the next request (`ai.controller.ts:158`);
- a synchronisation puts sold and reserved pieces back on the shelf
  (`basko-sync.service.ts:208`);
- an order's date is changed without its slot, and its cancellation releases the day
  it was moved to (`orders.service.ts:1837`, `1307`, `1465`); a late payment revives a
  cancelled order without a slot (`payment-webhook.controller.ts:81`);
- a price that `create`, an import or a synchronisation writes leaves a collection
  with two prices (`carpets.service.ts:571`, `2664`, `basko-sync.service.ts:200`).
