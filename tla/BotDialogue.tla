---------------------------- MODULE BotDialogue ----------------------------
(***************************************************************************)
(* What the bot remembers of its conversations: the search dialogue of     *)
(* every chat (telegram.update.ts), the administrators' question about the *)
(* cost of a return, and the seller's panel with its prompts, its search   *)
(* sessions and the timer of its refresh (telegram-seller.service.ts).     *)
(*                                                                         *)
(* Updates are concurrent webhook calls.  A handler that awaits something  *)
(* its next lines depend on is a job of a worker; everything else of a     *)
(* handler runs in one step.  Texts and lists are members of small sets.   *)
(***************************************************************************)
EXTENDS Naturals, FiniteSets, Functions

CONSTANTS Chat, Worker, Session, Order,
          NoChat, NoOrder,
          ResultPages,  \* sizes of a result that is not empty, in pages
          MaxPrompts    \* bound: prompts, and refreshes under way, of a seller's chat

ASSUME DialogueAssumption ==
  /\ NoChat \notin Chat /\ NoOrder \notin Order
  /\ ResultPages \subseteq Nat \ {0} /\ MaxPrompts \in Nat

VARIABLES role,     \* who the chats are (isSeller, isAdmin)
          mode,     \* the search...State sets a chat is in
          search,   \* userSearchState: page of the chat's search, 0 for none
          question, \* pendingReturnApprovals
          panel,    \* sellerStates
          session,  \* searchSessions
          timer,    \* refreshes whose redirect is still to come
          task,     \* what each worker is in the middle of
          prompted, answered \* history: prompts of the panel, and answers

dialogueVars ==
  <<role, mode, search, question, panel, session, timer, task, prompted, answered>>

Mode == {"carpet", "name", "code", "size"}
Prompt == {"READY", "METRAJ", "OVAL", "BARCODE"}
Idling == [kind |-> "idle"]
NoSession == [chat |-> NoChat, pages |-> 0, page |-> 0]

\* Administrators are sellers too.
SellerChats == {c \in Chat : role[c] # "customer"}
AdminChats == {c \in Chat : role[c] = "admin"}

DialogueInit ==
  /\ role \in [Chat -> {"customer", "seller", "admin"}]
  /\ mode = [c \in Chat |-> {}]
  /\ search = [c \in Chat |-> 0]
  /\ question = [c \in Chat |-> NoOrder]
  /\ panel = [c \in Chat |-> "IDLE"]
  /\ session = [s \in Session |-> NoSession]
  /\ timer = [c \in Chat |-> 0]
  /\ task = [w \in Worker |-> Idling]
  /\ prompted = [c \in Chat |-> 0] /\ answered = [c \in Chat |-> 0]

Work(w, t) == task[w] = Idling /\ task' = [task EXCEPT ![w] = t]
Done(w) == task' = [task EXCEPT ![w] = Idling]

----------------------------------------------------------------------------
(* The search dialogue *)

\* clearSearchState forgets every mode but the customer's general search.
Cleared(c) == mode[c] \cap {"carpet"}

ClearModes(c) == mode' = [mode EXCEPT ![c] = Cleared(c)]
EnterMode(c, m) == mode' = [mode EXCEPT ![c] = Cleared(c) \cup {m}]
NewSearch(c) == search' = [search EXCEPT ![c] = 1]

\* A text reaches the dialogue when neither a prompt of the seller's panel nor
\* the question about a return takes it first.
Heard(c) == panel[c] = "IDLE" /\ question[c] = NoOrder

searchOnly == <<role, question, panel, session, timer, prompted, answered>>

\* Buttons and menu texts that only leave the dialogue.
LeaveSearch(c) ==
  /\ ClearModes(c)
  /\ UNCHANGED <<search, searchOnly, task>>

\* handleSearchCode, and a customer's "Gilam qidirish".
AskCode(c) == EnterMode(c, "code") /\ UNCHANGED <<search, searchOnly, task>>
AskCarpet(c) ==
  /\ c \notin SellerChats
  /\ EnterMode(c, "carpet")
  /\ UNCHANGED <<search, searchOnly, task>>

\* handleSearchName, handleSearchSize: the mode is entered before the list is
\* awaited, and left again when the list is empty.
AskFromList(w, c, m) ==
  /\ EnterMode(c, m)
  /\ Work(w, [kind |-> "list", chat |-> c, mode |-> m])
  /\ UNCHANGED <<search, searchOnly>>

ListArrives(w) ==
  /\ task[w].kind = "list"
  /\ \E empty \in BOOLEAN :
       mode' = IF empty THEN [mode EXCEPT ![task[w].chat] = @ \ {task[w].mode}]
               ELSE mode
  /\ Done(w)
  /\ UNCHANGED <<search, searchOnly>>

\* A text that starts a search at once: in the general and the code mode, or
\* in no mode at all; handlePremiumSearch, sel_name and cat_pick do the same.
SearchAtOnce(c) ==
  /\ Heard(c)
  /\ mode[c] \cap {"size", "name"} = {} \/ "carpet" \in mode[c]
  /\ mode' = IF mode[c] \cap {"carpet", "code"} # {}
             THEN [mode EXCEPT ![c] = Cleared(c)] ELSE mode
  /\ NewSearch(c)
  /\ UNCHANGED <<searchOnly, task>>

PickFromMenu(c) ==
  /\ ClearModes(c) /\ NewSearch(c)
  /\ UNCHANGED <<searchOnly, task>>

\* In the size and name modes the text is compared with a list that is awaited.
AnswerFromList(w, c) ==
  /\ Heard(c)
  /\ "carpet" \notin mode[c] /\ mode[c] \cap {"size", "name"} # {}
  /\ Work(w, [kind |-> "match", chat |-> c])
  /\ UNCHANGED <<mode, search, searchOnly>>

MatchArrives(w) ==
  LET c == task[w].chat IN
  /\ task[w].kind = "match"
  /\ \/ ClearModes(c) /\ NewSearch(c)      \* one of the list
     \/ UNCHANGED <<mode, search>>         \* asked to choose again
  /\ Done(w)
  /\ UNCHANGED searchOnly

\* The buttons under a result.  A stale button acts on the current search.
NextPage(c, last) ==
  /\ search[c] # 0 /\ search[c] <= last
  /\ search' = [search EXCEPT ![c] = @ + 1]
  /\ UNCHANGED <<mode, searchOnly, task>>

PreviousPage(c) ==
  /\ search[c] > 1
  /\ search' = [search EXCEPT ![c] = @ - 1]
  /\ UNCHANGED <<mode, searchOnly, task>>

\* filter_..._set_ makes a search if there is none; filter_clear keeps the query.
Filter(c) == NewSearch(c) /\ UNCHANGED <<mode, searchOnly, task>>
ClearFilters(c) == search[c] # 0 /\ NewSearch(c) /\ UNCHANGED <<mode, searchOnly, task>>

----------------------------------------------------------------------------
(* The cost of a return *)

\* admin_return_approve: the order is awaited, then the question replaces any
\* other of the same chat.
AskCost(c, o) ==
  /\ c \in AdminChats
  /\ question' = [question EXCEPT ![c] = o]
  /\ UNCHANGED <<role, mode, search, panel, session, timer, task, prompted, answered>>

\* The typed cost, unless the panel waits for a text: the question is read, the
\* order awaited, and whatever question the chat has by then is forgotten.
TypeCost(w, c) ==
  /\ panel[c] = "IDLE" /\ question[c] # NoOrder
  /\ Work(w, [kind |-> "cost", chat |-> c, order |-> question[c]])
  /\ UNCHANGED <<role, mode, search, question, panel, session, timer, prompted, answered>>

CostArrives(w) ==
  /\ task[w].kind = "cost"
  /\ question' = [question EXCEPT ![task[w].chat] = NoOrder]
  /\ Done(w)
  /\ UNCHANGED <<role, mode, search, panel, session, timer, prompted, answered>>

----------------------------------------------------------------------------
(* The seller's panel *)

panelOnly == <<role, mode, search, question>>

SetPanel(c, p) == panel' = [panel EXCEPT ![c] = p]

\* A menu text or a seller_ask_... button.
PromptSeller(c, p) ==
  /\ c \in SellerChats /\ prompted[c] < MaxPrompts
  /\ SetPanel(c, p)
  /\ prompted' = [prompted EXCEPT ![c] = @ + 1]
  /\ UNCHANGED <<panelOnly, session, timer, task, answered>>

\* showSellerMainMenu
ShowSellerMainMenu(c) ==
  /\ c \in SellerChats
  /\ SetPanel(c, "IDLE")
  /\ UNCHANGED <<panelOnly, session, timer, task, prompted, answered>>

\* handleSyncFlow: the report is awaited, and five seconds after it the main
\* menu is shown.
SyncFlow(w, c) ==
  /\ c \in SellerChats /\ timer[c] < MaxPrompts
  /\ SetPanel(c, "IDLE")
  /\ Work(w, [kind |-> "report", chat |-> c])
  /\ UNCHANGED <<panelOnly, session, timer, prompted, answered>>

SyncReported(w) ==
  LET c == task[w].chat IN
  /\ task[w].kind = "report"
  /\ timer' = [timer EXCEPT ![c] = @ + 1]
  /\ Done(w)
  /\ UNCHANGED <<panelOnly, panel, session, prompted, answered>>

Redirect(c) ==
  /\ timer[c] # 0
  /\ timer' = [timer EXCEPT ![c] = @ - 1]
  /\ SetPanel(c, "IDLE")
  /\ UNCHANGED <<panelOnly, session, task, prompted, answered>>

\* What is awaited: a piece by its barcode, or a list by its size.
Awaited(c) == IF panel[c] = "BARCODE" THEN "piece" ELSE "results"

\* Fault: the prompt stays open while its results are awaited.
AnswerKeepsPrompt(w, c) ==
  /\ panel[c] # "IDLE"
  /\ answered' = [answered EXCEPT ![c] = @ + 1]
  /\ Work(w, [kind |-> Awaited(c), chat |-> c])
  /\ UNCHANGED <<panelOnly, panel, session, timer, prompted>>

\* A text that answers the prompt: the prompt is over before anything is
\* awaited, and over too when the text is not a dimension.
AnswerPrompt(w, c) ==
  /\ panel[c] # "IDLE" /\ task[w] = Idling
  /\ SetPanel(c, "IDLE")
  /\ answered' = [answered EXCEPT ![c] = @ + 1]
  /\ \/ Work(w, [kind |-> Awaited(c), chat |-> c])
     \/ UNCHANGED task
  /\ UNCHANGED <<panelOnly, session, timer, prompted>>

\* handleFavoritesList
FavoritesList(w, c) ==
  /\ c \in SellerChats
  /\ SetPanel(c, "IDLE")
  /\ Work(w, [kind |-> "results", chat |-> c])
  /\ UNCHANGED <<panelOnly, session, timer, prompted, answered>>

\* Fault: pages are counted from zero.
ShownFromZero(s, v, page, old) ==
  session' = [x \in Session |->
    IF x \in old THEN NoSession ELSE IF x = s THEN [v EXCEPT !.page = page - 1]
    ELSE session[x]]

\* renderProductAlbum: the page that is shown becomes the session's page, and
\* the sessions older than half an hour (old) are dropped.
Shown(s, v, page, old) ==
  session' = [x \in Session |->
    IF x \in old THEN NoSession
    ELSE IF x = s THEN [v EXCEPT !.page = IF page > v.pages THEN v.pages ELSE page]
    ELSE session[x]]

\* The results have come: nothing was found, or a new session shows its
\* first page.
ResultsArrive(w) ==
  LET c == task[w].chat IN
  /\ task[w].kind = "results"
  /\ \/ UNCHANGED session
     \/ \E s \in Session, n \in ResultPages :
          /\ session[s] = NoSession
          /\ \E old \in SUBSET (Session \ {s}) :
               Shown(s, [chat |-> c, pages |-> n, page |-> 1], 1, old)
  /\ Done(w)
  /\ UNCHANGED <<panelOnly, panel, timer, prompted, answered>>

\* seller_page_..., seller_back_...: a button of an album pressed by its owner.
TurnPage(c, s, page) ==
  /\ session[s].chat = c /\ page <= session[s].pages
  /\ \E old \in SUBSET Session : Shown(s, session[s], page, old)
  /\ UNCHANGED <<panelOnly, panel, timer, task, prompted, answered>>

\* handleBarcodeSearch: the card of the piece, if there is one, opens no session.
PieceArrives(w) ==
  /\ task[w].kind = "piece"
  /\ Done(w)
  /\ UNCHANGED <<panelOnly, panel, session, timer, prompted, answered>>

----------------------------------------------------------------------------
\* The process restarts: conversations, sessions and timers are lost.
RestartBot ==
  /\ mode' = [c \in Chat |-> {}]
  /\ search' = [c \in Chat |-> 0]
  /\ question' = [c \in Chat |-> NoOrder]
  /\ panel' = [c \in Chat |-> "IDLE"]
  /\ session' = [s \in Session |-> NoSession]
  /\ timer' = [c \in Chat |-> 0]
  /\ task' = [w \in Worker |-> Idling]
  /\ UNCHANGED <<role, prompted, answered>>

SearchText(w, c) ==
  \/ LeaveSearch(c) \/ AskCode(c) \/ AskCarpet(c)
  \/ \E m \in {"name", "size"} : AskFromList(w, c, m)
  \/ SearchAtOnce(c) \/ PickFromMenu(c) \/ AnswerFromList(w, c)
  \/ \E last \in ResultPages : NextPage(c, last)
  \/ PreviousPage(c) \/ Filter(c) \/ ClearFilters(c)

PanelText(w, c) ==
  \/ \E p \in Prompt : PromptSeller(c, p)
  \/ ShowSellerMainMenu(c) \/ SyncFlow(w, c)
  \/ AnswerPrompt(w, c) \/ FavoritesList(w, c)
  \/ \E s \in Session, page \in ResultPages : TurnPage(c, s, page)

Finish(w) ==
  ListArrives(w) \/ MatchArrives(w) \/ CostArrives(w) \/ SyncReported(w)
  \/ ResultsArrive(w) \/ PieceArrives(w)

DialogueNext ==
  \/ \E w \in Worker : Finish(w)
  \/ \E w \in Worker, c \in Chat : SearchText(w, c) \/ PanelText(w, c) \/ TypeCost(w, c)
  \/ \E c \in Chat, o \in Order : AskCost(c, o)
  \/ \E c \in Chat : Redirect(c)
  \/ RestartBot

DialogueSpec == DialogueInit /\ [][DialogueNext]_dialogueVars

----------------------------------------------------------------------------
(* What must be true *)

Chatting == {"list", "match", "cost", "report", "results", "piece"}

DialogueTypeOK ==
  /\ role \in [Chat -> {"customer", "seller", "admin"}]
  /\ mode \in [Chat -> SUBSET Mode] /\ search \in [Chat -> Nat]
  /\ question \in [Chat -> Order \cup {NoOrder}]
  /\ panel \in [Chat -> Prompt \cup {"IDLE"}]
  /\ \A s \in Session :
       \/ session[s] = NoSession
       \/ session[s].chat \in SellerChats /\ session[s].page \in 1 .. session[s].pages
  /\ timer \in [Chat -> Nat]
  /\ \A w \in Worker :
       \/ task[w] = Idling
       \/ task[w].kind \in Chatting /\ task[w].chat \in Chat

\* One prompt of the panel takes one text, although its results are awaited
\* and the seller may write again before they come.
PromptAnsweredOnce == \A c \in Chat : answered[c] <= prompted[c]
=============================================================================
