------------------------------ MODULE BotRoles ------------------------------
(***************************************************************************)
(* Who is who: the users table, the website operations that write a role   *)
(* or a Telegram link, and the Telegram handlers that do the same: /start  *)
(* with its invitations, the approval of admins, the shared phone number.  *)
(*                                                                         *)
(* Telegram updates arrive as concurrent webhook calls.  A handler is a    *)
(* job of a worker; between two of its awaits it runs alone.  Everything   *)
(* but the table is in memory and is lost by a restart.                    *)
(*                                                                         *)
(* Every chat has a username, written here as the chat itself.             *)
(***************************************************************************)
EXTENDS Naturals, FiniteSets, Functions

CONSTANTS User,      \* rows the users table may hold
          Chat,      \* Telegram chats
          Link,      \* one-time links of sellers
          CourierLink, \* one-time links of couriers
          Worker,    \* handlers that can run at the same time
          NoChat,
          OwnerChat, \* the chat of DEFAULT_ADMIN
          OwnerRow,  \* the row of the default superadmin
          Person,    \* the nine digits of each row's telephone number
          MaxAsks,   \* bound: requests one chat makes to become an admin
          OpGroups   \* the groups of operations explored, one at a time

ASSUME RolesAssumption ==
  /\ OwnerChat \in Chat /\ OwnerRow \in User
  /\ NoChat \notin Chat /\ "none" \notin Chat
  /\ MaxAsks \in Nat

VARIABLES users,         \* the table: role, telegramChatId, telegramUsername
          requests,      \* pendingRequests
          preApproved,   \* preApprovedChatIds
          pendingSeller, \* pendingSellerApprovals
          links,         \* sellerInviteTokens and courierInviteTokens
          job,           \* what each worker is in the middle of
          tx,            \* the open transaction of each worker
          asked,         \* history: requests each chat has made
          decided,       \* history: requests of each chat taken by an admin
          accepted,      \* history: chats each link let in
          started,      \* history: approved, registered chats that sent /start
          ops,           \* the operations in use, one group of OpGroups
          refused        \* history: handlers stopped by a unique key although
                         \* nobody wrote their chat during their transaction

roleVars == <<users, requests, preApproved, pendingSeller, links,
              job, tx, asked, decided, accepted, refused, started,
              ops>>
memory == <<requests, preApproved, pendingSeller, links>>
history == <<asked, decided, accepted, refused, started>>

UserRole == {"SUPERADMIN", "ADMIN", "CUSTOMER", "SELLER", "COURIER"}
Admins == {"ADMIN", "SUPERADMIN"}
Row == [role : UserRole \cup {"NONE"},
        chat : Chat \cup {NoChat}, uname : Chat \cup {NoChat}]
NoRow == [role |-> "NONE", chat |-> NoChat, uname |-> NoChat]
Idle == [kind |-> "idle"]
AllLinks == Link \cup CourierLink

\* The handlers whose write is a transaction that first takes the chat, and
\* but for the shared contact the username, from other rows.
Linking == {"userJoin", "sellerJoin", "startSeller", "courierJoin"}

\* How far a transaction is, and the rows it has taken the chat and the
\* username from.
Tx == [step : {"none", "chat", "name"}, chats : SUBSET User, names : SUBSET User,
       crossed : BOOLEAN]
NoTx == [step |-> "none", chats |-> {}, names |-> {}, crossed |-> FALSE]

RolesInit ==
  /\ users = [u \in User |->
       IF u = OwnerRow THEN [NoRow EXCEPT !.role = "SUPERADMIN"] ELSE NoRow]
  /\ requests = {} /\ preApproved = {} /\ pendingSeller = {}
  /\ links = [t \in AllLinks |-> "none"]
  /\ job = [w \in Worker |-> Idle] /\ tx = [w \in Worker |-> NoTx]
  /\ asked = [c \in Chat |-> 0] /\ decided = [c \in Chat |-> 0]
  /\ accepted = [t \in AllLinks |-> {}]
  /\ refused = {} /\ started = {}
  /\ ops \in OpGroups

----------------------------------------------------------------------------
(* The table *)

Exists(u) == users[u].role # "NONE"

\* The rows findFirst may return for a chat and its username.
FoundFor(c) ==
  {u \in User : Exists(u) /\ (users[u].chat = c \/ users[u].uname = c)}

\* isAdmin, isSuperAdmin: the row linked to the chat, or the owner's username.
IsAdmin(c) ==
  c = OwnerChat \/ \E u \in User : users[u].chat = c /\ users[u].role \in Admins
IsSuperAdmin(c) ==
  c = OwnerChat \/ \E u \in User : users[u].chat = c /\ users[u].role = "SUPERADMIN"

\* telegramChatId and telegramUsername are unique keys.
KeysHold(us) ==
  \A u, v \in User : u # v =>
    /\ us[u].chat = NoChat \/ us[u].chat # us[v].chat
    /\ us[u].uname = NoChat \/ us[u].uname # us[v].uname

\* The other rows that hold the chat or the username of handler w.
WithChat(w) == {v \in User \ {job[w].user} : users[v].chat = job[w].chat}
WithName(w) == {v \in User \ {job[w].user} : users[v].uname = job[w].chat}

\* Fault: the other rows keep the chat.
RelinkAlone(w, r) ==
  [users EXCEPT ![job[w].user] =
     [role |-> r, chat |-> job[w].chat, uname |-> job[w].chat]]

\* What the transaction commits: the rows it has taken lose the chat, unless
\* they lost it to somebody else meanwhile, and its own row is linked.
Relink(w, r) ==
  LET c == job[w].chat IN
  [v \in User |->
     IF v = job[w].user THEN [role |-> r, chat |-> c, uname |-> c]
     ELSE [users[v] EXCEPT
             !.chat = IF v \in tx[w].chats /\ @ = c THEN NoChat ELSE @,
             !.uname = IF v \in tx[w].names /\ @ = c THEN NoChat ELSE @]]

\* Fault: a chat without a username is written as the text "none".
RelinkContactNoName(w) ==
  [users EXCEPT ![job[w].user].chat = job[w].chat, ![job[w].user].uname = "none"]

\* A shared contact takes the chat, but not the username, from other rows.
RelinkContact(w) == Relink(w, users[job[w].user].role)

\* A plain update of one row.
Overwrite(u, c, r) == [users EXCEPT ![u] = [role |-> r, chat |-> c, uname |-> c]]
SetRole(u, r) == [users EXCEPT ![u].role = r]

\* What handler w writes.  An update of a deleted row, or one that breaks a
\* unique key, throws and changes nothing.
Statement(w) ==
  LET j == job[w] IN
  CASE j.kind \in {"sellerJoin", "startSeller"} -> Relink(w, "SELLER")
    [] j.kind = "courierJoin" -> Relink(w, "COURIER")
    [] j.kind = "userJoin" -> Relink(w, users[j.user].role)
    [] j.kind \in {"adminJoin", "approve"} -> Overwrite(j.user, j.chat, "ADMIN")
    [] j.kind = "startOwner" -> Overwrite(j.user, j.chat, "SUPERADMIN")
    [] j.kind = "startKnown" -> Overwrite(j.user, j.chat, users[j.user].role)
    [] j.kind = "contact" -> RelinkContact(w)
    [] j.kind = "newCourier" -> Overwrite(j.user, j.chat, "COURIER")
    [] j.kind = "autoLink" ->
         [users EXCEPT ![j.user].chat = j.chat, ![j.user].uname = j.chat]
    [] j.kind = "role" -> SetRole(j.user, j.role)
    [] j.kind = "remove" -> [users EXCEPT ![j.user] = NoRow]

Succeeds(w) ==
  /\ job[w].kind = "newCourier" <=> ~Exists(job[w].user)
  /\ KeysHold(Statement(w))

Begin(w, j) == job[w] = Idle /\ job' = [job EXCEPT ![w] = j]
Continue(w, j) == job' = [job EXCEPT ![w] = j]
End(w) == job' = [job EXCEPT ![w] = Idle]
Asking(k, c) == [kind |-> k, chat |-> c]
Writing(k, u, c) == [kind |-> k, chat |-> c, user |-> u]

\* The statements of a transaction under READ COMMITTED: each sees the rows
\* that are linked when it runs, and others see what it writes at the commit.
\* A write of a taken row waits for the commit; letting it go first is the
\* order in which it was made before the row was taken.
TakeChat(w) ==
  /\ job[w].kind \in Linking \cup {"contact"} /\ tx[w].step = "none"
  /\ tx' = [tx EXCEPT ![w] = [NoTx EXCEPT !.step = "chat", !.chats = WithChat(w)]]
  /\ UNCHANGED <<users, memory, job, history>>

TakeName(w) ==
  /\ job[w].kind \in Linking /\ tx[w].step = "chat"
  /\ tx' = [tx EXCEPT ![w].step = "name", ![w].names = WithName(w)]
  /\ UNCHANGED <<users, memory, job, history>>

\* Two handlers that wait for each other's rows: one of them is aborted.
Deadlock(w) ==
  /\ "user" \in DOMAIN job[w]
  /\ \E x \in Worker \ {w} :
       /\ "user" \in DOMAIN job[x] /\ {tx[w].step, tx[x].step} # {"none"}
       /\ \/ job[x].chat = job[w].chat \/ job[x].user = job[w].user
          \/ job[w].user \in tx[x].chats \cup tx[x].names
          \/ job[x].user \in tx[w].chats \cup tx[w].names
  /\ End(w) /\ tx' = [tx EXCEPT ![w] = NoTx]
  /\ UNCHANGED <<users, memory, history>>

\* Handler w gives the chat of an open transaction to another row than it does.
Crosses(w, x) ==
  /\ tx[x].step # "none" /\ job[w].kind \notin {"role", "remove"}
  /\ job[x].chat = job[w].chat /\ job[x].user # job[w].user

\* The last step of every handler: its write, and what it does after it.
Write(w) ==
  LET j == job[w] IN
  /\ "user" \in DOMAIN j
  /\ tx[w].step = CASE j.kind \in Linking -> "name"
                    [] j.kind = "contact" -> "chat"
                    [] OTHER -> "none"
  /\ End(w)
  /\ IF Succeeds(w)
     THEN /\ users' = Statement(w)
          /\ tx' = [x \in Worker |->
                     IF x = w THEN NoTx
                     ELSE [tx[x] EXCEPT !.crossed = @ \/ Crosses(w, x)]]
          /\ pendingSeller' = IF j.kind \in {"sellerJoin", "startSeller"}
                              THEN pendingSeller \ {j.chat} ELSE pendingSeller
          /\ UNCHANGED refused
     ELSE /\ refused' = IF Exists(j.user) /\ ~tx[w].crossed
                        THEN refused \cup {j.kind} ELSE refused
          /\ tx' = [tx EXCEPT ![w] = NoTx]
          /\ UNCHANGED <<users, pendingSeller>>
  /\ UNCHANGED <<requests, preApproved, links, asked, decided, accepted,
                 started>>

----------------------------------------------------------------------------
(* Invitations *)

\* handleSellerInviteLink, handleCourierInviteLink: an administrator gets a link.
CreateLink(a, t) ==
  /\ IsAdmin(a) /\ links[t] = "none" /\ accepted[t] = {}
  /\ links' = [links EXCEPT ![t] = NoChat]
  /\ UNCHANGED <<users, tx, requests, preApproved, pendingSeller, job, history>>

\* purgeExpiredTokens, a day after the link was made.
PurgeLink(t) ==
  /\ links[t] # "none"
  /\ links' = [links EXCEPT ![t] = "none"]
  /\ UNCHANGED <<users, tx, requests, preApproved, pendingSeller, job, history>>

\* A chat opens a link; the handler then awaits the row of the chat.
OpenLink(w, c, t) ==
  /\ links[t] \in {NoChat, c}
  /\ Begin(w, [kind |-> IF t \in Link THEN "sellerRead" ELSE "courierRead",
              chat |-> c, link |-> t])
  /\ UNCHANGED <<users, tx, memory, history>>

\* Fault: the link is marked without a second look.
MarkUsedAgain(t, c) == links' = [links EXCEPT ![t] = c]

\* The code puts a purged link back; every look purges it again before it
\* is used, so here it stays away.
MarkUsed(t, c) ==
  links' = IF links[t] = NoChat THEN [links EXCEPT ![t] = c] ELSE links

Accept(t, c) == accepted' = [accepted EXCEPT ![t] = @ \cup {c}]

\* An administrator's row is not turned into a seller's; a chat without a row
\* waits for its registration.
SellerRead(w) ==
  LET c == job[w].chat  t == job[w].link IN
  /\ job[w].kind = "sellerRead"
  /\ \/ \E u \in FoundFor(c) :
          /\ users[u].role \in Admins
          /\ End(w) /\ UNCHANGED <<links, pendingSeller, accepted>>
     \/ \E u \in FoundFor(c) :
          /\ users[u].role \notin Admins
          /\ MarkUsed(t, c) /\ Accept(t, c)
          /\ Continue(w, Writing("sellerJoin", u, c))
          /\ UNCHANGED pendingSeller
     \/ /\ FoundFor(c) = {}
        /\ MarkUsed(t, c) /\ Accept(t, c)
        /\ pendingSeller' = pendingSeller \cup {c}
        /\ End(w)
  /\ UNCHANGED <<users, tx, requests, preApproved, asked, decided, refused, started>>

\* A courier's link takes any row, and makes one for a chat without a row.
CourierRead(w) ==
  LET c == job[w].chat  t == job[w].link IN
  /\ job[w].kind = "courierRead"
  /\ MarkUsed(t, c) /\ Accept(t, c)
  /\ \/ \E u \in FoundFor(c) : Continue(w, Writing("courierJoin", u, c))
     \/ /\ FoundFor(c) = {}
        /\ \E u \in User : ~Exists(u) /\ Continue(w, Writing("newCourier", u, c))
  /\ UNCHANGED <<users, tx, requests, preApproved, pendingSeller, asked,
                 decided, refused, started>>

----------------------------------------------------------------------------
(* Administrators *)

\* The link of administrators: one pending request, or an earlier approval,
\* ends the handler.
AdminJoin(w, c) ==
  /\ c \notin requests \cup preApproved
  /\ Begin(w, Asking("adminRead", c))
  /\ UNCHANGED <<users, tx, memory, history>>

AdminRead(w) ==
  LET c == job[w].chat IN
  /\ job[w].kind = "adminRead"
  /\ \/ \E u \in FoundFor(c) :
          Continue(w, Writing("adminJoin", u, c)) /\ UNCHANGED <<requests, asked>>
     \/ /\ FoundFor(c) = {} /\ asked[c] < MaxAsks
        /\ requests' = requests \cup {c}
        /\ asked' = [asked EXCEPT ![c] = IF c \in requests THEN @ ELSE @ + 1]
        /\ End(w)
  /\ UNCHANGED <<users, tx, preApproved, pendingSeller, links, decided,
                 accepted, refused, started>>

\* Fault: the request is only taken once the row has been written.
RequestLeft(c) ==
  /\ c \in requests
  /\ decided' = [decided EXCEPT ![c] = @ + 1] /\ UNCHANGED requests

\* The request is taken before anything is awaited.
TakeRequest(c) ==
  /\ c \in requests
  /\ requests' = requests \ {c}
  /\ decided' = [decided EXCEPT ![c] = @ + 1]

Approve(w, a, c) ==
  /\ IsAdmin(a)
  /\ TakeRequest(c)
  /\ Begin(w, Asking("approveRead", c))
  /\ UNCHANGED <<users, tx, preApproved, pendingSeller, links, asked,
                 accepted, refused, started>>

ApproveRead(w) ==
  LET c == job[w].chat IN
  /\ job[w].kind = "approveRead"
  /\ \/ \E u \in FoundFor(c) :
          Continue(w, Writing("approve", u, c)) /\ UNCHANGED preApproved
     \/ FoundFor(c) = {} /\ preApproved' = preApproved \cup {c} /\ End(w)
  /\ UNCHANGED <<users, tx, requests, pendingSeller, links, history>>

Reject(a, c) ==
  /\ IsAdmin(a)
  /\ TakeRequest(c)
  /\ UNCHANGED <<users, tx, preApproved, pendingSeller, links, job, asked, accepted,
                 refused, started>>

\* /add_admin of a superadmin, /add_seller of an administrator, and the role
\* page of the website: the row is read, then its role is written.
AddAdmin(w, a, u) ==
  /\ IsSuperAdmin(a) /\ Exists(u)
  /\ Begin(w, [kind |-> "role", user |-> u, chat |-> a, role |-> "ADMIN"])
  /\ UNCHANGED <<users, tx, memory, history>>

AddSeller(w, a, u) ==
  /\ IsAdmin(a) /\ Exists(u) /\ users[u].role \notin Admins
  /\ Begin(w, [kind |-> "role", user |-> u, chat |-> a, role |-> "SELLER"])
  /\ UNCHANGED <<users, tx, memory, history>>

UpdateRole(w, current, u, r) ==
  /\ current # u /\ users[current].role \in Admins
  /\ Exists(u) /\ users[u].role # "SUPERADMIN"
  /\ Begin(w, [kind |-> "role", user |-> u, chat |-> NoChat, role |-> r])
  /\ UNCHANGED <<users, tx, memory, history>>

Remove(w, current, u) ==
  /\ current # u /\ users[current].role \in Admins /\ Exists(u)
  /\ Begin(w, Writing("remove", u, NoChat))
  /\ UNCHANGED <<users, tx, memory, history>>

----------------------------------------------------------------------------
(* Linking a row to a chat *)

\* The link in the customer's profile: the token names the row.
UserJoin(w, c, u) ==
  /\ Exists(u)
  /\ Begin(w, Writing("userJoin", u, c))
  /\ UNCHANGED <<users, tx, memory, history>>

\* The telephone number names the row.
Contact(w, c, u) ==
  /\ Exists(u)
  /\ Begin(w, Writing("contact", u, c))
  /\ UNCHANGED <<users, tx, memory, history>>

\* getProfile: a row without a chat is given that of a row with the same digits.
GetProfile(w, u) ==
  /\ Exists(u) /\ users[u].chat = NoChat
  /\ \E v \in User \ {u} :
       /\ users[v].chat # NoChat /\ Person[v] = Person[u]
       /\ Begin(w, Writing("autoLink", u, users[v].chat))
  /\ UNCHANGED <<users, tx, memory, history>>

\* /start without an argument, once the row of the chat has been read.
Start(w, c) ==
  /\ job[w] = Idle
  /\ \/ /\ c \in pendingSeller
        /\ \E u \in FoundFor(c) :
             IF users[u].role \in Admins
             THEN pendingSeller' = pendingSeller \ {c} /\ UNCHANGED job
             ELSE Begin(w, Writing("startSeller", u, c)) /\ UNCHANGED pendingSeller
     \/ /\ c \notin pendingSeller /\ c = OwnerChat
        /\ \E u \in IF FoundFor(c) = {} THEN {OwnerRow} ELSE FoundFor(c) :
             Exists(u) /\ Begin(w, Writing("startOwner", u, c))
        /\ UNCHANGED pendingSeller
     \/ /\ c \notin pendingSeller /\ c # OwnerChat
        /\ \E u \in FoundFor(c) :
             IF users[u].role = "CUSTOMER" THEN UNCHANGED job
             ELSE Begin(w, Writing("startKnown", u, c))
        /\ UNCHANGED pendingSeller
  /\ started' = IF c \in preApproved /\ FoundFor(c) # {}
                 THEN started \cup {c} ELSE started
  /\ UNCHANGED <<users, tx, requests, preApproved, links, asked, decided, accepted,
                 refused>>

----------------------------------------------------------------------------
(* The website's registration, and a restart *)

\* createCustomer: a new row for a number no other row has.
Register(u) ==
  /\ ~Exists(u)
  /\ users' = [users EXCEPT ![u].role = "CUSTOMER"]
  /\ UNCHANGED <<memory, tx, job, history>>

\* The process restarts: memory is empty, and the default superadmin is ensured.
Restart ==
  /\ requests' = {} /\ preApproved' = {} /\ pendingSeller' = {}
  /\ links' = [t \in AllLinks |-> "none"]
  /\ job' = [w \in Worker |-> Idle] /\ tx' = [w \in Worker |-> NoTx]
  /\ users' = SetRole(OwnerRow, "SUPERADMIN")
  /\ UNCHANGED history

HandlerStep(w) ==
  \/ TakeChat(w) \/ TakeName(w) \/ Deadlock(w) \/ Write(w)
  \/ SellerRead(w) \/ CourierRead(w) \/ AdminRead(w) \/ ApproveRead(w)

Uses(op) == op \in ops

Message(w) ==
  \/ \E c \in Chat : Uses("admins") /\ AdminJoin(w, c)
  \/ \E c \in Chat : Uses("start") /\ Start(w, c)
  \/ \E c \in Chat, t \in AllLinks : OpenLink(w, c, t)
  \/ \E c \in Chat, u \in User : Uses("userJoin") /\ UserJoin(w, c, u)
  \/ \E c \in Chat, u \in User : Uses("contact") /\ Contact(w, c, u)
  \/ \E a, c \in Chat : Approve(w, a, c)
  \/ \E a \in Chat, u \in User : Uses("roles") /\ (AddAdmin(w, a, u) \/ AddSeller(w, a, u))
  \/ \E v, u \in User, r \in UserRole : Uses("roles") /\ UpdateRole(w, v, u, r)
  \/ \E v, u \in User : Uses("remove") /\ Remove(w, v, u)
  \/ \E u \in User : Uses("contact") /\ GetProfile(w, u)

RolesNext ==
  /\ \/ \E w \in Worker : HandlerStep(w) \/ Message(w)
     \/ \E a, c \in Chat : Reject(a, c)
     \/ \E a \in Chat, t \in Link : Uses("links") /\ CreateLink(a, t)
     \/ \E a \in Chat, t \in CourierLink : Uses("couriers") /\ CreateLink(a, t)
     \/ \E t \in AllLinks : PurgeLink(t)
     \/ \E u \in User : Register(u)
     \/ Restart
  /\ UNCHANGED ops

RolesSpec == RolesInit /\ [][RolesNext]_roleVars
----------------------------------------------------------------------------
(* What must be true *)

RolesTypeOK ==
  /\ users \in [User -> Row]
  /\ requests \subseteq Chat /\ preApproved \subseteq Chat
  /\ pendingSeller \subseteq Chat
  /\ links \in [AllLinks -> Chat \cup {NoChat, "none"}]
  /\ \A w \in Worker : job[w].kind = "idle" \/ job[w].chat \in Chat \cup {NoChat}
  /\ tx \in [Worker -> Tx]
  /\ asked \in [Chat -> Nat] /\ decided \in [Chat -> Nat]
  /\ accepted \in [AllLinks -> SUBSET Chat]

\* However the presses of several administrators interleave, a request is
\* decided at most once: approving or rejecting takes it before awaiting.
DecidedOnce ==
  \A c \in Chat :
    decided[c] + (IF c \in requests THEN 1 ELSE 0) <= asked[c]

\* A used link keeps the person who used it first, although the handler looks
\* at the link before it reads the database and marks it afterwards.
LinkKeepsFirst ==
  [][\A t \in AllLinks :
       links[t] \in Chat => links'[t] \in {links[t], "none"}]_roleVars

\* The transactions that link a chat (the profile's link, the invitations of
\* sellers and couriers) are stopped by the unique keys only when somebody
\* gives the same chat to another row between their statements; no row that is
\* linked already, and no change to any other row, stops them.
LinkingRefusedOnlyIfCrossed == refused \cap Linking = {}

\* A person approved before registering is an administrator after registering
\* and sending /start ("keyin botga /start deb yozing - avtomatik Admin
\* bo'lasiz").
PreApprovedBecomesAdmin ==
  \A c \in started :
    \/ \E w \in Worker : job[w].kind # "idle" /\ job[w].chat = c
    \/ IsAdmin(c)
=============================================================================
