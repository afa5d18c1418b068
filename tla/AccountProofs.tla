--------------------------- MODULE AccountProofs ---------------------------
(***************************************************************************)
(* For any number of users, devices, tokens, chats and concurrent requests: *)
(* a refresh token is exchanged twice only in a race, and a session that   *)
(* was ended comes back only through a refresh that was under way; a       *)
(* request to become an administrator is decided once, a link keeps the    *)
(* person who used it first, and linking a chat is refused by a unique key  *)
(* only when somebody else gives the chat away meanwhile; a code works      *)
(* once, and an account keeps its email.                                   *)
(***************************************************************************)
EXTENDS Accounts, TLAPS

SessionRow == [state : {"live", "revoked"}, user : Account, device : Device]
SignJob == [kind : {"sign"}, user : Account, device : Device]
TokenJob == [kind : {"exchange", "reuse"}, token : Token, user : Account, device : Device]

Typed ==
  /\ token \in [Token -> {Unused} \cup SessionRow]
  /\ request \in [Request -> {Waiting} \cup SignJob \cup TokenJob]
  /\ ended \in SUBSET Device /\ late \in SUBSET Device /\ raced \in SUBSET Token
  /\ rotated \in [Token -> Nat]

Busy(r) == request[r].kind # "none"
HasToken(r) == request[r].kind \in {"exchange", "reuse"}
Refreshes(r) == request[r].kind \in {"exchange", "sign"}

\* A request works for the user and the device of the token it has read.
JobFits(r) ==
  HasToken(r) => /\ token[request[r].token].state # "none"
                 /\ token[request[r].token].user = request[r].user
                 /\ token[request[r].token].device = request[r].device

\* A device is of one user, in the table and in what requests remember.
OneOwner ==
  /\ \A s, t \in Stored : token[s].device = token[t].device => token[s].user = token[t].user
  /\ \A t \in Stored, r \in Request :
       Busy(r) /\ token[t].device = request[r].device => token[t].user = request[r].user
  /\ \A q, r \in Request :
       Busy(q) /\ Busy(r) /\ request[q].device = request[r].device
         => request[q].user = request[r].user

\* What a token was exchanged for is over; who holds it besides is in a race.
ExchangeRevokes == \A t \in Token : rotated[t] > 0 => token[t].state = "revoked"
Holds(r, t) == request[r].kind = "exchange" /\ request[r].token = t
RacesSeen ==
  \A r \in Request, t \in Token :
    Holds(r, t) => /\ rotated[t] > 0 => t \in raced
                   /\ \A q \in Request \ {r} : Holds(q, t) => t \in raced

\* A refresh of a session that was ended was under way when it was.
LateSeen == \A r \in Request : Refreshes(r) /\ request[r].device \in ended
                                 => request[r].device \in late

SessionInv ==
  /\ Typed
  /\ \A r \in Request : JobFits(r)
  /\ OneOwner
  /\ ExchangeRevokes /\ RacesSeen /\ RotatedOnceUnlessRaced
  /\ LateSeen /\ EndedStaysEnded

----------------------------------------------------------------------------
LEMMA InitSession == SessionsInit => SessionInv
<1> SUFFICES ASSUME SessionsInit PROVE SessionInv
  OBVIOUS
<1>1. Typed
  BY DEF SessionsInit, Typed
<1>2. \A r \in Request : JobFits(r) /\ ~Busy(r) /\ ~Refreshes(r)
  BY DEF SessionsInit, JobFits, HasToken, Busy, Refreshes, Waiting
<1>3. Stored = {} /\ Live = {}
  BY DEF SessionsInit, Stored, Live, Unused
<1>4. OneOwner /\ LateSeen /\ EndedStaysEnded
  BY <1>2, <1>3 DEF OneOwner, LateSeen, EndedStaysEnded
<1>5. ExchangeRevokes /\ RacesSeen /\ RotatedOnceUnlessRaced
  BY DEF SessionsInit, ExchangeRevokes, RacesSeen, RotatedOnceUnlessRaced, Holds, Waiting
<1> QED
  BY <1>1, <1>2, <1>4, <1>5 DEF SessionInv

\* What the two kinds of records are.
LEMMA Kinds ==
  ASSUME Typed
  PROVE  /\ \A t \in Token : token[t].state \in {"none", "live", "revoked"}
         /\ \A t \in Token : token[t].state # "none" => token[t] \in SessionRow
         /\ \A r \in Request : request[r].kind \in {"none", "sign", "exchange", "reuse"}
         /\ \A r \in Request : request[r].kind = "sign" => request[r] \in SignJob
         /\ \A r \in Request : HasToken(r) => request[r] \in TokenJob
         /\ \A r \in Request : request[r].kind = "none" => request[r] = Waiting
BY DEF Typed, SessionRow, SignJob, TokenJob, Unused, Waiting, HasToken

----------------------------------------------------------------------------
(* Steps that take up or drop a request and write no token. *)

LEMMA LoginStep ==
  ASSUME SessionInv, NEW r \in Request, NEW u \in Account, Login(r, u)
  PROVE  SessionInv'
<1>1. PICK d \in Device :
        /\ d \notin ended /\ d \notin Refreshing
        /\ \A t \in Stored : token[t].device # d
        /\ request[r] = Waiting
        /\ request' = [request EXCEPT ![r] = [kind |-> "sign", user |-> u, device |-> d]]
  BY DEF Login, Open
<1>2. UNCHANGED <<token, ended, late, rotated, raced>>
  BY DEF Login
<1>3. request'[r] = [kind |-> "sign", user |-> u, device |-> d]
      /\ \A q \in Request \ {r} : request'[q] = request[q]
  BY <1>1 DEF SessionInv, Typed
<1>4. \A q \in Request : Busy(q) => request[q].device # d
  <2> SUFFICES ASSUME NEW q \in Request, Busy(q) PROVE request[q].device # d
    OBVIOUS
  <2>1. CASE Refreshes(q)
    BY <1>1, <2>1 DEF Refreshing, Refreshes
  <2>2. CASE HasToken(q)
    <3>1. request[q].token \in Token /\ JobFits(q)
      BY <2>2, Kinds DEF SessionInv, TokenJob
    <3> QED
      BY <1>1, <2>2, <3>1 DEF JobFits, Stored
  <2> QED
    BY <2>1, <2>2, Kinds DEF SessionInv, Busy, Refreshes, HasToken
<1>5. Typed'
  BY <1>1, <1>2 DEF SessionInv, Typed, SignJob
<1>6. \A q \in Request : JobFits(q)'
  BY <1>2, <1>3 DEF SessionInv, JobFits, HasToken
<1>7. OneOwner'
  <2>1. Stored' = Stored
    BY <1>2 DEF Stored
  <2> QED
    BY <1>1, <1>2, <1>3, <1>4, <2>1 DEF SessionInv, OneOwner, Busy
<1>8. ExchangeRevokes' /\ RacesSeen' /\ RotatedOnceUnlessRaced'
  BY <1>2, <1>3 DEF SessionInv, ExchangeRevokes, RacesSeen, RotatedOnceUnlessRaced, Holds
<1>9. LateSeen' /\ EndedStaysEnded'
  BY <1>1, <1>2, <1>3 DEF SessionInv, LateSeen, EndedStaysEnded, Refreshes, Live
<1> QED
  BY <1>5, <1>6, <1>7, <1>8, <1>9 DEF SessionInv

LEMMA RefreshStep ==
  ASSUME SessionInv, NEW r \in Request, NEW t \in Token, RefreshAccessToken(r, t)
  PROVE  SessionInv'
<1> DEFINE k == IF Exchangeable(t) THEN "exchange" ELSE "reuse"
           new == [kind |-> k, token |-> t, user |-> token[t].user,
                   device |-> token[t].device]
<1>1. /\ t \in Stored /\ request[r] = Waiting
      /\ request' = [request EXCEPT ![r] = new]
      /\ raced \subseteq raced' /\ raced' \subseteq raced \cup {t}
      /\ (\E q \in Request : Holds(q, t)) => t \in raced'
      /\ UNCHANGED <<token, ended, late, rotated>>
  BY DEF RefreshAccessToken, Open, Holds
<1>2. request'[r] = new /\ \A q \in Request \ {r} : request'[q] = request[q]
  BY <1>1 DEF SessionInv, Typed
<1>3. token[t] \in SessionRow /\ new \in TokenJob
  BY <1>1, Kinds DEF SessionInv, Stored, SessionRow, TokenJob
<1>4. Typed'
  BY <1>1, <1>3 DEF SessionInv, Typed
<1>5. \A q \in Request : JobFits(q)'
  BY <1>1, <1>2 DEF SessionInv, JobFits, HasToken, Stored
<1>6. OneOwner'
  <2>1. Stored' = Stored
    BY <1>1 DEF Stored
  <2> QED
    BY <1>1, <1>2, <2>1 DEF SessionInv, OneOwner, Busy
<1>7. ExchangeRevokes' /\ RotatedOnceUnlessRaced'
  BY <1>1 DEF SessionInv, ExchangeRevokes, RotatedOnceUnlessRaced
<1>8. RacesSeen'
  <2>1. Exchangeable(t) => ~(rotated[t] > 0)
    BY DEF SessionInv, ExchangeRevokes, Exchangeable
  <2> QED
    BY <1>1, <1>2, <2>1 DEF SessionInv, RacesSeen, Holds
<1>9. LateSeen' /\ EndedStaysEnded'
  <2>1. Exchangeable(t) => (token[t].device \in ended => token[t].device \in late)
    BY DEF SessionInv, EndedStaysEnded, Exchangeable, Live
  <2> QED
    BY <1>1, <1>2, <2>1 DEF SessionInv, LateSeen, EndedStaysEnded, Refreshes, Live
<1> QED
  BY <1>4, <1>5, <1>6, <1>7, <1>8, <1>9 DEF SessionInv

LEMMA LogoutEverywhereStep ==
  ASSUME SessionInv, NEW r \in Request, NEW t \in Token, LogoutEverywhere(r, t)
  PROVE  SessionInv'
<1> DEFINE new == [kind |-> "reuse", token |-> t, user |-> token[t].user,
                   device |-> token[t].device]
<1>1. /\ t \in Stored /\ request[r] = Waiting
      /\ request' = [request EXCEPT ![r] = new]
      /\ UNCHANGED <<token, ended, late, rotated, raced>>
  BY DEF LogoutEverywhere, Open
<1>2. request'[r] = new /\ \A q \in Request \ {r} : request'[q] = request[q]
  BY <1>1 DEF SessionInv, Typed
<1>3. token[t] \in SessionRow /\ new \in TokenJob
  BY <1>1, Kinds DEF SessionInv, Stored, SessionRow, TokenJob
<1>4. Typed'
  BY <1>1, <1>3 DEF SessionInv, Typed
<1>5. \A q \in Request : JobFits(q)'
  BY <1>1, <1>2 DEF SessionInv, JobFits, HasToken, Stored
<1>6. OneOwner'
  <2>1. Stored' = Stored
    BY <1>1 DEF Stored
  <2> QED
    BY <1>1, <1>2, <2>1 DEF SessionInv, OneOwner, Busy
<1>7. ExchangeRevokes' /\ RotatedOnceUnlessRaced' /\ RacesSeen'
  BY <1>1, <1>2 DEF SessionInv, ExchangeRevokes, RotatedOnceUnlessRaced, RacesSeen, Holds
<1>8. LateSeen' /\ EndedStaysEnded'
  BY <1>1, <1>2 DEF SessionInv, LateSeen, EndedStaysEnded, Refreshes, Live
<1> QED
  BY <1>4, <1>5, <1>6, <1>7, <1>8 DEF SessionInv

LEMMA DieStep ==
  ASSUME SessionInv, NEW r \in Request, Die(r)
  PROVE  SessionInv'
<1>1. /\ request' = [request EXCEPT ![r] = Waiting]
      /\ UNCHANGED <<token, ended, late, rotated, raced>>
  BY DEF Die, Close
<1>2. request'[r] = Waiting /\ \A q \in Request \ {r} : request'[q] = request[q]
  BY <1>1 DEF SessionInv, Typed
<1>3. Waiting.kind = "none"
  BY DEF Waiting
<1>4. Typed'
  BY <1>1 DEF SessionInv, Typed
<1>5. \A q \in Request : JobFits(q)'
  BY <1>1, <1>2, <1>3 DEF SessionInv, JobFits, HasToken
<1>6. OneOwner'
  <2>1. Stored' = Stored
    BY <1>1 DEF Stored
  <2> QED
    BY <1>1, <1>2, <1>3, <2>1 DEF SessionInv, OneOwner, Busy
<1>7. ExchangeRevokes' /\ RotatedOnceUnlessRaced' /\ RacesSeen'
  BY <1>1, <1>2, <1>3
     DEF SessionInv, ExchangeRevokes, RotatedOnceUnlessRaced, RacesSeen, Holds
<1>8. LateSeen' /\ EndedStaysEnded'
  BY <1>1, <1>2, <1>3 DEF SessionInv, LateSeen, EndedStaysEnded, Refreshes, Live
<1> QED
  BY <1>4, <1>5, <1>6, <1>7, <1>8 DEF SessionInv

----------------------------------------------------------------------------
(* Steps that write tokens. *)

LEMMA SignStep ==
  ASSUME SessionInv, NEW r \in Request, SignRefreshToken(r)
  PROVE  SessionInv'
<1> DEFINE next == [state |-> "live", user |-> request[r].user, device |-> request[r].device]
<1>1. PICK t \in Token : t \notin Stored /\ token' = [token EXCEPT ![t] = next]
  BY DEF SignRefreshToken
<1>2. /\ request[r].kind = "sign" /\ request[r] \in SignJob
      /\ request' = [request EXCEPT ![r] = Waiting]
      /\ UNCHANGED <<ended, late, rotated, raced>>
  BY Kinds DEF SessionInv, SignRefreshToken, Close
<1>3. request'[r] = Waiting /\ \A q \in Request \ {r} : request'[q] = request[q]
  BY <1>2 DEF SessionInv, Typed
<1>4. token'[t] = next /\ \A s \in Token \ {t} : token'[s] = token[s]
  BY <1>1 DEF SessionInv, Typed
<1>5. Waiting.kind = "none" /\ next.state = "live" /\ next \in SessionRow
  BY <1>2 DEF Waiting, SessionRow, SignJob
<1>6. Typed'
  BY <1>1, <1>2, <1>5 DEF SessionInv, Typed
<1>7. \A q \in Request : JobFits(q)'
  <2> SUFFICES ASSUME NEW q \in Request \ {r}, HasToken(q)
               PROVE  JobFits(q)'
    BY <1>3, <1>5 DEF JobFits, HasToken
  <2>1. request[q].token \in Token /\ JobFits(q)
    BY Kinds DEF SessionInv, TokenJob
  <2>2. request[q].token # t
    BY <1>1, <2>1 DEF JobFits, Stored
  <2> QED
    BY <1>3, <1>4, <2>1, <2>2 DEF JobFits, HasToken
<1>8. OneOwner'
  <2>1. Stored' = Stored \cup {t}
    BY <1>1, <1>4, <1>5 DEF Stored
  <2>2. Busy(r)
    BY <1>2 DEF Busy
  <2>3. \A s \in Stored : s # t
    BY <1>1
  <2> QED
    BY <1>3, <1>4, <1>5, <2>1, <2>2, <2>3 DEF SessionInv, OneOwner, Busy, Stored
<1>9. ExchangeRevokes' /\ RotatedOnceUnlessRaced' /\ RacesSeen'
  <2>1. ~(rotated[t] > 0)
    BY <1>1 DEF SessionInv, ExchangeRevokes, Stored
  <2> QED
    BY <1>2, <1>3, <1>4, <1>5, <2>1
       DEF SessionInv, ExchangeRevokes, RotatedOnceUnlessRaced, RacesSeen, Holds
<1>10. LateSeen' /\ EndedStaysEnded'
  <2>1. next.device \in ended => next.device \in late
    BY <1>2 DEF SessionInv, LateSeen, Refreshes
  <2> QED
    BY <1>2, <1>3, <1>4, <1>5, <2>1 DEF SessionInv, LateSeen, EndedStaysEnded, Refreshes, Live
<1> QED
  BY <1>6, <1>7, <1>8, <1>9, <1>10 DEF SessionInv

\* Revoking changes the state of rows that are there, and nothing else of them.
LEMMA Revoked ==
  ASSUME Typed, NEW ts \in SUBSET Token, ts \subseteq Stored, SetState(ts, "revoked")
  PROVE  /\ token' \in [Token -> {Unused} \cup SessionRow]
         /\ Stored' = Stored /\ Live' = Live \ ts
         /\ \A t \in ts : token'[t].state = "revoked"
         /\ \A t \in Token \ ts : token'[t] = token[t]
         /\ \A t \in Stored : token'[t].user = token[t].user
                              /\ token'[t].device = token[t].device
<1>1. \A t \in ts : token[t] \in SessionRow /\ token'[t] = [token[t] EXCEPT !.state = "revoked"]
  BY Kinds DEF SetState, Stored
<1>2. \A t \in Token \ ts : token'[t] = token[t]
  BY DEF SetState
<1>3. \A t \in ts : /\ token'[t] \in SessionRow /\ token'[t].state = "revoked"
                    /\ token'[t].user = token[t].user /\ token'[t].device = token[t].device
  BY <1>1, ZenonT(60) DEF SessionRow
<1>4. token' \in [Token -> {Unused} \cup SessionRow]
  <2>1. token' = [t \in Token |-> token'[t]]
    BY DEF SetState
  <2> QED
    BY <1>2, <1>3, <2>1 DEF Typed
<1> QED
  BY <1>2, <1>3, <1>4 DEF Stored, Live

LEMMA RevokeOldStep ==
  ASSUME SessionInv, NEW r \in Request, RevokeOld(r)
  PROVE  SessionInv'
<1> DEFINE t == request[r].token
           new == [kind |-> "sign", user |-> request[r].user, device |-> request[r].device]
<1>1. /\ request[r].kind = "exchange" /\ request[r] \in TokenJob /\ t \in Token
      /\ t \in Stored
  <2>1. HasToken(r) /\ request[r].kind = "exchange"
    BY DEF RevokeOld, HasToken
  <2> QED
    BY <2>1, Kinds DEF SessionInv, JobFits, Stored, TokenJob
<1>2. /\ SetState({t}, "revoked") /\ request' = [request EXCEPT ![r] = new]
      /\ rotated' = [rotated EXCEPT ![t] = @ + 1]
      /\ UNCHANGED <<ended, late, raced>>
  BY DEF RevokeOld, Then
<1>3. request'[r] = new /\ \A q \in Request \ {r} : request'[q] = request[q]
  BY <1>2 DEF SessionInv, Typed
<1>4. /\ token' \in [Token -> {Unused} \cup SessionRow]
      /\ Stored' = Stored /\ Live' = Live \ {t}
      /\ token'[t].state = "revoked"
      /\ \A s \in Token \ {t} : token'[s] = token[s]
      /\ \A s \in Stored : token'[s].user = token[s].user /\ token'[s].device = token[s].device
  BY <1>1, <1>2, Revoked DEF SessionInv
<1>5. new \in SignJob
  BY <1>1 DEF TokenJob, SignJob
<1>6. Typed'
  <2>1. request' \in [Request -> {Waiting} \cup SignJob \cup TokenJob]
    BY <1>2, <1>5 DEF SessionInv, Typed
  <2>2. rotated' \in [Token -> Nat]
    BY <1>1, <1>2 DEF SessionInv, Typed
  <2> HIDE DEF new, t
  <2> QED
    BY <1>2, <1>4, <2>1, <2>2 DEF SessionInv, Typed
<1>7. \A q \in Request : JobFits(q)'
  <2> SUFFICES ASSUME NEW q \in Request \ {r}, HasToken(q)
               PROVE  JobFits(q)'
    BY <1>3 DEF JobFits, HasToken
  <2>1. request[q].token \in Stored /\ JobFits(q)
    BY Kinds DEF SessionInv, TokenJob, JobFits, Stored
  <2>2. token'[request[q].token].state # "none"
    BY <1>4, <2>1 DEF Stored
  <2> QED
    BY <1>3, <1>4, <2>1, <2>2 DEF JobFits
<1>8. OneOwner'
  <2>1. Busy(r) /\ new.kind # "none" /\ new.user = request[r].user
        /\ new.device = request[r].device
    BY <1>1 DEF Busy
  <2>2. \A q \in Request : /\ Busy(q)' = Busy(q)
                           /\ Busy(q) => request'[q].user = request[q].user
                                         /\ request'[q].device = request[q].device
    BY <1>3, <2>1 DEF Busy
  <2>3. \A s, u \in Stored' : token'[s].device = token'[u].device
                               => token'[s].user = token'[u].user
    BY <1>4 DEF SessionInv, OneOwner
  <2>4. \A s \in Stored', q \in Request :
          Busy(q)' /\ token'[s].device = request'[q].device
            => token'[s].user = request'[q].user
    BY <1>4, <2>2 DEF SessionInv, OneOwner
  <2>5. \A q, p \in Request :
          Busy(q)' /\ Busy(p)' /\ request'[q].device = request'[p].device
            => request'[q].user = request'[p].user
    BY <2>2 DEF SessionInv, OneOwner
  <2> QED
    BY <2>3, <2>4, <2>5 DEF OneOwner
<1>9. /\ rotated'[t] = rotated[t] + 1 /\ rotated[t] \in Nat
      /\ \A s \in Token \ {t} : rotated'[s] = rotated[s]
  BY <1>1, <1>2 DEF SessionInv, Typed
<1>10. ExchangeRevokes'
  BY <1>4, <1>9 DEF SessionInv, ExchangeRevokes
<1>11. RacesSeen'
  <2> SUFFICES ASSUME NEW q \in Request, NEW s \in Token, Holds(q, s)'
               PROVE  /\ rotated'[s] > 0 => s \in raced'
                      /\ \A p \in Request \ {q} : Holds(p, s)' => s \in raced'
    BY DEF RacesSeen
  <2>1. q # r /\ Holds(q, s)
    BY <1>3 DEF Holds
  <2>2. Holds(r, t)
    BY <1>1 DEF Holds
  <2>3. \A p \in Request : Holds(p, s)' => Holds(p, s)
    BY <1>3 DEF Holds
  <2> QED
    BY <1>2, <1>9, <2>1, <2>2, <2>3 DEF SessionInv, RacesSeen
<1>12. RotatedOnceUnlessRaced'
  <2>1. Holds(r, t)
    BY <1>1 DEF Holds
  <2> QED
    BY <1>1, <1>2, <1>9, <2>1 DEF SessionInv, RotatedOnceUnlessRaced, RacesSeen
<1>13. LateSeen' /\ EndedStaysEnded'
  <2>1. Refreshes(r) /\ new.device = request[r].device
    BY <1>1 DEF Refreshes
  <2>2. LateSeen'
    BY <1>2, <1>3, <2>1 DEF SessionInv, LateSeen, Refreshes
  <2>3. \A s \in Live' : s \in Live /\ token'[s].device = token[s].device
    BY <1>4 DEF Live
  <2> QED
    BY <1>2, <2>2, <2>3 DEF SessionInv, EndedStaysEnded
<1> QED
  BY <1>6, <1>7, <1>8, <1>10, <1>11, <1>12, <1>13 DEF SessionInv

\* A revocation that ends the devices ds: every live token of them is revoked,
\* and the refreshes of them are late.
LEMMA EndStep ==
  ASSUME SessionInv, Typed', NEW ts \in SUBSET Live, NEW ds \in SUBSET Device,
         SetState(ts, "revoked"), Ends(ds),
         \A t \in Live : token[t].device \in ds => t \in ts,
         UNCHANGED <<rotated, raced>>,
         \A q \in Request : request'[q] = request[q] \/ request'[q] = Waiting
  PROVE  SessionInv'
<1>1. /\ Stored' = Stored /\ Live' = Live \ ts
      /\ \A t \in ts : token'[t].state = "revoked"
      /\ \A t \in Token \ ts : token'[t] = token[t]
      /\ \A t \in Stored : token'[t].user = token[t].user
                           /\ token'[t].device = token[t].device
  <2>1. ts \in SUBSET Token /\ ts \subseteq Stored
    BY DEF Live, Stored
  <2> QED
    BY <2>1, Revoked DEF SessionInv
<1>2. Waiting.kind = "none"
  BY DEF Waiting
<1>3. \A q \in Request : JobFits(q)'
  <2> SUFFICES ASSUME NEW q \in Request, HasToken(q), request'[q] = request[q]
               PROVE  JobFits(q)'
    BY <1>2 DEF JobFits, HasToken
  <2>1. request[q].token \in Stored /\ JobFits(q)
    BY Kinds DEF SessionInv, TokenJob, JobFits, Stored
  <2>2. token'[request[q].token].state # "none"
    BY <1>1, <2>1 DEF Stored
  <2> QED
    BY <1>1, <2>1, <2>2 DEF JobFits
<1>4. OneOwner'
  <2>1. \A q \in Request : Busy(q)' => Busy(q) /\ request'[q] = request[q]
    BY <1>2 DEF Busy
  <2>2. \A s, u \in Stored' : token'[s].device = token'[u].device
                               => token'[s].user = token'[u].user
    BY <1>1 DEF SessionInv, OneOwner
  <2>3. \A s \in Stored', q \in Request :
          Busy(q)' /\ token'[s].device = request'[q].device
            => token'[s].user = request'[q].user
    BY <1>1, <2>1 DEF SessionInv, OneOwner
  <2>4. \A q, p \in Request :
          Busy(q)' /\ Busy(p)' /\ request'[q].device = request'[p].device
            => request'[q].user = request'[p].user
    BY <2>1 DEF SessionInv, OneOwner
  <2> QED
    BY <2>2, <2>3, <2>4 DEF OneOwner
<1>5. ExchangeRevokes'
  BY <1>1 DEF SessionInv, ExchangeRevokes
<1>6. RotatedOnceUnlessRaced' /\ RacesSeen'
  <2>1. \A q \in Request, t \in Token : Holds(q, t)' => Holds(q, t)
    BY <1>2 DEF Holds
  <2> QED
    BY <2>1 DEF SessionInv, RotatedOnceUnlessRaced, RacesSeen
<1>7. ended' = ended \cup ds /\ late' = late \cup (ds \cap Refreshing)
  BY DEF Ends
<1>8. LateSeen'
  <2> SUFFICES ASSUME NEW q \in Request, Refreshes(q), request'[q] = request[q],
                      request[q].device \in ended'
               PROVE  request[q].device \in late'
    BY <1>2 DEF LateSeen, Refreshes
  <2>1. request[q].device \in Device
    BY Kinds DEF SessionInv, Refreshes, HasToken, SignJob, TokenJob
  <2>2. request[q].device \in Refreshing
    BY <2>1 DEF Refreshing, Refreshes
  <2> QED
    BY <1>7, <2>2 DEF SessionInv, LateSeen
<1>9. EndedStaysEnded'
  <2> SUFFICES ASSUME NEW t \in Live', token'[t].device \in ended'
               PROVE  token'[t].device \in late'
    BY DEF EndedStaysEnded
  <2>1. t \in Live /\ t \notin ts /\ token'[t] = token[t]
    BY <1>1 DEF Live
  <2>2. token[t].device \notin ds
    BY <2>1
  <2> QED
    BY <1>7, <2>1, <2>2 DEF SessionInv, EndedStaysEnded
<1> QED
  BY <1>3, <1>4, <1>5, <1>6, <1>8, <1>9 DEF SessionInv

\* The devices of a user, and no other user's.
LEMMA DevicesOfOne ==
  ASSUME SessionInv, NEW r \in Request, Busy(r)
  PROVE  /\ DevicesOf(request[r].user) \in SUBSET Device
         /\ \A t \in Live : token[t].device \in DevicesOf(request[r].user)
                              => token[t].user = request[r].user
<1> DEFINE u == request[r].user
<1>1. \A t \in Stored : token[t] \in SessionRow
  BY Kinds DEF SessionInv, Stored
<1>2. DevicesOf(u) \in SUBSET Device
  BY <1>1 DEF DevicesOf, Refreshing, SessionRow
<1>3. ASSUME NEW t \in Live, token[t].device \in DevicesOf(u)
      PROVE  token[t].user = u
  <2>1. t \in Stored
    BY DEF Live, Stored
  <2>2. CASE \E s \in Stored : token[s].user = u /\ token[s].device = token[t].device
    BY <2>1, <2>2 DEF SessionInv, OneOwner
  <2>3. CASE \E q \in Request : request[q].kind # "none" /\ request[q].user = u
                                /\ request[q].device = token[t].device
    BY <2>1, <2>3 DEF SessionInv, OneOwner, Busy
  <2> QED
    BY <1>3, <2>2, <2>3 DEF DevicesOf
<1> QED
  BY <1>2, <1>3

LEMMA RevokeAllStep ==
  ASSUME SessionInv, NEW r \in Request, RevokeAllSessions(r)
  PROVE  SessionInv'
<1> DEFINE u == request[r].user
           ts == {t \in Live : token[t].user = u}
<1>1. /\ request[r].kind = "reuse" /\ Busy(r)
      /\ SetState(ts, "revoked") /\ Ends(DevicesOf(u))
      /\ request' = [request EXCEPT ![r] = Waiting]
      /\ UNCHANGED <<rotated, raced>>
  BY DEF RevokeAllSessions, Close, Busy
<1>2. DevicesOf(u) \in SUBSET Device
      /\ \A t \in Live : token[t].device \in DevicesOf(u) => t \in ts
  BY <1>1, DevicesOfOne
<1>3. token' \in [Token -> {Unused} \cup SessionRow]
  <2>1. ts \in SUBSET Token /\ ts \subseteq Stored
    BY DEF Live, Stored
  <2> QED
    BY <1>1, <2>1, Revoked DEF SessionInv
<1>4. Typed'
  <2>1. request' \in [Request -> {Waiting} \cup SignJob \cup TokenJob]
    BY <1>1 DEF SessionInv, Typed
  <2>2. ended' \in SUBSET Device /\ late' \in SUBSET Device
    BY <1>1, <1>2 DEF SessionInv, Typed, Ends
  <2> QED
    BY <1>1, <1>3, <2>1, <2>2 DEF SessionInv, Typed
<1>5. \A q \in Request : request'[q] = request[q] \/ request'[q] = Waiting
  BY <1>1 DEF SessionInv, Typed
<1> HIDE DEF ts
<1>6. ts \in SUBSET Live
  BY DEF ts
<1> QED
  BY <1>1, <1>2, <1>4, <1>5, <1>6, EndStep

LEMMA LogoutStep ==
  ASSUME SessionInv, NEW t \in Token, Logout(t)
  PROVE  SessionInv'
<1> DEFINE ts == {x \in Live : token[x].user = token[t].user
                              /\ token[x].device = token[t].device}
           ds == {token[t].device}
<1>1. /\ t \in Stored /\ SetState(ts, "revoked") /\ Ends(ds)
      /\ UNCHANGED <<request, rotated, raced>>
  BY DEF Logout
<1>2. ds \in SUBSET Device
  BY <1>1, Kinds DEF SessionInv, Stored, SessionRow
<1>3. \A x \in Live : token[x].device \in ds => x \in ts
  <2>1. Live \subseteq Stored
    BY DEF Live, Stored
  <2> QED
    BY <1>1, <2>1 DEF SessionInv, OneOwner
<1>4. token' \in [Token -> {Unused} \cup SessionRow]
  <2>1. ts \in SUBSET Token /\ ts \subseteq Stored
    BY DEF Live, Stored
  <2> QED
    BY <1>1, <2>1, Revoked DEF SessionInv
<1>5. Typed'
  <2>1. ended' \in SUBSET Device /\ late' \in SUBSET Device
    BY <1>1, <1>2 DEF SessionInv, Typed, Ends
  <2> QED
    BY <1>1, <1>4, <2>1 DEF SessionInv, Typed
<1>6. ts \in SUBSET Live
  OBVIOUS
<1> HIDE DEF ts, ds
<1> QED
  BY <1>1, <1>2, <1>3, <1>5, <1>6, EndStep

----------------------------------------------------------------------------
LEMMA NextSession == SessionInv /\ [SessionsNext]_sessionVars => SessionInv'
<1> SUFFICES ASSUME SessionInv, [SessionsNext]_sessionVars PROVE SessionInv'
  OBVIOUS
<1>1. CASE UNCHANGED sessionVars
  BY <1>1 DEF sessionVars, SessionInv, Typed, JobFits, HasToken, OneOwner, Busy, Stored, Live,
       ExchangeRevokes, RacesSeen, Holds, RotatedOnceUnlessRaced, LateSeen, Refreshes,
       EndedStaysEnded
<1>2. CASE \E r \in Request, u \in Account : Login(r, u)
  BY <1>2, LoginStep
<1>3. CASE \E r \in Request, t \in Token : RefreshAccessToken(r, t) \/ LogoutEverywhere(r, t)
  BY <1>3, RefreshStep, LogoutEverywhereStep
<1>4. CASE \E r \in Request :
             SignRefreshToken(r) \/ RevokeOld(r) \/ RevokeAllSessions(r) \/ Die(r)
  BY <1>4, SignStep, RevokeOldStep, RevokeAllStep, DieStep
<1>5. CASE \E t \in Token : Logout(t)
  BY <1>5, LogoutStep
<1> QED
  BY <1>1, <1>2, <1>3, <1>4, <1>5 DEF SessionsNext

\* However many requests present it, a refresh token is exchanged once, unless
\* a second request had read it before the first had revoked it
\* (refreshAccessToken reads the next and revokes it in separate statements).
THEOREM TokensRotateOnce == SessionsSpec => []RotatedOnceUnlessRaced
<1>1. SessionInv => RotatedOnceUnlessRaced
  BY DEF SessionInv
<1> QED
  BY InitSession, NextSession, <1>1, PTL DEF SessionsSpec

\* After a logout, a logout everywhere or a detected reuse no token of the
\* session is valid, now or later, unless a refresh of it was under way.
THEOREM SessionsStayEnded == SessionsSpec => []EndedStaysEnded
<1>1. SessionInv => EndedStaysEnded
  BY DEF SessionInv
<1> QED
  BY InitSession, NextSession, <1>1, PTL DEF SessionsSpec

----------------------------------------------------------------------------
(* The Telegram handlers: what a worker is in the middle of *)

RowWrites == Linking \cup {"adminJoin", "approve", "startOwner", "startKnown",
                           "contact", "newCourier", "autoLink"}
ReadingJob == [kind : {"adminRead", "approveRead"}, chat : Chat]
LinkJob == [kind : {"sellerRead", "courierRead"}, chat : Chat, link : AllLinks]
RowJob == [kind : RowWrites, chat : Chat, user : User]
RemoveJob == [kind : {"remove"}, chat : {NoChat}, user : User]
RoleJob == [kind : {"role"}, chat : Chat \cup {NoChat}, user : User, role : UserRole]
Job == {Idle} \cup ReadingJob \cup LinkJob \cup RowJob \cup RemoveJob \cup RoleJob

RolesTyped ==
  /\ users \in [User -> Row]
  /\ requests \subseteq Chat
  /\ asked \in [Chat -> Nat] /\ decided \in [Chat -> Nat]
  /\ job \in [Worker -> Job] /\ tx \in [Worker -> Tx]
  /\ DOMAIN links = AllLinks

\* An open transaction that nobody has crossed has taken every other row with
\* its chat, and later every other row with its username.
TakesAll(w) ==
  /\ WithChat(w) \subseteq tx[w].chats
  /\ tx[w].step = "name" => WithName(w) \subseteq tx[w].names
TxFits(w) ==
  tx[w].step # "none" => job[w] \in RowJob /\ (~tx[w].crossed => TakesAll(w))

\* The unique keys hold in the table, whatever the handlers remember.
RolesInv ==
  /\ RolesTyped /\ KeysHold(users) /\ \A w \in Worker : TxFits(w)
  /\ DecidedOnce /\ LinkingRefusedOnlyIfCrossed

LEMMA InitRoles == RolesInit => RolesInv
<1> SUFFICES ASSUME RolesInit PROVE RolesInv
  OBVIOUS
<1> USE RolesAssumption
<1>1. users \in [User -> Row]
  BY DEF RolesInit, Row, NoRow, UserRole
<1>2. job \in [Worker -> Job] /\ tx \in [Worker -> Tx]
  BY DEF RolesInit, Job, Tx, NoTx
<1>3. KeysHold(users)
  BY DEF RolesInit, KeysHold, NoRow
<1>4. \A w \in Worker : TxFits(w)
  BY DEF RolesInit, TxFits, NoTx
<1> QED
  BY <1>1, <1>2, <1>3, <1>4 DEF RolesInv, RolesTyped, RolesInit, DecidedOnce,
     LinkingRefusedOnlyIfCrossed

\* What a transaction writes to its own row and to the others.
LEMMA RelinkRows ==
  ASSUME RolesTyped, NEW w \in Worker, job[w] \in RowJob, NEW r \in UserRole \cup {"NONE"},
         NEW v \in User
  PROVE  /\ v = job[w].user => Relink(w, r)[v] = [role |-> r, chat |-> job[w].chat,
                                                  uname |-> job[w].chat]
         /\ v # job[w].user =>
              /\ Relink(w, r)[v].chat = IF v \in tx[w].chats /\ users[v].chat = job[w].chat
                                        THEN NoChat ELSE users[v].chat
              /\ Relink(w, r)[v].uname = IF v \in tx[w].names /\ users[v].uname = job[w].chat
                                         THEN NoChat ELSE users[v].uname
         /\ Relink(w, r)[v] \in Row
<1>1. users[v] \in Row /\ job[w].chat \in Chat
  BY DEF RolesTyped, RowJob
<1> QED
  BY <1>1 DEF Relink, Row

\* Taking the chat from every other row before it is written leaves no two rows
\* with it.
LEMMA RelinkKeepsKeys ==
  ASSUME RolesTyped, KeysHold(users), NEW w \in Worker, job[w] \in RowJob,
         NEW r \in UserRole \cup {"NONE"}, WithChat(w) \subseteq tx[w].chats,
         WithName(w) \subseteq tx[w].names
  PROVE  KeysHold(Relink(w, r))
<1> DEFINE us == Relink(w, r)
           c == job[w].chat
           u == job[w].user
<1> SUFFICES ASSUME NEW v \in User, NEW x \in User, v # x
             PROVE  /\ us[v].chat = NoChat \/ us[v].chat # us[x].chat
                    /\ us[v].uname = NoChat \/ us[v].uname # us[x].uname
  BY DEF KeysHold
<1>1. c # NoChat /\ u \in User
  BY RolesAssumption DEF RowJob
<1>2. us[u].chat = c /\ us[u].uname = c
  <2>1. us[u] = [role |-> r, chat |-> c, uname |-> c]
    BY <1>1, RelinkRows
  <2> QED
    BY <2>1
<1>3. ASSUME NEW y \in User \ {u}
      PROVE  /\ us[y].chat = IF users[y].chat = c THEN NoChat ELSE users[y].chat
             /\ us[y].uname = IF users[y].uname = c THEN NoChat ELSE users[y].uname
  <2>1. /\ users[y].chat = c => y \in tx[w].chats
        /\ users[y].uname = c => y \in tx[w].names
    BY DEF WithChat, WithName
  <2> QED
    BY <2>1, RelinkRows
<1>4. /\ users[v].chat = NoChat \/ users[v].chat # users[x].chat
      /\ users[v].uname = NoChat \/ users[v].uname # users[x].uname
  BY DEF KeysHold
<1> HIDE DEF us, c, u
<1>5. CASE v = u
  BY <1>1, <1>2, <1>3, <1>5
<1>6. CASE x = u
  BY <1>1, <1>2, <1>3, <1>6
<1>7. CASE v # u /\ x # u
  BY <1>1, <1>3, <1>4, <1>7
<1> QED
  BY <1>5, <1>6, <1>7

\* The transactions of the handlers that link a chat.
LEMMA LinkStatement ==
  ASSUME NEW w \in Worker, job[w].kind \in Linking \cup {"contact"}, RolesTyped,
         job[w] \in RowJob
  PROVE  \E r \in UserRole \cup {"NONE"} : Statement(w) = Relink(w, r)
<1>1. users[job[w].user].role \in UserRole \cup {"NONE"}
  BY DEF RolesTyped, Row, RowJob
<1> QED
  BY <1>1 DEF Linking, Statement, RelinkContact, UserRole

\* A write gives its chat to its own row and leaves the others without it.
Gives(w, v, k) == v = job[w].user /\ k = job[w].chat /\ job[w].kind \notin {"role", "remove"}

LEMMA StatementRows ==
  ASSUME RolesTyped, NEW w \in Worker, job[w] \in RowJob \cup RemoveJob \cup RoleJob,
         NEW v \in User
  PROVE  /\ Statement(w)[v] \in Row
         /\ LET k == Statement(w)[v].chat IN k \in {users[v].chat, NoChat} \/ Gives(w, v, k)
         /\ LET k == Statement(w)[v].uname IN k \in {users[v].uname, NoChat} \/ Gives(w, v, k)
<1> DEFINE j == job[w]
<1>0. /\ users[v] \in Row /\ users[j.user].role \in UserRole \cup {"NONE"}
      /\ users \in [User -> Row] /\ j.user \in User
  BY DEF RolesTyped, Row, RowJob, RemoveJob, RoleJob
<1>1. CASE j \in RemoveJob
  BY <1>0, <1>1 DEF RemoveJob, Statement, Row, NoRow
<1>2. CASE j \in RoleJob
  <2>1. Statement(w) = [users EXCEPT ![j.user].role = j.role] /\ j.role \in UserRole
    BY <1>2 DEF RoleJob, Statement, SetRole
  <2> QED
    BY <1>0, <2>1 DEF Row
<1>3. CASE j \in RowJob
  <2>1. /\ j.user \in User /\ j.chat \in Chat /\ j.kind \in RowWrites
        /\ j.kind \notin {"role", "remove"}
    BY <1>3 DEF RowJob, RowWrites, Linking
  <2>2. CASE j.kind \in Linking \cup {"contact"}
    <3>1. PICK r \in UserRole \cup {"NONE"} : Statement(w) = Relink(w, r)
      BY <1>3, <2>2, LinkStatement
    <3>2. CASE v = j.user
      <4>1. /\ Statement(w)[v] = [role |-> r, chat |-> j.chat, uname |-> j.chat]
            /\ Statement(w)[v] \in Row
        BY <1>3, <3>1, <3>2, RelinkRows
      <4>2. Statement(w)[v].chat = j.chat /\ Statement(w)[v].uname = j.chat
        BY <4>1
      <4>3. Gives(w, v, j.chat)
        BY <2>1, <3>2 DEF Gives
      <4> QED
        BY <4>1, <4>2, <4>3
    <3>3. CASE v # j.user
      <4>1. /\ Statement(w)[v].chat \in {users[v].chat, NoChat}
            /\ Statement(w)[v].uname \in {users[v].uname, NoChat}
            /\ Statement(w)[v] \in Row
        <5>1. /\ Relink(w, r)[v].chat \in {users[v].chat, NoChat}
              /\ Relink(w, r)[v].uname \in {users[v].uname, NoChat}
              /\ Relink(w, r)[v] \in Row
          BY <1>3, <3>3, RelinkRows
        <5> QED
          BY <3>1, <5>1
      <4> QED
        BY <4>1
    <3> QED
      BY <3>2, <3>3
  <2>3. CASE j.kind \in RowWrites \ (Linking \cup {"contact", "autoLink"})
    <3>1. PICK r \in UserRole \cup {"NONE"} : Statement(w) = Overwrite(j.user, j.chat, r)
      BY <1>0, <2>1, <2>3 DEF Statement, RowWrites, Linking, UserRole
    <3> QED
      BY <1>0, <2>1, <3>1 DEF Overwrite, Row, Gives
  <2>4. CASE j.kind = "autoLink"
    <3>1. Statement(w) = [users EXCEPT ![j.user].chat = j.chat, ![j.user].uname = j.chat]
      BY <2>4 DEF Statement
    <3> QED
      BY <1>0, <2>1, <3>1 DEF Row, Gives
  <2> QED
    BY <2>1, <2>2, <2>3, <2>4
<1> QED
  BY <1>1, <1>2, <1>3

\* Every write of a handler is a table of rows.
LEMMA StatementTyped ==
  ASSUME RolesTyped, NEW w \in Worker, job[w] \in RowJob \cup RemoveJob \cup RoleJob
  PROVE  Statement(w) \in [User -> Row]
<1>1. \A v \in User : Statement(w)[v] \in Row
  BY StatementRows
<1>2. Statement(w) = [v \in User |-> Statement(w)[v]]
  <2>0. users = [v \in User |-> users[v]]
    BY DEF RolesTyped
  <2>1. CASE job[w] \in RowJob /\ job[w].kind \in Linking \cup {"contact"}
    BY <2>1, LinkStatement DEF Relink
  <2>2. CASE job[w] \in RowJob /\ job[w].kind \notin Linking \cup {"contact"}
    BY <2>0, <2>2 DEF Statement, RowJob, RowWrites, Overwrite, Linking
  <2>3. CASE job[w] \in RemoveJob \cup RoleJob
    BY <2>0, <2>3 DEF Statement, RemoveJob, RoleJob, SetRole
  <2> QED
    BY <2>1, <2>2, <2>3
<1> QED
  BY <1>1, <1>2

LEMMA JobWithUser ==
  ASSUME NEW j \in Job, "user" \in DOMAIN j
  PROVE  j \in RowJob \cup RemoveJob \cup RoleJob
<1>1. j # Idle
  BY DEF Idle
<1>2. j \notin ReadingJob
  BY DEF ReadingJob
<1>3. j \notin LinkJob
  BY DEF LinkJob
<1> QED
  BY <1>1, <1>2, <1>3 DEF Job

\* An open transaction survives the end of another handler's write: it is
\* crossed, or its chat has gone to no row it has not taken.
LEMMA OthersFit ==
  ASSUME RolesInv, NEW w \in Worker, Write(w), Succeeds(w), NEW x \in Worker \ {w}
  PROVE  TxFits(x)'
<1>1. /\ job[w] \in RowJob \cup RemoveJob \cup RoleJob
  BY JobWithUser DEF RolesInv, RolesTyped, Write
<1>2. /\ job'[x] = job[x] /\ users' = Statement(w)
      /\ tx'[x] = [tx[x] EXCEPT !.crossed = @ \/ Crosses(w, x)]
  BY DEF RolesInv, RolesTyped, Write, End
<1>3. /\ tx'[x].step = tx[x].step /\ tx'[x].chats = tx[x].chats /\ tx'[x].names = tx[x].names
      /\ tx'[x].crossed = (tx[x].crossed \/ Crosses(w, x))
  BY <1>2 DEF RolesInv, RolesTyped, Tx
<1> SUFFICES ASSUME tx[x].step # "none" PROVE TxFits(x)'
  BY <1>3 DEF TxFits
<1>4. job[x] \in RowJob /\ (~tx[x].crossed => TakesAll(x))
  BY DEF RolesInv, TxFits
<1> SUFFICES ASSUME ~tx[x].crossed, ~Crosses(w, x) PROVE TakesAll(x)'
  BY <1>2, <1>3, <1>4 DEF TxFits
<1>5. job[x].chat # NoChat
  BY <1>4, RolesAssumption DEF RowJob
<1>6. ASSUME NEW v \in User \ {job[x].user}
      PROVE  /\ users'[v].chat = job[x].chat => users[v].chat = job[x].chat
             /\ users'[v].uname = job[x].chat => users[v].uname = job[x].chat
  <2>1. ~Gives(w, v, job[x].chat)
    BY DEF Gives, Crosses
  <2> QED
    BY <1>1, <1>2, <1>5, <2>1, StatementRows DEF RolesInv
<1> QED
  BY <1>2, <1>3, <1>4, <1>6 DEF TakesAll, WithChat, WithName

LEMMA WriteStep ==
  ASSUME RolesInv, NEW w \in Worker, Write(w)
  PROVE  RolesInv'
<1> DEFINE j == job[w]
<1>1. j \in Job /\ "user" \in DOMAIN j
  BY DEF RolesInv, RolesTyped, Write
<1>2. j \in RowJob \cup RemoveJob \cup RoleJob
  BY <1>1, JobWithUser
<1>3. job' \in [Worker -> Job]
  BY DEF Write, End, RolesInv, RolesTyped, Job
<1>4. NoTx \in Tx /\ NoTx.step = "none"
  BY DEF NoTx, Tx
<1>5. CASE Succeeds(w)
  <2>1. users' = Statement(w) /\ UNCHANGED refused
    BY <1>5 DEF Write
  <2>2. users' \in [User -> Row] /\ KeysHold(users')
    BY <1>2, <1>5, <2>1, StatementTyped DEF Succeeds, RolesInv
  <2>3. tx' \in [Worker -> Tx]
    <3>1. \A x \in Worker : [tx[x] EXCEPT !.crossed = @ \/ Crosses(w, x)] \in Tx
      BY DEF RolesInv, RolesTyped, Tx
    <3> QED
      BY <1>4, <1>5, <3>1 DEF Write
  <2>4. TxFits(w)'
    BY <1>4, <1>5 DEF Write, TxFits
  <2>5. \A x \in Worker : TxFits(x)'
    BY <1>5, <2>4, OthersFit
  <2> QED
    BY <1>3, <2>1, <2>2, <2>3, <2>5 DEF RolesInv, RolesTyped, Write, DecidedOnce,
       LinkingRefusedOnlyIfCrossed
<1>6. CASE ~Succeeds(w)
  <2>1. /\ UNCHANGED users /\ tx' = [tx EXCEPT ![w] = NoTx]
        /\ refused' = IF Exists(j.user) /\ ~tx[w].crossed THEN refused \cup {j.kind} ELSE refused
    BY <1>6 DEF Write
  <2>2. ~(Exists(j.user) /\ ~tx[w].crossed /\ j.kind \in Linking)
    <3> SUFFICES ASSUME Exists(j.user), ~tx[w].crossed, j.kind \in Linking PROVE FALSE
      OBVIOUS
    <3>1. j \in RowJob
      BY <1>2 DEF Linking, RemoveJob, RoleJob
    <3>2. tx[w].step = "name"
      BY DEF Write, Linking
    <3>3. WithChat(w) \subseteq tx[w].chats /\ WithName(w) \subseteq tx[w].names
      BY <3>2 DEF RolesInv, TxFits, TakesAll
    <3>4. KeysHold(Statement(w))
      BY <3>1, <3>3, LinkStatement, RelinkKeepsKeys DEF RolesInv
    <3>5. j.kind # "newCourier"
      BY DEF Linking
    <3> QED
      BY <1>6, <3>4, <3>5 DEF Succeeds
  <2>3. LinkingRefusedOnlyIfCrossed'
    BY <2>1, <2>2 DEF RolesInv, LinkingRefusedOnlyIfCrossed
  <2>4. \A x \in Worker : TxFits(x)'
    <3> SUFFICES ASSUME NEW x \in Worker PROVE TxFits(x)'
      OBVIOUS
    <3>1. CASE x = w
      BY <1>4, <2>1, <3>1 DEF RolesInv, RolesTyped, TxFits
    <3>2. CASE x # w
      <4>1. tx'[x] = tx[x] /\ job'[x] = job[x]
        BY <2>1, <3>2 DEF RolesInv, RolesTyped, Write, End
      <4> QED
        BY <2>1, <4>1 DEF RolesInv, TxFits, TakesAll, WithChat, WithName
    <3> QED
      BY <3>1, <3>2
  <2>5. tx' \in [Worker -> Tx]
    BY <1>4, <2>1 DEF RolesInv, RolesTyped
  <2> QED
    BY <1>3, <2>1, <2>3, <2>4, <2>5 DEF RolesInv, RolesTyped, Write, DecidedOnce, KeysHold
<1> QED
  BY <1>5, <1>6

\* The statements of an open transaction, and its end without a commit.
LEMMA TransactionStep ==
  ASSUME RolesInv, NEW w \in Worker, TakeChat(w) \/ TakeName(w) \/ Deadlock(w)
  PROVE  RolesInv'
<1>1. UNCHANGED <<users, memory, asked, decided, refused>>
  BY DEF TakeChat, TakeName, Deadlock, history
<1>2. job' \in [Worker -> Job] /\ \A x \in Worker \ {w} : job'[x] = job[x]
  BY DEF TakeChat, TakeName, Deadlock, End, RolesInv, RolesTyped, Job
<1>3. tx' \in [Worker -> Tx] /\ \A x \in Worker \ {w} : tx'[x] = tx[x]
  <2>1. WithChat(w) \in SUBSET User /\ WithName(w) \in SUBSET User
    BY DEF WithChat, WithName
  <2>2. /\ [NoTx EXCEPT !.step = "chat", !.chats = WithChat(w)] \in Tx
        /\ [tx[w] EXCEPT !.step = "name", !.names = WithName(w)] \in Tx
        /\ NoTx \in Tx
    BY <2>1 DEF RolesInv, RolesTyped, Tx, NoTx
  <2>3. \/ tx' = [tx EXCEPT ![w] = [NoTx EXCEPT !.step = "chat", !.chats = WithChat(w)]]
        \/ tx' = [tx EXCEPT ![w] = [tx[w] EXCEPT !.step = "name", !.names = WithName(w)]]
        \/ tx' = [tx EXCEPT ![w] = NoTx]
    BY DEF TakeChat, TakeName, Deadlock, RolesInv, RolesTyped
  <2> QED
    BY <2>2, <2>3 DEF RolesInv, RolesTyped
<1>4. TxFits(w)'
  <2>1. CASE TakeChat(w)
    <3>1. job[w] \in RowJob
      BY <2>1 DEF TakeChat, RolesInv, RolesTyped, Job, Idle, ReadingJob, LinkJob, RemoveJob,
         RoleJob, Linking
    <3>2. tx'[w].step = "chat" /\ tx'[w].chats = WithChat(w)
      BY <2>1 DEF TakeChat, RolesInv, RolesTyped, NoTx
    <3> QED
      BY <1>1, <2>1, <3>1, <3>2 DEF TakeChat, TxFits, TakesAll, WithChat
  <2>2. CASE TakeName(w)
    <3>1. /\ tx'[w].chats = tx[w].chats /\ tx'[w].names = WithName(w)
          /\ tx'[w].crossed = tx[w].crossed /\ tx[w].step = "chat"
      BY <2>2 DEF TakeName, RolesInv, RolesTyped, Tx
    <3> QED
      BY <1>1, <2>2, <3>1 DEF TakeName, RolesInv, TxFits, TakesAll, WithChat, WithName
  <2>3. CASE Deadlock(w)
    BY <2>3 DEF Deadlock, TxFits, NoTx, RolesInv, RolesTyped
  <2> QED
    BY <2>1, <2>2, <2>3
<1>5. \A x \in Worker : TxFits(x)'
  BY <1>1, <1>2, <1>3, <1>4 DEF RolesInv, TxFits, TakesAll, WithChat, WithName
<1> QED
  BY <1>1, <1>2, <1>3, <1>5 DEF RolesInv, RolesTyped, KeysHold, DecidedOnce,
     LinkingRefusedOnlyIfCrossed, memory

\* A step of a handler that is not about to write a row with a chat.
Moves == /\ job' \in [Worker -> Job]
         /\ \A x \in Worker : job'[x] = job[x] \/ job[x] \notin RowJob

\* A step that writes no row and refuses nothing.
LEMMA QuietStep ==
  ASSUME RolesInv, UNCHANGED <<users, tx, refused>>, requests' \subseteq Chat,
         asked' \in [Chat -> Nat], decided' \in [Chat -> Nat],
         DOMAIN links' = AllLinks, Moves, DecidedOnce'
  PROVE  RolesInv'
<1>1. \A x \in Worker : TxFits(x)'
  BY DEF RolesInv, TxFits, TakesAll, WithChat, WithName, Moves
<1> QED
  BY <1>1 DEF RolesInv, RolesTyped, KeysHold, LinkingRefusedOnlyIfCrossed, Moves

LEMMA FoundTyped ==
  ASSUME NEW c, NEW u \in FoundFor(c) PROVE u \in User
BY DEF FoundFor

LEMMA BeginTyped ==
  ASSUME job \in [Worker -> Job], NEW w \in Worker, NEW j \in Job,
         Begin(w, j) \/ (job[w] \notin RowJob /\ (Continue(w, j) \/ End(w)))
  PROVE  Moves
<1>1. Idle \notin RowJob
  BY DEF Idle, RowJob, RowWrites, Linking
<1> QED
  BY <1>1 DEF Moves, Begin, Continue, End, Job

LEMMA EndTyped ==
  ASSUME job \in [Worker -> Job], NEW w \in Worker, job[w] \notin RowJob, End(w)
  PROVE  Moves
BY DEF Moves, End, Job

LEMMA StayTyped ==
  ASSUME job \in [Worker -> Job], UNCHANGED job PROVE Moves
BY DEF Moves

LEMMA WritingTyped ==
  ASSUME NEW k \in RowWrites, NEW u \in User, NEW c \in Chat
  PROVE  Writing(k, u, c) \in Job
BY DEF Writing, RowJob, Job

LEMMA AskingTyped ==
  ASSUME NEW k \in {"adminRead", "approveRead"}, NEW c \in Chat
  PROVE  Asking(k, c) \in Job
BY DEF Asking, ReadingJob, Job

\* What a handler that is reading works for.
LEMMA ReaderTyped ==
  ASSUME NEW j \in Job
  PROVE  /\ j.kind \in {"adminRead", "approveRead"} => j \in ReadingJob \ RowJob
         /\ j.kind \in {"sellerRead", "courierRead"} => j \in LinkJob \ RowJob
<1>1. j \in RowJob => j.kind \notin {"adminRead", "approveRead", "sellerRead", "courierRead"}
  BY DEF RowJob, RowWrites, Linking
<1> QED
  BY <1>1 DEF Job, Idle, ReadingJob, LinkJob, RemoveJob, RoleJob

\* A step in which no request is made, taken or forgotten.
LEMMA JobStep ==
  ASSUME RolesInv, UNCHANGED <<users, tx, refused, requests, asked, decided>>,
         DOMAIN links' = AllLinks, Moves
  PROVE  RolesInv'
BY QuietStep DEF RolesInv, RolesTyped, DecidedOnce

LEMMA LinkReadStep ==
  ASSUME RolesInv, NEW w \in Worker, SellerRead(w) \/ CourierRead(w)
  PROVE  RolesInv'
<1> DEFINE c == job[w].chat
           t == job[w].link
<1>1. job[w] \in LinkJob \ RowJob /\ c \in Chat
  BY ReaderTyped DEF RolesInv, RolesTyped, SellerRead, CourierRead, LinkJob
<1>2. DOMAIN links' = AllLinks
  <2>1. MarkUsed(t, c) \/ UNCHANGED links
    BY DEF SellerRead, CourierRead
  <2> QED
    BY <2>1 DEF MarkUsed, RolesInv, RolesTyped
<1>3. Moves
  <2>1. CASE End(w)
    BY <1>1, <2>1, EndTyped DEF RolesInv, RolesTyped
  <2>2. CASE \E u \in User : \E k \in {"sellerJoin", "courierJoin", "newCourier"} :
               Continue(w, Writing(k, u, c))
    BY <1>1, <2>2, BeginTyped, WritingTyped DEF RolesInv, RolesTyped, RowWrites, Linking
  <2> QED
    BY <2>1, <2>2, FoundTyped DEF SellerRead, CourierRead
<1> QED
  BY <1>2, <1>3, JobStep DEF SellerRead, CourierRead

\* A chat asks at most once more than it has been answered.
LEMMA AdminReadStep ==
  ASSUME RolesInv, NEW w \in Worker, AdminRead(w)
  PROVE  RolesInv'
<1> DEFINE c == job[w].chat
<1>1. job[w] \in ReadingJob \ RowJob /\ c \in Chat
  BY ReaderTyped DEF RolesInv, RolesTyped, AdminRead, ReadingJob
<1>2. CASE \E u \in FoundFor(c) : Continue(w, Writing("adminJoin", u, c)) /\ UNCHANGED <<requests, asked>>
  <2>1. Moves
    BY <1>1, <1>2, BeginTyped, WritingTyped, FoundTyped DEF RolesInv, RolesTyped, RowWrites, Linking
  <2> QED
    BY <1>2, <2>1, JobStep DEF AdminRead, RolesInv, RolesTyped
<1>3. CASE /\ requests' = requests \cup {c}
           /\ asked' = [asked EXCEPT ![c] = IF c \in requests THEN @ ELSE @ + 1]
           /\ End(w)
  <2>1. Moves
    BY <1>1, <1>3, EndTyped DEF RolesInv, RolesTyped
  <2>2. asked' \in [Chat -> Nat] /\ requests' \subseteq Chat
    BY <1>1, <1>3 DEF RolesInv, RolesTyped
  <2>3. DecidedOnce'
    <3> SUFFICES ASSUME NEW d \in Chat
                 PROVE  decided[d] + (IF d \in requests' THEN 1 ELSE 0) <= asked'[d]
      BY DEF AdminRead, DecidedOnce
    <3>1. decided[d] + (IF d \in requests THEN 1 ELSE 0) <= asked[d]
      BY DEF RolesInv, DecidedOnce
    <3>2. asked[d] \in Nat /\ decided[d] \in Nat
      BY DEF RolesInv, RolesTyped
    <3>3. CASE d = c /\ d \notin requests
      <4>1. asked'[d] = asked[d] + 1 /\ d \in requests'
        BY <1>3, <3>3 DEF RolesInv, RolesTyped
      <4> QED
        BY <3>1, <3>2, <3>3, <4>1
    <3>4. CASE ~(d = c /\ d \notin requests)
      <4>1. asked'[d] = asked[d] /\ (d \in requests' <=> d \in requests)
        BY <1>3, <3>4 DEF RolesInv, RolesTyped
      <4> QED
        BY <3>1, <4>1
    <3> QED
      BY <3>3, <3>4
  <2> QED
    BY <2>1, <2>2, <2>3, QuietStep DEF AdminRead, RolesInv, RolesTyped
<1> QED
  BY <1>2, <1>3 DEF AdminRead

\* An administrator takes the request and counts it as decided.
LEMMA TakeStep ==
  ASSUME RolesInv, NEW c \in Chat, TakeRequest(c)
  PROVE  DecidedOnce' \/ asked' # asked
<1> SUFFICES ASSUME asked' = asked, NEW d \in Chat
             PROVE  decided'[d] + (IF d \in requests' THEN 1 ELSE 0) <= asked[d]
  BY DEF DecidedOnce
<1>1. decided[d] + (IF d \in requests THEN 1 ELSE 0) <= asked[d]
  BY DEF RolesInv, DecidedOnce
<1>2. asked[d] \in Nat /\ decided[d] \in Nat
  BY DEF RolesInv, RolesTyped
<1>3. CASE d = c
  <2>1. decided'[d] = decided[d] + 1 /\ d \in requests /\ d \notin requests'
    BY <1>3 DEF TakeRequest, RolesInv, RolesTyped
  <2> QED
    BY <1>1, <1>2, <2>1
<1>4. CASE d # c
  <2>1. decided'[d] = decided[d] /\ (d \in requests' <=> d \in requests)
    BY <1>4 DEF TakeRequest, RolesInv, RolesTyped
  <2> QED
    BY <1>1, <2>1
<1> QED
  BY <1>3, <1>4

LEMMA ApproveStep ==
  ASSUME RolesInv, NEW a \in Chat, NEW c \in Chat,
         Reject(a, c) \/ \E w \in Worker : Approve(w, a, c)
  PROVE  RolesInv'
<1>1. TakeRequest(c) /\ UNCHANGED <<users, tx, refused, asked, links>>
  BY DEF Approve, Reject
<1>2. DecidedOnce'
  <2>1. DecidedOnce' \/ asked' # asked
    BY <1>1, TakeStep
  <2> QED
    BY <1>1, <2>1
<1>3. decided' \in [Chat -> Nat] /\ requests' \subseteq Chat
  BY <1>1 DEF TakeRequest, RolesInv, RolesTyped
<1>4. Moves
  <2>1. CASE Reject(a, c)
    BY <2>1, StayTyped DEF Reject, RolesInv, RolesTyped
  <2>2. CASE \E w \in Worker : Approve(w, a, c)
    BY <2>2, BeginTyped, AskingTyped DEF Approve, RolesInv, RolesTyped
  <2> QED
    BY <2>1, <2>2
<1> QED
  BY <1>1, <1>2, <1>3, <1>4, QuietStep DEF RolesInv, RolesTyped

LEMMA ApproveReadStep ==
  ASSUME RolesInv, NEW w \in Worker, ApproveRead(w)
  PROVE  RolesInv'
<1> DEFINE c == job[w].chat
<1>1. c \in Chat /\ job[w] \notin RowJob
  BY ReaderTyped DEF RolesInv, RolesTyped, ApproveRead, ReadingJob
<1>2. Moves
  <2>1. CASE \E u \in FoundFor(c) : Continue(w, Writing("approve", u, c))
    BY <1>1, <2>1, BeginTyped, WritingTyped, FoundTyped DEF RolesInv, RolesTyped, RowWrites, Linking
  <2>2. CASE End(w)
    BY <1>1, <2>2, EndTyped DEF RolesInv, RolesTyped
  <2> QED
    BY <2>1, <2>2 DEF ApproveRead
<1> QED
  BY <1>2, JobStep DEF ApproveRead, history, RolesInv, RolesTyped

\* The messages that only start a handler.
LEMMA MessageStep ==
  ASSUME RolesInv, NEW w \in Worker, Message(w)
  PROVE  RolesInv'
<1>1. CASE \E a, c \in Chat : Approve(w, a, c)
  BY <1>1, ApproveStep
<1>2. CASE \E c \in Chat : AdminJoin(w, c)
  <2>1. PICK c \in Chat : AdminJoin(w, c)
    BY <1>2
  <2>2. Moves
    BY <2>1, BeginTyped, AskingTyped DEF AdminJoin, RolesInv, RolesTyped
  <2> QED
    BY <2>1, <2>2, JobStep DEF AdminJoin, memory, history, RolesInv, RolesTyped
<1>3. CASE \E c \in Chat : Start(w, c)
  <2>1. PICK c \in Chat : Start(w, c)
    BY <1>3
  <2>2. CASE UNCHANGED job
    BY <2>1, <2>2, JobStep, StayTyped DEF Start, RolesInv, RolesTyped
  <2>3. CASE \E u \in User, k \in {"startSeller", "startOwner", "startKnown"} :
               Begin(w, Writing(k, u, c))
    <3>1. Moves
      BY <2>3, BeginTyped, WritingTyped DEF RolesInv, RolesTyped, RowWrites, Linking
    <3> QED
      BY <2>1, <3>1, JobStep DEF Start, RolesInv, RolesTyped
  <2> QED
    BY <2>1, <2>2, <2>3, FoundTyped, RolesAssumption DEF Start
<1>4. CASE \E c \in Chat, t \in AllLinks : OpenLink(w, c, t)
  <2>1. PICK c \in Chat, t \in AllLinks : OpenLink(w, c, t)
    BY <1>4
  <2>2. \A k \in {"sellerRead", "courierRead"} : [kind |-> k, chat |-> c, link |-> t] \in Job
    BY DEF Job, LinkJob
  <2>3. Moves
    BY <2>1, <2>2, BeginTyped DEF OpenLink, RolesInv, RolesTyped
  <2> QED
    BY <2>1, <2>3, JobStep DEF OpenLink, memory, history, RolesInv, RolesTyped
<1>5. CASE \E c \in Chat, u \in User : UserJoin(w, c, u) \/ Contact(w, c, u)
  <2>1. PICK c \in Chat, u \in User : UserJoin(w, c, u) \/ Contact(w, c, u)
    BY <1>5
  <2>2. Moves
    BY <2>1, BeginTyped, WritingTyped DEF UserJoin, Contact, RolesInv, RolesTyped, RowWrites, Linking
  <2> QED
    BY <2>1, <2>2, JobStep DEF UserJoin, Contact, memory, history, RolesInv, RolesTyped
<1>6. CASE \E u \in User : GetProfile(w, u)
  <2>1. PICK u \in User : GetProfile(w, u)
    BY <1>6
  <2>2. PICK v \in User : users[v].chat # NoChat /\ Begin(w, Writing("autoLink", u, users[v].chat))
    BY <2>1 DEF GetProfile
  <2>3. users[v].chat \in Chat
    BY <2>2 DEF RolesInv, RolesTyped, Row
  <2>4. Moves
    BY <2>2, <2>3, BeginTyped, WritingTyped DEF RolesInv, RolesTyped, RowWrites, Linking
  <2> QED
    BY <2>1, <2>4, JobStep DEF GetProfile, memory, history, RolesInv, RolesTyped
<1>7. CASE \/ \E a \in Chat, u \in User : AddAdmin(w, a, u) \/ AddSeller(w, a, u)
           \/ \E v, u \in User, r \in UserRole : UpdateRole(w, v, u, r)
  <2>1. PICK j \in RoleJob : Begin(w, j) /\ UNCHANGED <<users, tx, memory, history>>
    BY <1>7 DEF AddAdmin, AddSeller, UpdateRole, RoleJob, UserRole
  <2>2. Moves
    <3>1. j \in Job
      BY DEF Job
    <3> QED
      BY <2>1, <3>1, BeginTyped DEF RolesInv, RolesTyped
  <2> QED
    BY <2>1, <2>2, JobStep DEF memory, history, RolesInv, RolesTyped
<1>8. CASE \E v, u \in User : Remove(w, v, u)
  <2>1. PICK v \in User, u \in User : Remove(w, v, u)
    BY <1>8
  <2>2. Writing("remove", u, NoChat) \in Job
    BY DEF Writing, Job, RemoveJob
  <2>3. Moves
    BY <2>1, <2>2, BeginTyped DEF Remove, RolesInv, RolesTyped
  <2> QED
    BY <2>1, <2>3, JobStep DEF Remove, memory, history, RolesInv, RolesTyped
<1> QED
  BY <1>1, <1>2, <1>3, <1>4, <1>5, <1>6, <1>7, <1>8 DEF Message

LEMMA NextRoles == RolesInv /\ [RolesNext]_roleVars => RolesInv'
<1> SUFFICES ASSUME RolesInv, [RolesNext]_roleVars PROVE RolesInv'
  OBVIOUS
<1>1. CASE UNCHANGED roleVars
  BY <1>1, JobStep, StayTyped DEF roleVars, RolesInv, RolesTyped
<1>2. CASE \E w \in Worker : HandlerStep(w) \/ Message(w)
  BY <1>2, WriteStep, LinkReadStep, AdminReadStep, ApproveReadStep, MessageStep, TransactionStep
     DEF HandlerStep
<1>3. CASE \E a, c \in Chat : Reject(a, c)
  BY <1>3, ApproveStep
<1>4. CASE \E t \in AllLinks : PurgeLink(t) \/ \E a \in Chat : CreateLink(a, t)
  BY <1>4, JobStep, StayTyped DEF PurgeLink, CreateLink, history, RolesInv, RolesTyped
<1>5. CASE \E u \in User : Register(u)
  <2>1. PICK u \in User : Register(u)
    BY <1>5
  <2>2. users' \in [User -> Row] /\ KeysHold(users')
    BY <2>1 DEF Register, RolesInv, RolesTyped, Row, KeysHold, UserRole
  <2>3. \A v \in User : users'[v].chat = users[v].chat /\ users'[v].uname = users[v].uname
    BY <2>1 DEF Register, RolesInv, RolesTyped, Row
  <2>4. \A w \in Worker : TxFits(w)'
    BY <2>1, <2>3 DEF Register, RolesInv, TxFits, TakesAll, WithChat, WithName
  <2> QED
    BY <2>1, <2>2, <2>4 DEF Register, memory, history, RolesInv, RolesTyped, DecidedOnce,
         LinkingRefusedOnlyIfCrossed
<1>6. CASE Restart
  <2>1. users' \in [User -> Row] /\ KeysHold(users')
    BY <1>6, RolesAssumption DEF Restart, SetRole, RolesInv, RolesTyped, Row, KeysHold, UserRole
  <2>2. /\ job' \in [Worker -> Job] /\ tx' \in [Worker -> Tx] /\ requests' = {}
        /\ DOMAIN links' = AllLinks
    BY <1>6 DEF Restart, Job, Tx, NoTx
  <2>4. \A w \in Worker : TxFits(w)'
    BY <1>6 DEF Restart, TxFits, NoTx
  <2>3. DecidedOnce'
    BY <1>6, <2>2 DEF Restart, history, RolesInv, RolesTyped, DecidedOnce
  <2> QED
    BY <1>6, <2>1, <2>2, <2>3, <2>4 DEF Restart, history, RolesInv, RolesTyped, LinkingRefusedOnlyIfCrossed
<1> QED
  BY <1>1, <1>2, <1>3, <1>4, <1>5, <1>6 DEF RolesNext, AllLinks

\* A request to become an administrator is decided once for each time it was
\* made, however many administrators press (handleApproval takes it from
\* pendingRequests before its first await).
THEOREM RequestsDecidedOnce == RolesSpec => []DecidedOnce
<1>1. RolesInv => DecidedOnce
  BY DEF RolesInv
<1> QED
  BY InitRoles, NextRoles, <1>1, PTL DEF RolesSpec

\* The transactions that link a chat meet a unique key only when somebody gives
\* the chat to another row between their statements (onStart: each clears the
\* rows it has seen with the chat and the username before it writes its own).
THEOREM LinksRefusedOnlyIfCrossed == RolesSpec => []LinkingRefusedOnlyIfCrossed
<1>1. RolesInv => LinkingRefusedOnlyIfCrossed
  BY DEF RolesInv
<1> QED
  BY InitRoles, NextRoles, <1>1, PTL DEF RolesSpec

\* One handler at most changes the person of a used link: only a fresh one is
\* marked, and a purge or a restart forgets it.
LEMMA LinkStep ==
  ASSUME RolesInv, [RolesNext]_roleVars, NEW t \in AllLinks, links[t] \in Chat
  PROVE  links'[t] \in {links[t], "none"}
<1> USE RolesAssumption
<1>0. links[t] # NoChat /\ links[t] # "none" /\ DOMAIN links = AllLinks
  BY DEF RolesInv, RolesTyped
<1>1. CASE UNCHANGED links
  BY <1>1
<1>2. CASE \E w \in Worker : SellerRead(w) \/ CourierRead(w)
  <2>1. PICK s, c : MarkUsed(s, c) \/ UNCHANGED links
    BY <1>2 DEF SellerRead, CourierRead
  <2> QED
    BY <1>0, <2>1 DEF MarkUsed
<1>3. CASE \E s \in AllLinks : PurgeLink(s) \/ \E a \in Chat : CreateLink(a, s)
  BY <1>0, <1>3 DEF PurgeLink, CreateLink
<1>4. CASE Restart
  BY <1>4 DEF Restart
<1>5. CASE \E w \in Worker : Write(w) \/ AdminRead(w) \/ ApproveRead(w) \/ Message(w)
  <2>1. PICK w \in Worker : Write(w) \/ AdminRead(w) \/ ApproveRead(w) \/ Message(w)
    BY <1>5
  <2>2. CASE Write(w) \/ AdminRead(w) \/ ApproveRead(w)
    BY <1>1, <2>2 DEF Write, AdminRead, ApproveRead
  <2>3. CASE Message(w)
    BY <1>1, <2>3 DEF Message, AdminJoin, Start, OpenLink, UserJoin, Contact, Approve, AddAdmin,
         AddSeller, UpdateRole, Remove, GetProfile, memory
  <2> QED
    BY <2>1, <2>2, <2>3
<1>6. CASE \/ \E a, c \in Chat : Reject(a, c)
           \/ \E u \in User : Register(u)
           \/ \E w \in Worker : TakeChat(w) \/ TakeName(w) \/ Deadlock(w)
           \/ UNCHANGED roleVars
  BY <1>1, <1>6 DEF Reject, Register, TakeChat, TakeName, Deadlock, memory, roleVars
<1> QED
  BY <1>2, <1>3, <1>4, <1>5, <1>6 DEF RolesNext, HandlerStep, AllLinks

\* A used link keeps the person who used it first, although its handlers look at
\* it before they read the database and mark it afterwards.
THEOREM LinksKeepTheFirst == RolesSpec => LinkKeepsFirst
<1>1. RolesInv /\ [RolesNext]_roleVars
        => [\A t \in AllLinks : links[t] \in Chat => links'[t] \in {links[t], "none"}]_roleVars
  BY LinkStep
<1> QED
  BY InitRoles, NextRoles, <1>1, PTL DEF RolesSpec, LinkKeepsFirst

----------------------------------------------------------------------------
(* One-time codes: what a request is in the middle of *)

AnyEmail == Email \cup {NoEmail}
AnyPhone == Phone \cup {NoPhone}
Purpose == {"REGISTER", "FORGOT_PASSWORD"}
CodeRow == [state : {"open", "used"}, email : AnyEmail, phone : AnyPhone, purpose : Purpose]
PlainCall ==
  {Resting}
  \cup [kind : {"retire", "issue"}, email : AnyEmail, phone : AnyPhone, purpose : Purpose]
  \cup [kind : {"insert"}, email : AnyEmail, phone : AnyPhone, online : BOOLEAN,
        why : {"google", "offline", "admin"}]
  \cup [kind : {"phone"}, row : Customer, phone : AnyPhone]
  \cup [kind : {"edit"}, row : Customer, email : AnyEmail, phone : AnyPhone]
SearchCall == [kind : {"byPhone", "byEmail"}, email : AnyEmail, phone : AnyPhone, code : CodeNumber]
ConvertCall == [kind : {"convert"}, row : Customer, email : AnyEmail, phone : AnyPhone,
                code : CodeNumber]
InsertCall == [kind : {"insert"}, email : AnyEmail, phone : AnyPhone, online : BOOLEAN,
               why : {"register"}, code : CodeNumber]
LastCall == [kind : {"mark", "password"}, code : CodeNumber]
CodeCall == SearchCall \cup ConvertCall \cup InsertCall \cup LastCall

CustomerRow == [email : AnyEmail, phone : AnyPhone, exists : BOOLEAN, online : BOOLEAN]

RegistrationTyped ==
  /\ row \in [Customer -> CustomerRow]
  /\ code \in [CodeNumber -> {NotIssued} \cup CodeRow]
  /\ \A n \in CodeNumber : code[n].state = "none" <=> n > issued
  /\ issued \in Nat
  /\ call \in [Clerk -> PlainCall \cup CodeCall]
  /\ applied \in [CodeNumber -> 0 .. 2]

Carries(r, n) == call[r] \in CodeCall /\ call[r].code = n

\* What holds of each code: it is carried by one request at most, or by several
\* that overlap; until it is marked, whoever has acted on it is about to mark it.
CodeFacts ==
  \A n \in CodeNumber :
    /\ code[n].state = "none" => applied[n] = 0 /\ \A r \in Clerk : ~Carries(r, n)
    /\ n \notin overlap =>
         /\ \A q, r \in Clerk : Carries(q, n) /\ Carries(r, n) => q = r
         /\ \A r \in Clerk : Carries(r, n) /\ ~In(r, "mark") => applied[n] = 0
         /\ code[n].state = "open" /\ applied[n] > 0
              => \E r \in Clerk : Carries(r, n) /\ In(r, "mark")

\* Who is about to turn a customer of the shop into an account found her
\* offline; she is online since only if another registration had found her too.
ConvertFacts ==
  /\ \A u \in Customer : row[u].online => row[u].exists
  /\ \A r \in Clerk : In(r, "convert") =>
       /\ row[call[r].row].exists
       /\ row[call[r].row].online => call[r].row \in taken
       /\ \A q \in Clerk \ {r} : In(q, "convert") /\ call[q].row = call[r].row
                                   => call[r].row \in taken

RegistrationInv == RegistrationTyped /\ CodeFacts /\ CodeWorksOnce /\ ConvertFacts

LEMMA PlainIsNotCode == ASSUME NEW j \in PlainCall PROVE j \notin CodeCall
BY DEF PlainCall, CodeCall, Resting, SearchCall, ConvertCall, InsertCall, LastCall

\* The kinds of the requests that carry a code, and of those that do not.
LEMMA CallKinds ==
  ASSUME NEW j \in PlainCall \cup CodeCall
  PROVE  /\ j.kind \in {"byPhone", "byEmail"} => j \in SearchCall
         /\ j.kind = "convert" => j \in ConvertCall
         /\ j.kind \in {"mark", "password"} => j \in LastCall
         /\ j.kind = "insert" /\ j.why = "register" => j \in InsertCall
         /\ j.kind = "insert" => /\ j.email \in AnyEmail /\ j.phone \in AnyPhone
                                 /\ j.online \in BOOLEAN
         /\ j.kind \in {"retire", "issue"} =>
              j \in [kind : {"retire", "issue"}, email : AnyEmail, phone : AnyPhone,
                     purpose : Purpose]
         /\ j.kind = "phone" => j \in [kind : {"phone"}, row : Customer, phone : AnyPhone]
         /\ j.kind = "edit" => j \in [kind : {"edit"}, row : Customer, email : AnyEmail,
                                     phone : AnyPhone]
BY DEF PlainCall, CodeCall, Resting, SearchCall, ConvertCall, InsertCall, LastCall

LEMMA CarriesIsHolding ==
  ASSUME NEW q \in Clerk, NEW n, Carries(q, n)
  PROVE  Holding(n)
<1>1. call[q].kind # "none" /\ "code" \in DOMAIN call[q] /\ call[q].code = n
  BY DEF Carries, CodeCall, SearchCall, ConvertCall, InsertCall, LastCall
<1> QED
  BY <1>1 DEF Holding

LEMMA InitRegistration == RegistrationInit => RegistrationInv
<1> SUFFICES ASSUME RegistrationInit PROVE RegistrationInv
  OBVIOUS
<1> USE RegistrationAssumption
<1>1. row \in [Customer -> CustomerRow] /\ \A u \in Customer : ~row[u].online
  BY DEF RegistrationInit, CustomerRow, Absent, AnyEmail, AnyPhone
<1>2. Resting \in PlainCall /\ \A r \in Clerk : call[r] = Resting
  BY DEF PlainCall, RegistrationInit
<1>3. call \in [Clerk -> PlainCall \cup CodeCall]
  BY <1>2 DEF RegistrationInit
<1>4. \A n \in CodeNumber : code[n].state = "none" /\ n > 0 /\ applied[n] = 0
  BY DEF RegistrationInit, NotIssued, CodeNumber
<1>5. RegistrationTyped
  BY <1>1, <1>3, <1>4 DEF RegistrationInit, RegistrationTyped
<1>6. \A r \in Clerk, n \in CodeNumber : ~Carries(r, n)
  BY <1>2, PlainIsNotCode DEF Carries
<1>7. \A r \in Clerk : ~In(r, "convert")
  BY <1>2 DEF In, Resting
<1> QED
  BY <1>1, <1>4, <1>5, <1>6, <1>7 DEF RegistrationInv, CodeFacts, CodeWorksOnce, ConvertFacts

----------------------------------------------------------------------------
(* The steps, by what they do to the codes *)

\* A request goes on with the code it carries, or without one; codes are issued
\* and retired.
LEMMA PlainStep ==
  ASSUME RegistrationInv, RegistrationTyped', NEW r \in Clerk, NEW j,
         call' = [call EXCEPT ![r] = j], ~In(r, "mark"),
         j \in CodeCall => Carries(r, j.code) /\ j.kind # "mark",
         UNCHANGED <<applied, overlap>>,
         \A n \in CodeNumber : /\ code'[n].state = "open" => code[n].state # "used"
                               /\ code'[n].state = "none" => code[n].state = "none"
  PROVE  CodeFacts' /\ CodeWorksOnce'
<1>1. \A q \in Clerk : call'[q] = IF q = r THEN j ELSE call[q]
  BY DEF RegistrationInv, RegistrationTyped
<1>2. \A q \in Clerk : \A n : Carries(q, n)' => Carries(q, n)
  BY <1>1 DEF Carries
<1>3. \A q \in Clerk : \A n : Carries(q, n)' /\ ~In(q, "mark")' => ~In(q, "mark")
  BY <1>1 DEF Carries, In
<1>4. \A q \in Clerk : \A n : Carries(q, n) /\ In(q, "mark") => Carries(q, n)' /\ In(q, "mark")'
  BY <1>1 DEF Carries, In
<1>5. \A n \in CodeNumber : applied[n] \in Nat /\ code[n].state \in {"none", "open", "used"}
  BY DEF RegistrationInv, RegistrationTyped, CodeRow, NotIssued
<1> SUFFICES ASSUME NEW n \in CodeNumber
    PROVE /\ code'[n].state = "none" => applied[n] = 0 /\ \A q \in Clerk : ~Carries(q, n)'
          /\ n \notin overlap =>
               /\ \A p, q \in Clerk : Carries(p, n)' /\ Carries(q, n)' => p = q
               /\ \A q \in Clerk : Carries(q, n)' /\ ~In(q, "mark")' => applied[n] = 0
               /\ code'[n].state = "open" /\ applied[n] > 0
                    => \E q \in Clerk : Carries(q, n)' /\ In(q, "mark")'
  BY DEF CodeFacts, CodeWorksOnce, RegistrationInv
<1>6. /\ code[n].state = "none" => applied[n] = 0 /\ \A q \in Clerk : ~Carries(q, n)
      /\ n \notin overlap =>
           /\ \A p, q \in Clerk : Carries(p, n) /\ Carries(q, n) => p = q
           /\ \A q \in Clerk : Carries(q, n) /\ ~In(q, "mark") => applied[n] = 0
           /\ code[n].state = "open" /\ applied[n] > 0
                => \E q \in Clerk : Carries(q, n) /\ In(q, "mark")
  BY DEF CodeFacts, RegistrationInv
<1> QED
  BY <1>2, <1>3, <1>4, <1>5, <1>6

\* A request finds an open code; if another has it in its hands they overlap.
LEMMA HoldStep ==
  ASSUME RegistrationInv, RegistrationTyped', NEW r \in Clerk, NEW n \in CodeNumber,
         NEW j \in CodeCall, j.code = n, j.kind # "mark",
         call[r] = Resting, call' = [call EXCEPT ![r] = j],
         code[n].state = "open", Hold(n), UNCHANGED <<applied, code>>
  PROVE  CodeFacts' /\ CodeWorksOnce'
<1>1. \A q \in Clerk : call'[q] = IF q = r THEN j ELSE call[q]
  BY DEF RegistrationInv, RegistrationTyped
<1>2. \A m : ~Carries(r, m)
  BY PlainIsNotCode DEF Carries, PlainCall
<1>3. overlap \subseteq overlap' /\ \A m : m # n => (m \in overlap' <=> m \in overlap)
  BY DEF Hold
<1>4. n \notin overlap' => \A q \in Clerk : ~Carries(q, n)
  BY CarriesIsHolding DEF Hold
<1>5. \A q \in Clerk \ {r} : \A m : /\ Carries(q, m)' <=> Carries(q, m)
                                    /\ In(q, "mark")' <=> In(q, "mark")
  BY <1>1 DEF Carries, In
<1>6. Carries(r, n)' /\ ~In(r, "mark")' /\ \A m : m # n => ~Carries(r, m)'
  BY <1>1 DEF Carries, In
<1>7. ~In(r, "mark")
  BY DEF In, Resting
<1>8. \A m \in CodeNumber : applied[m] \in 0 .. 2
  BY DEF RegistrationInv, RegistrationTyped
<1>9. ASSUME NEW m \in CodeNumber
      PROVE /\ code[m].state = "none" => applied[m] = 0 /\ \A q \in Clerk : ~Carries(q, m)'
            /\ m \notin overlap' =>
               /\ \A p, q \in Clerk : Carries(p, m)' /\ Carries(q, m)' => p = q
               /\ \A q \in Clerk : Carries(q, m)' /\ ~In(q, "mark")' => applied[m] = 0
               /\ code[m].state = "open" /\ applied[m] > 0
                    => \E q \in Clerk : Carries(q, m)' /\ In(q, "mark")'
            /\ applied[m] > 1 => m \in overlap'
  <2>1. /\ code[m].state = "none" => applied[m] = 0 /\ \A q \in Clerk : ~Carries(q, m)
        /\ m \notin overlap =>
             /\ \A p, q \in Clerk : Carries(p, m) /\ Carries(q, m) => p = q
             /\ \A q \in Clerk : Carries(q, m) /\ ~In(q, "mark") => applied[m] = 0
             /\ code[m].state = "open" /\ applied[m] > 0
                  => \E q \in Clerk : Carries(q, m) /\ In(q, "mark")
        /\ applied[m] > 1 => m \in overlap
    BY DEF CodeFacts, CodeWorksOnce, RegistrationInv
  <2>2. CASE m = n
    <3>1. n \notin overlap' => applied[n] = 0
      BY <1>3, <1>4, <1>8, <2>1, <2>2
    <3> QED
      BY <1>3, <1>4, <1>5, <1>6, <2>1, <2>2, <3>1
  <2>3. CASE m # n
    BY <1>3, <1>5, <1>6, <1>2, <1>7, <2>1, <2>3
  <2> QED
    BY <2>2, <2>3
<1> QED
  BY <1>9 DEF CodeFacts, CodeWorksOnce

\* A request acts on its code and is about to mark it.
LEMMA ApplyStep ==
  ASSUME RegistrationInv, RegistrationTyped', NEW r \in Clerk, NEW n \in CodeNumber,
         Carries(r, n), ~In(r, "mark"), Apply(n),
         call' = [call EXCEPT ![r] = [kind |-> "mark", code |-> n]],
         UNCHANGED <<code, overlap>>
  PROVE  CodeFacts' /\ CodeWorksOnce'
<1>1. \A q \in Clerk : call'[q] = IF q = r THEN [kind |-> "mark", code |-> n] ELSE call[q]
  BY DEF RegistrationInv, RegistrationTyped
<1>2. Carries(r, n)' /\ In(r, "mark")' /\ \A m : m # n => ~Carries(r, m)' /\ ~Carries(r, m)
  BY <1>1 DEF Carries, In, CodeCall, LastCall
<1>3. \A q \in Clerk \ {r} : \A m : /\ Carries(q, m)' <=> Carries(q, m)
                                    /\ In(q, "mark")' <=> In(q, "mark")
  BY <1>1 DEF Carries, In
<1>4. \A m \in CodeNumber : m # n => applied'[m] = applied[m]
  BY DEF Apply, RegistrationInv, RegistrationTyped
<1>5. applied[n] = 0 => applied'[n] = 1
  BY DEF Apply, RegistrationInv, RegistrationTyped
<1>6. \A m \in CodeNumber : applied[m] \in 0 .. 2 /\ applied'[m] \in 0 .. 2
  BY DEF RegistrationInv, RegistrationTyped
<1>7. ASSUME NEW m \in CodeNumber
      PROVE /\ code[m].state = "none" => applied'[m] = 0 /\ \A q \in Clerk : ~Carries(q, m)'
            /\ m \notin overlap =>
               /\ \A p, q \in Clerk : Carries(p, m)' /\ Carries(q, m)' => p = q
               /\ \A q \in Clerk : Carries(q, m)' /\ ~In(q, "mark")' => applied'[m] = 0
               /\ code[m].state = "open" /\ applied'[m] > 0
                    => \E q \in Clerk : Carries(q, m)' /\ In(q, "mark")'
            /\ applied'[m] > 1 => m \in overlap
  <2>1. /\ code[m].state = "none" => applied[m] = 0 /\ \A q \in Clerk : ~Carries(q, m)
        /\ m \notin overlap =>
             /\ \A p, q \in Clerk : Carries(p, m) /\ Carries(q, m) => p = q
             /\ \A q \in Clerk : Carries(q, m) /\ ~In(q, "mark") => applied[m] = 0
             /\ code[m].state = "open" /\ applied[m] > 0
                  => \E q \in Clerk : Carries(q, m) /\ In(q, "mark")
        /\ applied[m] > 1 => m \in overlap
    BY DEF CodeFacts, CodeWorksOnce, RegistrationInv
  <2>2. CASE m = n
    BY <1>2, <1>3, <1>5, <1>6, <2>1, <2>2
  <2>3. CASE m # n
    BY <1>2, <1>3, <1>4, <2>1, <2>3
  <2> QED
    BY <2>2, <2>3
<1> QED
  BY <1>7 DEF CodeFacts, CodeWorksOnce

\* A request marks its code, or dies before: the code counts as overlapping then.
LEMMA MarkStep ==
  ASSUME RegistrationInv, RegistrationTyped', NEW r \in Clerk, NEW n \in CodeNumber,
         Carries(r, n), call' = [call EXCEPT ![r] = Resting], UNCHANGED applied,
         \/ code' = [code EXCEPT ![n].state = "used"] /\ UNCHANGED overlap
         \/ overlap' = overlap \cup {n} /\ UNCHANGED code
  PROVE  CodeFacts' /\ CodeWorksOnce'
<1>1. \A q \in Clerk : call'[q] = IF q = r THEN Resting ELSE call[q]
  BY DEF RegistrationInv, RegistrationTyped
<1>2. \A m : /\ m # n => ~Carries(r, m)
             /\ ~Carries(r, m)'
  BY <1>1, PlainIsNotCode DEF Carries, PlainCall
<1>3. \A q \in Clerk \ {r} : \A m : /\ Carries(q, m)' <=> Carries(q, m)
                                    /\ In(q, "mark")' <=> In(q, "mark")
  BY <1>1 DEF Carries, In
<1>4. \A m \in CodeNumber : m # n => code'[m] = code[m] /\ (m \in overlap' <=> m \in overlap)
  BY DEF RegistrationInv, RegistrationTyped
<1>5. /\ code'[n].state = "used" \/ n \in overlap'
      /\ overlap \subseteq overlap'
      /\ code'[n].state = "none" => code[n].state = "none"
  BY DEF RegistrationInv, RegistrationTyped, CodeRow, NotIssued
<1>6. ASSUME NEW m \in CodeNumber
      PROVE /\ code'[m].state = "none" => applied[m] = 0 /\ \A q \in Clerk : ~Carries(q, m)'
            /\ m \notin overlap' =>
               /\ \A p, q \in Clerk : Carries(p, m)' /\ Carries(q, m)' => p = q
               /\ \A q \in Clerk : Carries(q, m)' /\ ~In(q, "mark")' => applied[m] = 0
               /\ code'[m].state = "open" /\ applied[m] > 0
                    => \E q \in Clerk : Carries(q, m)' /\ In(q, "mark")'
            /\ applied[m] > 1 => m \in overlap'
  <2>1. /\ code[m].state = "none" => applied[m] = 0 /\ \A q \in Clerk : ~Carries(q, m)
        /\ m \notin overlap =>
             /\ \A p, q \in Clerk : Carries(p, m) /\ Carries(q, m) => p = q
             /\ \A q \in Clerk : Carries(q, m) /\ ~In(q, "mark") => applied[m] = 0
             /\ code[m].state = "open" /\ applied[m] > 0
                  => \E q \in Clerk : Carries(q, m) /\ In(q, "mark")
        /\ applied[m] > 1 => m \in overlap
    BY DEF CodeFacts, CodeWorksOnce, RegistrationInv
  <2>2. CASE m = n
    BY <1>2, <1>3, <1>5, <2>1, <2>2
  <2>3. CASE m # n
    BY <1>2, <1>3, <1>4, <2>1, <2>3
  <2> QED
    BY <2>2, <2>3
<1> QED
  BY <1>6 DEF CodeFacts, CodeWorksOnce

\* A step after which nobody new is about to convert a customer.
LEMMA RowStep ==
  ASSUME RegistrationInv, RegistrationTyped', NEW r \in Clerk, NEW j, j.kind # "convert",
         call' = [call EXCEPT ![r] = j], UNCHANGED taken,
         \A u \in Customer :
           /\ row'[u].online => row'[u].exists
           /\ row[u].exists =>
                /\ row'[u].exists
                /\ row'[u].online => row[u].online \/ (In(r, "convert") /\ u = call[r].row)
  PROVE  ConvertFacts'
<1>1. \A q \in Clerk : call'[q] = IF q = r THEN j ELSE call[q]
  BY DEF RegistrationInv, RegistrationTyped
<1>2. \A q \in Clerk : In(q, "convert")' => q # r /\ In(q, "convert") /\ call'[q] = call[q]
  BY <1>1 DEF In
<1>3. \A q \in Clerk : In(q, "convert") => call[q].row \in Customer
  BY CallKinds DEF RegistrationInv, RegistrationTyped, In, ConvertCall
<1> QED
  BY <1>2, <1>3 DEF RegistrationInv, ConvertFacts

----------------------------------------------------------------------------
(* The actions *)

LEMMA CallTyped ==
  ASSUME RegistrationTyped, NEW r \in Clerk, NEW j \in PlainCall \cup CodeCall,
         call' = [call EXCEPT ![r] = j]
  PROVE  call' \in [Clerk -> PlainCall \cup CodeCall]
BY DEF RegistrationTyped

\* A request that goes on without acting on a code, whatever it does to rows
\* short of making an account of one.
LEMMA GoOnStep ==
  ASSUME RegistrationInv, NEW r \in Clerk, NEW j \in PlainCall \cup CodeCall,
         call' = [call EXCEPT ![r] = j], ~In(r, "mark"), j.kind # "convert",
         j \in CodeCall => Carries(r, j.code) /\ j.kind # "mark",
         UNCHANGED <<code, issued, applied, overlap, taken>>,
         row' \in [Customer -> CustomerRow],
         \A u \in Customer : /\ row'[u].online => row'[u].exists
                             /\ row[u].exists => /\ row'[u].exists
                                                 /\ row'[u].online => row[u].online
  PROVE  RegistrationInv'
<1>1. RegistrationTyped'
  BY CallTyped DEF RegistrationInv, RegistrationTyped
<1>2. ConvertFacts'
  BY <1>1, RowStep
<1>3. \A n \in CodeNumber : /\ code'[n].state = "open" => code[n].state # "used"
                            /\ code'[n].state = "none" => code[n].state = "none"
  OBVIOUS
<1>4. CodeFacts' /\ CodeWorksOnce'
  BY <1>1, <1>3, PlainStep
<1> QED
  BY <1>1, <1>2, <1>4 DEF RegistrationInv

LEMMA RestingCall == Resting \in PlainCall /\ Resting \notin CodeCall /\ Resting.kind # "convert"
BY PlainIsNotCode DEF PlainCall, Resting

LEMMA SameRows ==
  ASSUME RegistrationInv, UNCHANGED row
  PROVE  /\ row' \in [Customer -> CustomerRow]
         /\ \A u \in Customer : /\ row'[u].online => row'[u].exists
                                /\ row[u].exists => /\ row'[u].exists
                                                    /\ row'[u].online => row[u].online
BY DEF RegistrationInv, RegistrationTyped, ConvertFacts

\* A request starts without a code.
LEMMA AskStep ==
  ASSUME RegistrationInv, NEW r \in Clerk, NEW j \in PlainCall, Ask(r, j),
         UNCHANGED <<row, code, issued, applied, overlap, taken>>
  PROVE  RegistrationInv'
<1>1. ~In(r, "mark")
  BY DEF Ask, In, Resting
<1>2. j.kind # "convert" /\ j \notin CodeCall
  BY PlainIsNotCode DEF PlainCall, Resting
<1> QED
  BY <1>1, <1>2, SameRows, GoOnStep DEF Ask

LEMMA StopStep ==
  ASSUME RegistrationInv, NEW r \in Clerk, ~In(r, "mark"), Answer(r),
         UNCHANGED <<row, code, issued, applied, overlap, taken>>
  PROVE  RegistrationInv'
BY RestingCall, SameRows, GoOnStep DEF Answer

LEMMA RequestOtpStep ==
  ASSUME RegistrationInv, NEW r \in Clerk, NEW e \in Email,
         RequestForgotPasswordOtp(r, e) \/ \E p \in Phone : RequestRegisterOtp(r, e, p)
  PROVE  RegistrationInv'
<1>1. PICK j \in PlainCall : Ask(r, j)
  BY DEF RequestForgotPasswordOtp, RequestRegisterOtp, PlainCall, AnyEmail, AnyPhone, Purpose
<1> QED
  BY <1>1, AskStep DEF RequestForgotPasswordOtp, RequestRegisterOtp

LEMMA OtherAccountStep ==
  ASSUME RegistrationInv, NEW r \in Clerk,
         \/ \E e \in Email, p \in Phone : CreateAdmin(r, e, p)
         \/ \E e \in Email, p \in AnyPhone : LoginWithGoogle(r, e, p)
         \/ \E e \in AnyEmail, p \in Phone : RegisterOffline(r, e, p)
         \/ \E u \in Customer, p \in Phone : ChangePhone(r, u, p)
         \/ \E u \in Customer, e \in AnyEmail, p \in Phone : UpdateCustomer(r, u, e, p)
  PROVE  RegistrationInv'
<1>1. ASSUME NEW e \in Email, NEW p \in Phone, CreateAdmin(r, e, p)
      PROVE  \E j \in PlainCall : Ask(r, j)
  BY <1>1 DEF CreateAdmin, PlainCall, AnyEmail, AnyPhone
<1>2. ASSUME NEW e \in Email, NEW p \in AnyPhone, LoginWithGoogle(r, e, p)
      PROVE  \E j \in PlainCall : Ask(r, j)
  <2>1. \A u \in WithEmail(e) : u \in Customer
    BY DEF WithEmail, Rows
  <2> QED
    BY <1>2, <2>1 DEF LoginWithGoogle, PlainCall, AnyEmail
<1>3. ASSUME NEW e \in AnyEmail, NEW p \in Phone, RegisterOffline(r, e, p)
      PROVE  \E j \in PlainCall : Ask(r, j)
  BY <1>3 DEF RegisterOffline, PlainCall, AnyPhone
<1>4. ASSUME NEW u \in Customer, NEW p \in Phone, ChangePhone(r, u, p)
      PROVE  \E j \in PlainCall : Ask(r, j)
  BY <1>4 DEF ChangePhone, PlainCall, AnyPhone
<1>5. ASSUME NEW u \in Customer, NEW e \in AnyEmail, NEW p \in Phone, UpdateCustomer(r, u, e, p)
      PROVE  \E j \in PlainCall : Ask(r, j)
  BY <1>5 DEF UpdateCustomer, PlainCall, AnyPhone
<1>6. UNCHANGED <<row, code, issued, applied, overlap, taken>>
  BY DEF CreateAdmin, LoginWithGoogle, RegisterOffline, ChangePhone, UpdateCustomer, histories
<1>7. PICK j \in PlainCall : Ask(r, j)
  BY <1>1, <1>2, <1>3, <1>4, <1>5
<1> QED
  BY <1>6, <1>7, AskStep

\* The codes that were open are used before the next is issued.
LEMMA RetireStep ==
  ASSUME RegistrationInv, NEW r \in Clerk, RetireCodes(r)
  PROVE  RegistrationInv'
<1> DEFINE j == [call[r] EXCEPT !.kind = "issue"]
           open == OpenCodes(call[r].email, call[r].purpose)
<1>1. call[r] \in PlainCall \cup CodeCall /\ call[r].kind = "retire"
  BY DEF RetireCodes, In, RegistrationInv, RegistrationTyped
<1>2. j \in PlainCall /\ j.kind = "issue"
  BY <1>1, CallKinds DEF PlainCall
<1>3. call' = [call EXCEPT ![r] = j] /\ UNCHANGED <<row, issued, applied, overlap, taken>>
  BY DEF RetireCodes, Proceed, histories
<1>4. open \subseteq CodeNumber /\ \A n \in open : code[n].state = "open"
  BY DEF OpenCodes
<1>5. code' = [n \in CodeNumber |-> IF n \in open THEN [code[n] EXCEPT !.state = "used"]
                                    ELSE code[n]]
  BY DEF RetireCodes
<1> HIDE DEF j, open
<1>6. ASSUME NEW n \in CodeNumber
      PROVE  /\ code'[n] \in {NotIssued} \cup CodeRow
             /\ code'[n].state = "open" => code[n].state # "used"
             /\ code'[n].state = "none" <=> code[n].state = "none"
  <2>1. code[n] \in {NotIssued} \cup CodeRow
    BY DEF RegistrationInv, RegistrationTyped
  <2>2. CASE n \in open
    <3>1. code[n] \in CodeRow /\ code'[n] = [code[n] EXCEPT !.state = "used"]
      BY <1>4, <1>5, <2>1, <2>2 DEF NotIssued
    <3> QED
      BY <1>4, <2>2, <3>1 DEF CodeRow
  <2>3. CASE n \notin open
    <3>1. code'[n] = code[n]
      BY <1>5, <2>3
    <3> QED
      BY <2>1, <3>1 DEF CodeRow, NotIssued
  <2> QED
    BY <2>2, <2>3
<1>7. RegistrationTyped'
  BY <1>2, <1>3, <1>5, <1>6, CallTyped DEF RegistrationInv, RegistrationTyped
<1>8. CodeFacts' /\ CodeWorksOnce'
  BY <1>1, <1>2, <1>3, <1>6, <1>7, PlainIsNotCode, PlainStep DEF In
<1>9. ConvertFacts'
  BY <1>2, <1>3, <1>7, RowStep DEF RegistrationInv, ConvertFacts
<1> QED
  BY <1>7, <1>8, <1>9 DEF RegistrationInv

LEMMA IssueStep ==
  ASSUME RegistrationInv, NEW r \in Clerk, IssueCode(r)
  PROVE  RegistrationInv'
<1> USE RegistrationAssumption
<1> DEFINE fresh == [state |-> "open", email |-> call[r].email, phone |-> call[r].phone,
                     purpose |-> call[r].purpose]
<1>1. call[r] \in PlainCall \cup CodeCall /\ call[r].kind = "issue" /\ issued \in Nat
  BY DEF IssueCode, In, RegistrationInv, RegistrationTyped
<1>2. fresh \in CodeRow /\ fresh.state = "open"
  BY <1>1, CallKinds DEF CodeRow
<1>3. /\ call' = [call EXCEPT ![r] = Resting] /\ UNCHANGED <<row, applied, overlap, taken>>
      /\ code' = [code EXCEPT ![issued + 1] = fresh] /\ issued' = issued + 1
      /\ issued + 1 \in CodeNumber
  BY <1>1 DEF IssueCode, Answer, histories, CodeNumber
<1> HIDE DEF fresh
<1>4. ASSUME NEW n \in CodeNumber
      PROVE  /\ code'[n].state = "open" => code[n].state # "used"
             /\ code'[n].state = "none" => code[n].state = "none"
             /\ code'[n].state = "none" <=> n > issued + 1
  <2>1. n \in Nat /\ (code[n].state = "none" <=> n > issued)
    BY DEF RegistrationInv, RegistrationTyped, CodeNumber
  <2>2. code'[n] = IF n = issued + 1 THEN fresh ELSE code[n]
    BY <1>3 DEF RegistrationInv, RegistrationTyped
  <2> QED
    BY <1>1, <1>2, <2>1, <2>2
<1>5. RegistrationTyped'
  BY <1>1, <1>2, <1>3, <1>4, RestingCall, CallTyped DEF RegistrationInv, RegistrationTyped
<1>6. CodeFacts' /\ CodeWorksOnce'
  BY <1>1, <1>3, <1>4, <1>5, RestingCall, PlainStep DEF In
<1>7. ConvertFacts'
  BY <1>3, <1>5, RestingCall, RowStep DEF RegistrationInv, ConvertFacts
<1> QED
  BY <1>5, <1>6, <1>7 DEF RegistrationInv

\* A request carries the code it verifies.
LEMMA FindCodeStep ==
  ASSUME RegistrationInv, NEW r \in Clerk, NEW n \in CodeNumber,
         VerifyRegisterOtp(r, n) \/ ResetPassword(r, n)
  PROVE  RegistrationInv'
<1>1. code[n].state = "open"
  BY DEF VerifyRegisterOtp, ResetPassword, Accepts, OpenCodes
<1>2. code[n] \in CodeRow
  BY <1>1 DEF RegistrationInv, RegistrationTyped, NotIssued
<1>3. PICK j \in CodeCall : Ask(r, j) /\ j.code = n /\ j.kind \notin {"mark", "convert"}
  <2>1. CASE VerifyRegisterOtp(r, n)
    <3>1. [kind |-> "byPhone", email |-> code[n].email, phone |-> code[n].phone, code |-> n]
             \in CodeCall
      BY <1>2 DEF CodeRow, CodeCall, SearchCall
    <3> QED
      BY <2>1, <3>1 DEF VerifyRegisterOtp
  <2>2. CASE ResetPassword(r, n)
    BY <2>2 DEF ResetPassword, CodeCall, LastCall
  <2> QED
    BY <2>1, <2>2
<1>4. Hold(n) /\ UNCHANGED <<row, code, issued, applied, taken>>
  BY DEF VerifyRegisterOtp, ResetPassword
<1>5. RegistrationTyped'
  BY <1>3, <1>4, CallTyped DEF Ask, RegistrationInv, RegistrationTyped
<1>6. CodeFacts' /\ CodeWorksOnce'
  BY <1>1, <1>3, <1>4, <1>5, HoldStep DEF Ask
<1>7. ConvertFacts'
  BY <1>3, <1>4, <1>5, RowStep DEF Ask, RegistrationInv, ConvertFacts
<1> QED
  BY <1>5, <1>6, <1>7 DEF RegistrationInv

LEMMA MovedCode ==
  ASSUME NEW r \in Clerk, NEW j \in CodeCall, call[r] \in CodeCall, j.code = call[r].code
  PROVE  Carries(r, j.code)
BY DEF Carries

LEMMA FindByPhoneStep ==
  ASSUME RegistrationInv, NEW r \in Clerk, FindByPhone(r)
  PROVE  RegistrationInv'
<1> DEFINE found == WithDigits(call[r].phone)
<1>1. call[r] \in SearchCall /\ call[r] \in CodeCall /\ ~In(r, "mark") /\ call[r].kind = "byPhone"
  BY CallKinds DEF FindByPhone, In, RegistrationInv, RegistrationTyped, CodeCall
<1>2. found \subseteq Customer /\ \A u \in found : row[u].exists
  BY DEF WithDigits, Rows
<1>3. UNCHANGED <<row, code, issued, applied, overlap>>
  BY DEF FindByPhone
<1>4. CASE Proceed(r, [call[r] EXCEPT !.kind = "byEmail"]) /\ UNCHANGED taken
  <2> DEFINE j == [call[r] EXCEPT !.kind = "byEmail"]
  <2>1. j \in CodeCall /\ j.code = call[r].code /\ j.kind = "byEmail"
    BY <1>1 DEF SearchCall, CodeCall
  <2>2. call' = [call EXCEPT ![r] = j]
    BY <1>4 DEF Proceed
  <2> HIDE DEF j
  <2> QED
    BY <1>1, <1>3, <1>4, <2>1, <2>2, MovedCode, SameRows, GoOnStep
<1>5. CASE Answer(r) /\ UNCHANGED taken
  BY <1>1, <1>3, <1>5, StopStep
<1>6. ASSUME NEW u \in found, ~row[u].online,
             Proceed(r, [kind |-> "convert", row |-> u, email |-> call[r].email,
                         phone |-> call[r].phone, code |-> call[r].code]),
             taken' = IF \E q \in Clerk : In(q, "convert") /\ call[q].row = u
                      THEN taken \cup {u} ELSE taken
      PROVE  RegistrationInv'
  <2> DEFINE j == [kind |-> "convert", row |-> u, email |-> call[r].email,
                   phone |-> call[r].phone, code |-> call[r].code]
  <2>1. j \in CodeCall /\ j.code = call[r].code /\ j.kind = "convert" /\ j.row = u
    BY <1>1, <1>2 DEF SearchCall, ConvertCall, CodeCall
  <2>2. call' = [call EXCEPT ![r] = j]
    BY <1>6 DEF Proceed
  <2> HIDE DEF j
  <2>3. RegistrationTyped'
    BY <1>3, <2>1, <2>2, CallTyped DEF RegistrationInv, RegistrationTyped
  <2>4. CodeFacts' /\ CodeWorksOnce'
    BY <1>1, <1>3, <2>1, <2>2, <2>3, MovedCode, PlainStep
  <2>5. \A q \in Clerk : call'[q] = IF q = r THEN j ELSE call[q]
    BY <2>2 DEF RegistrationInv, RegistrationTyped
  <2>6. \A q \in Clerk \ {r} : (In(q, "convert")' <=> In(q, "convert")) /\ call'[q] = call[q]
    BY <2>5 DEF In
  <2>7. In(r, "convert")' /\ call'[r].row = u
    BY <2>1, <2>5 DEF In
  <2>8. taken \subseteq taken'
    BY <1>6
  <2>9. \A q \in Clerk : In(q, "convert") /\ call[q].row = u => u \in taken'
    BY <1>6
  <2>10. row[u].exists /\ ~row[u].online
    BY <1>2, <1>6
  <2>11. /\ \A v \in Customer : row[v].online => row[v].exists
         /\ \A q \in Clerk : In(q, "convert") =>
              /\ row[call[q].row].exists
              /\ row[call[q].row].online => call[q].row \in taken
              /\ \A p \in Clerk \ {q} : In(p, "convert") /\ call[p].row = call[q].row
                                          => call[q].row \in taken
    BY DEF RegistrationInv, ConvertFacts
  <2>12. ASSUME NEW q \in Clerk, In(q, "convert")'
         PROVE  /\ row'[call'[q].row].exists
                /\ row'[call'[q].row].online => call'[q].row \in taken'
                /\ \A p \in Clerk \ {q} : In(p, "convert")' /\ call'[p].row = call'[q].row
                                            => call'[q].row \in taken'
    <3>1. CASE q = r
      BY <1>3, <2>6, <2>7, <2>9, <2>10, <3>1
    <3>2. CASE q # r
      <4>1. In(q, "convert") /\ call'[q] = call[q]
        BY <2>6, <2>12, <3>2
      <4>2. ASSUME NEW p \in Clerk \ {q}, In(p, "convert")', call'[p].row = call'[q].row
            PROVE  call'[q].row \in taken'
        <5>1. CASE p = r
          BY <2>7, <2>9, <4>1, <4>2, <5>1
        <5>2. CASE p # r
          BY <2>6, <2>8, <2>11, <4>1, <4>2, <5>2
        <5> QED
          BY <5>1, <5>2
      <4> QED
        BY <1>3, <2>8, <2>11, <4>1, <4>2
    <3> QED
      BY <3>1, <3>2
  <2>13. ConvertFacts'
    BY <1>3, <2>11, <2>12 DEF ConvertFacts
  <2> QED
    BY <2>3, <2>4, <2>13 DEF RegistrationInv
<1> QED
  BY <1>4, <1>5, <1>6 DEF FindByPhone

LEMMA FindByEmailStep ==
  ASSUME RegistrationInv, NEW r \in Clerk, FindByEmail(r)
  PROVE  RegistrationInv'
<1>1. call[r] \in SearchCall /\ call[r] \in CodeCall /\ ~In(r, "mark") /\ call[r].kind = "byEmail"
  BY CallKinds DEF FindByEmail, In, RegistrationInv, RegistrationTyped, CodeCall
<1>2. UNCHANGED <<row, code, issued, applied, overlap, taken>>
  BY DEF FindByEmail, histories
<1>3. CASE Answer(r)
  BY <1>1, <1>2, <1>3, StopStep
<1>4. CASE Proceed(r, [kind |-> "insert", email |-> call[r].email, phone |-> call[r].phone,
                       online |-> TRUE, why |-> "register", code |-> call[r].code])
  <2> DEFINE j == [kind |-> "insert", email |-> call[r].email, phone |-> call[r].phone,
                   online |-> TRUE, why |-> "register", code |-> call[r].code]
  <2>1. j \in CodeCall /\ j.code = call[r].code /\ j.kind = "insert"
    BY <1>1 DEF SearchCall, InsertCall, CodeCall
  <2>2. call' = [call EXCEPT ![r] = j]
    BY <1>4 DEF Proceed
  <2> HIDE DEF j
  <2> QED
    BY <1>1, <1>2, <2>1, <2>2, MovedCode, SameRows, GoOnStep
<1> QED
  BY <1>3, <1>4 DEF FindByEmail

\* A request that acts on its code: the rows it writes are the last thing before.
LEMMA ActStep ==
  ASSUME RegistrationInv, NEW r \in Clerk, call[r] \in CodeCall, ~In(r, "mark"),
         Apply(call[r].code), MarkNext(r), UNCHANGED <<code, issued, overlap, taken>>,
         row' \in [Customer -> CustomerRow],
         \A u \in Customer :
           /\ row'[u].online => row'[u].exists
           /\ row[u].exists =>
                /\ row'[u].exists
                /\ row'[u].online => row[u].online \/ (In(r, "convert") /\ u = call[r].row)
  PROVE  RegistrationInv'
<1> DEFINE j == [kind |-> "mark", code |-> call[r].code]
<1>1. call[r].code \in CodeNumber
  BY DEF CodeCall, SearchCall, ConvertCall, InsertCall, LastCall
<1>2. j \in CodeCall /\ j.kind = "mark" /\ call' = [call EXCEPT ![r] = j]
  BY <1>1 DEF MarkNext, Proceed, CodeCall, LastCall
<1>3. applied' \in [CodeNumber -> 0 .. 2]
  <2>1. \A n \in CodeNumber : applied[n] \in 0 .. 2
    BY DEF RegistrationInv, RegistrationTyped
  <2>2. (IF applied[call[r].code] = 2 THEN 2 ELSE applied[call[r].code] + 1) \in 0 .. 2
    BY <1>1, <2>1
  <2> QED
    BY <2>2 DEF Apply, RegistrationInv, RegistrationTyped
<1>4. RegistrationTyped'
  BY <1>2, <1>3, CallTyped DEF RegistrationInv, RegistrationTyped
<1>5. CodeFacts' /\ CodeWorksOnce'
  BY <1>1, <1>2, <1>4, ApplyStep DEF Carries
<1>6. ConvertFacts'
  BY <1>2, <1>4, RowStep
<1> QED
  BY <1>4, <1>5, <1>6 DEF RegistrationInv

LEMMA ConvertStep ==
  ASSUME RegistrationInv, NEW r \in Clerk, Convert(r)
  PROVE  RegistrationInv'
<1> DEFINE u == call[r].row
<1>1. /\ call[r] \in ConvertCall /\ call[r] \in CodeCall /\ ~In(r, "mark") /\ In(r, "convert")
      /\ u \in Customer /\ call[r].email \in AnyEmail
  BY CallKinds DEF Convert, In, RegistrationInv, RegistrationTyped, CodeCall, ConvertCall
<1>2. UNCHANGED <<code, issued, overlap, taken>>
  BY SMTT(60) DEF Convert
<1>3. CASE /\ row' = [row EXCEPT ![u].email = call[r].email, ![u].online = TRUE]
           /\ Apply(call[r].code) /\ MarkNext(r)
  <2>1. row \in [Customer -> CustomerRow] /\ \A v \in Customer : row[v].online => row[v].exists
    BY DEF RegistrationInv, RegistrationTyped, ConvertFacts
  <2>2. row[u].exists
    BY <1>1 DEF RegistrationInv, ConvertFacts
  <2>3. row'[u] = [[row[u] EXCEPT !.email = call[r].email] EXCEPT !.online = TRUE]
    BY <1>1, <1>3, <2>1
  <2>4. \A v \in Customer : v # u => row'[v] = row[v]
    BY <1>3, <2>1
  <2>5. row[u] \in CustomerRow
    BY <1>1, <2>1
  <2>6. row'[u] \in CustomerRow /\ row'[u].exists
    BY <1>1, <2>2, <2>3, <2>5 DEF CustomerRow
  <2>7. row' \in [Customer -> CustomerRow]
    BY <1>1, <1>3, <2>1, <2>4, <2>6
  <2>8. \A v \in Customer :
           /\ row'[v].online => row'[v].exists
           /\ row[v].exists =>
                /\ row'[v].exists
                /\ row'[v].online => row[v].online \/ (In(r, "convert") /\ v = call[r].row)
    BY <1>1, <2>1, <2>4, <2>6
  <2> QED
    BY <1>1, <1>2, <1>3, <2>7, <2>8, ActStep
<1>4. CASE Deny(r, "convert") /\ UNCHANGED <<row, applied>>
  BY <1>1, <1>2, <1>4, StopStep DEF Deny
<1> QED
  BY <1>3, <1>4 DEF Convert

LEMMA InsertStep ==
  ASSUME RegistrationInv, NEW r \in Clerk, Insert(r)
  PROVE  RegistrationInv'
<1>1. /\ ~In(r, "mark") /\ call[r] \in PlainCall \cup CodeCall
      /\ call[r].email \in AnyEmail /\ call[r].phone \in AnyPhone /\ call[r].online \in BOOLEAN
      /\ call[r].why = "register" => call[r] \in CodeCall
  BY CallKinds DEF Insert, In, RegistrationInv, RegistrationTyped, CodeCall
<1>2. UNCHANGED <<code, issued, overlap, taken>>
  BY DEF Insert
<1>3. CASE Deny(r, call[r].why) /\ UNCHANGED <<row, applied>>
  BY <1>1, <1>2, <1>3, StopStep DEF Deny
<1>4. ASSUME NEW u \in Customer \ Rows,
             row' = [row EXCEPT ![u] = [email |-> call[r].email, phone |-> call[r].phone,
                                        exists |-> TRUE, online |-> call[r].online]],
             IF call[r].why = "register" THEN Apply(call[r].code) /\ MarkNext(r)
             ELSE Answer(r) /\ UNCHANGED applied
      PROVE  RegistrationInv'
  <2> DEFINE new == [email |-> call[r].email, phone |-> call[r].phone,
                     exists |-> TRUE, online |-> call[r].online]
  <2>1. new \in CustomerRow /\ new.exists /\ ~row[u].exists
    BY <1>1 DEF CustomerRow, Rows
  <2>2. row' = [row EXCEPT ![u] = new]
    BY <1>4
  <2> HIDE DEF new
  <2>3. row' \in [Customer -> CustomerRow]
    BY <2>1, <2>2 DEF RegistrationInv, RegistrationTyped
  <2>4. \A v \in Customer : /\ row'[v].online => row'[v].exists
                            /\ row[v].exists => /\ row'[v].exists
                                                /\ row'[v].online => row[v].online
    BY <2>1, <2>2 DEF RegistrationInv, RegistrationTyped, ConvertFacts
  <2>5. CASE call[r].why = "register"
    BY <1>1, <1>2, <1>4, <2>3, <2>4, <2>5, ActStep
  <2>6. CASE call[r].why # "register"
    BY <1>1, <1>2, <1>4, <2>3, <2>4, <2>6, RestingCall, GoOnStep DEF Answer
  <2> QED
    BY <2>5, <2>6
<1> QED
  BY <1>3, <1>4 DEF Insert

LEMMA MarkCodeStep ==
  ASSUME RegistrationInv, NEW r \in Clerk, MarkCode(r) \/ (Vanish(r) /\ In(r, "mark"))
  PROVE  RegistrationInv'
<1> DEFINE n == call[r].code
<1>1. call[r] \in CodeCall /\ Carries(r, n) /\ n \in CodeNumber /\ In(r, "mark")
  BY CallKinds DEF MarkCode, In, RegistrationInv, RegistrationTyped, CodeCall, LastCall, Carries
<1>2. UNCHANGED <<row, issued, applied, taken>> /\ call' = [call EXCEPT ![r] = Resting]
  BY DEF MarkCode, Vanish, Answer, histories
<1>3. \/ code' = [code EXCEPT ![n].state = "used"] /\ UNCHANGED overlap
      \/ overlap' = overlap \cup {n} /\ UNCHANGED code
  BY DEF MarkCode, Vanish, histories
<1>4. code[n] \in CodeRow
  BY <1>1 DEF RegistrationInv, RegistrationTyped, CodeFacts, NotIssued
<1>5. RegistrationTyped'
  <2>1. CASE UNCHANGED code
    BY <1>2, <2>1, RestingCall, CallTyped DEF RegistrationInv, RegistrationTyped
  <2>2. CASE code' = [code EXCEPT ![n].state = "used"]
    <3>1. code'[n] \in CodeRow /\ code'[n].state # "none" /\ code[n].state # "none"
      BY <1>1, <1>4, <2>2 DEF CodeRow, RegistrationInv, RegistrationTyped
    <3>2. \A m \in CodeNumber : m # n => code'[m] = code[m]
      BY <2>2 DEF RegistrationInv, RegistrationTyped
    <3>3. code' \in [CodeNumber -> {NotIssued} \cup CodeRow]
      BY <2>2, <3>1, <3>2 DEF RegistrationInv, RegistrationTyped
    <3>4. \A m \in CodeNumber : code'[m].state = "none" <=> m > issued
      BY <3>1, <3>2 DEF RegistrationInv, RegistrationTyped
    <3> QED
      BY <1>2, <3>3, <3>4, RestingCall, CallTyped DEF RegistrationInv, RegistrationTyped
  <2> QED
    BY <1>3, <2>1, <2>2
<1>6. CodeFacts' /\ CodeWorksOnce'
  BY <1>1, <1>2, <1>3, <1>5, MarkStep
<1>7. ConvertFacts'
  BY <1>2, <1>5, RestingCall, RowStep DEF RegistrationInv, ConvertFacts
<1> QED
  BY <1>5, <1>6, <1>7 DEF RegistrationInv

LEMMA PasswordStep ==
  ASSUME RegistrationInv, NEW r \in Clerk, WritePassword(r)
  PROVE  RegistrationInv'
<1>1. call[r] \in CodeCall /\ ~In(r, "mark")
  BY CallKinds DEF WritePassword, In, RegistrationInv, RegistrationTyped, CodeCall
<1> QED
  BY <1>1, SameRows, ActStep DEF WritePassword

LEMMA WriteRowStep ==
  ASSUME RegistrationInv, NEW r \in Clerk, WritePhone(r) \/ WriteCustomer(r)
  PROVE  RegistrationInv'
<1> DEFINE u == call[r].row
           p == IF call[r].phone = NoPhone THEN row[u].phone ELSE call[r].phone
<1>1. /\ ~In(r, "mark") /\ u \in Customer /\ call[r].phone \in AnyPhone
      /\ WriteCustomer(r) => call[r].email \in AnyEmail
  BY CallKinds DEF WritePhone, WriteCustomer, In, RegistrationInv, RegistrationTyped
<1>2. UNCHANGED <<code, issued, applied, overlap, taken>>
  BY DEF WritePhone, WriteCustomer
<1>3. CASE UNCHANGED row
  BY <1>1, <1>2, <1>3, StopStep DEF WritePhone, WriteCustomer, Deny
<1>4. CASE ~(UNCHANGED row)
  <2>1. Answer(r)
    BY <1>4 DEF WritePhone, WriteCustomer, Deny
  <2>2. row[u] \in CustomerRow /\ row \in [Customer -> CustomerRow]
    BY <1>1 DEF RegistrationInv, RegistrationTyped
  <2>3. p \in AnyPhone
    BY <1>1, <2>2 DEF CustomerRow
  <2>4. CASE WritePhone(r)
    <3>1. row' = [row EXCEPT ![u].phone = call[r].phone]
      BY <1>4, <2>4 DEF WritePhone
    <3>2. /\ row' \in [Customer -> CustomerRow]
          /\ \A v \in Customer : /\ row'[v].exists <=> row[v].exists
                                 /\ row'[v].online <=> row[v].online
      BY <1>1, <2>2, <3>1 DEF CustomerRow
    <3> QED
      BY <1>1, <1>2, <2>1, <3>2, RestingCall, GoOnStep DEF Answer, RegistrationInv, ConvertFacts
  <2>5. CASE WriteCustomer(r)
    <3>1. row' = [row EXCEPT ![u].email = call[r].email, ![u].phone = p]
      BY <1>4, <2>5 DEF WriteCustomer
    <3> HIDE DEF p
    <3>2. /\ row' \in [Customer -> CustomerRow]
          /\ \A v \in Customer : /\ row'[v].exists <=> row[v].exists
                                 /\ row'[v].online <=> row[v].online
      BY <1>1, <2>2, <2>3, <2>5, <3>1 DEF CustomerRow
    <3> QED
      BY <1>1, <1>2, <2>1, <3>2, RestingCall, GoOnStep DEF Answer, RegistrationInv, ConvertFacts
  <2> QED
    BY <2>4, <2>5
<1> QED
  BY <1>3, <1>4

LEMMA NextRegistration ==
  RegistrationInv /\ [RegistrationNext]_registrationVars => RegistrationInv'
<1> SUFFICES ASSUME RegistrationInv, [RegistrationNext]_registrationVars PROVE RegistrationInv'
  OBVIOUS
<1>1. CASE UNCHANGED registrationVars
  BY <1>1 DEF registrationVars, RegistrationInv, RegistrationTyped, CodeFacts, CodeWorksOnce,
       ConvertFacts, Carries, In
<1>2. ASSUME NEW r \in Clerk, RequestStep(r) PROVE RegistrationInv'
  <2>1. CASE Vanish(r) /\ ~In(r, "mark")
    BY <2>1, StopStep DEF Vanish
  <2> QED
    BY <1>2, <2>1, RetireStep, IssueStep, FindByPhoneStep, FindByEmailStep, ConvertStep,
       InsertStep, MarkCodeStep, PasswordStep, WriteRowStep DEF RequestStep
<1>3. CASE \/ \E r \in Clerk, e \in Email, p \in Phone : RequestRegisterOtp(r, e, p)
           \/ \E r \in Clerk, e \in Email : RequestForgotPasswordOtp(r, e)
  BY <1>3, RequestOtpStep
<1>4. CASE \E r \in Clerk, n \in CodeNumber : VerifyRegisterOtp(r, n) \/ ResetPassword(r, n)
  BY <1>4, FindCodeStep
<1>5. CASE \E r \in Clerk :
             \/ \E e \in Email, p \in Phone : CreateAdmin(r, e, p)
             \/ \E e \in Email, p \in AnyPhone : LoginWithGoogle(r, e, p)
             \/ \E e \in AnyEmail, p \in Phone : RegisterOffline(r, e, p)
             \/ \E u \in Customer, p \in Phone : ChangePhone(r, u, p)
             \/ \E u \in Customer, e \in AnyEmail, p \in Phone : UpdateCustomer(r, u, e, p)
  BY <1>5, OtherAccountStep
<1> QED
  BY <1>1, <1>2, <1>3, <1>4, <1>5 DEF RegistrationNext, AnyEmail, AnyPhone

\* A one-time code is acted on twice only if two requests held it at once or
\* the process died before marking it: it is marked as used only after what it
\* is for (verifyRegisterOtp, resetPassword).
THEOREM CodesWorkOnce == RegistrationSpec => []CodeWorksOnce
<1>1. RegistrationInv => CodeWorksOnce
  BY DEF RegistrationInv
<1> QED
  BY InitRegistration, NextRegistration, <1>1, PTL DEF RegistrationSpec

LEMMA EmailStep ==
  ASSUME RegistrationInv, [RegistrationNext]_registrationVars, NEW u \in Customer,
         row[u].online, u \notin taken
  PROVE  \/ row'[u].email = row[u].email
         \/ \E r \in Clerk : In(r, "edit") /\ call[r].row = u
<1> SUFFICES ASSUME row' # row
    PROVE \/ row'[u].email = row[u].email
          \/ \E r \in Clerk : In(r, "edit") /\ call[r].row = u
  OBVIOUS
<1>1. PICK r \in Clerk : Convert(r) \/ Insert(r) \/ WritePhone(r) \/ WriteCustomer(r)
  BY DEF RegistrationNext, RequestStep, registrationVars, RetireCodes, IssueCode, FindByPhone,
       FindByEmail, MarkCode, WritePassword, Vanish, RequestRegisterOtp, CreateAdmin,
       LoginWithGoogle, RegisterOffline, RequestForgotPasswordOtp, VerifyRegisterOtp,
       ResetPassword, ChangePhone, UpdateCustomer
<1>2. row \in [Customer -> CustomerRow] /\ row[u].exists
  BY DEF RegistrationInv, RegistrationTyped, ConvertFacts
<1>3. CASE Convert(r)
  <2>1. call[r].row # u
    BY <1>3 DEF Convert, RegistrationInv, ConvertFacts
  <2> QED
    BY <1>2, <1>3, <2>1 DEF Convert
<1>4. CASE Insert(r)
  BY <1>2, <1>4 DEF Insert, Rows
<1>5. CASE WritePhone(r)
  BY <1>2, <1>5 DEF WritePhone, CustomerRow
<1>6. CASE WriteCustomer(r)
  BY <1>2, <1>6 DEF WriteCustomer
<1> QED
  BY <1>1, <1>3, <1>4, <1>5, <1>6

\* Nobody takes over the account of an online customer by registering her number
\* with another email, unless two registrations had found her offline: only the
\* staff change an email (createCustomer, findByPhone, customers.update).
THEOREM AccountsKeepEmail == RegistrationSpec => AccountKeepsEmail
<1>1. RegistrationInv /\ [RegistrationNext]_registrationVars
        => [\A u \in Customer :
              \/ ~row[u].online \/ u \in taken \/ row'[u].email = row[u].email
              \/ \E r \in Clerk : In(r, "edit") /\ call[r].row = u]_registrationVars
  BY EmailStep
<1> QED
  BY InitRegistration, NextRegistration, <1>1, PTL DEF RegistrationSpec, AccountKeepsEmail

----------------------------------------------------------------------------
(* The three parts together *)

AccountVars == <<roleVars, sessionVars, registrationVars, part>>

\* Each part of the composition behaves as it does alone.
THEOREM PartsStandAlone == Spec => RolesSpec /\ SessionsSpec /\ RegistrationSpec
<1>1. Init => RolesInit /\ SessionsInit /\ RegistrationInit
  BY DEF Init
<1>2. [Next]_AccountVars
        => [RolesNext]_roleVars /\ [SessionsNext]_sessionVars /\ [RegistrationNext]_registrationVars
  BY DEF Next, AccountVars
<1> QED
  BY <1>1, <1>2, PTL DEF Spec, RolesSpec, SessionsSpec, RegistrationSpec, AccountVars

LEMMA InitRolesType == RolesInit => RolesTypeOK
<1> SUFFICES ASSUME RolesInit PROVE RolesTypeOK
  OBVIOUS
<1>1. users \in [User -> Row]
  BY DEF RolesInit, Row, NoRow, UserRole
<1>2. (\A w \in Worker : job[w].kind = "idle") /\ tx \in [Worker -> Tx]
  BY DEF RolesInit, Idle, Tx, NoTx
<1> QED
  BY <1>1, <1>2 DEF RolesInit, RolesTypeOK

\* What RolesInv leaves out: the links, and who they let in.
LEMMA NextRolesType ==
  RolesInv /\ RolesInv' /\ RolesTypeOK /\ [RolesNext]_roleVars => RolesTypeOK'
<1> SUFFICES ASSUME RolesInv, RolesInv', RolesTypeOK, [RolesNext]_roleVars PROVE RolesTypeOK'
  OBVIOUS
<1>1. \A w \in Worker : job'[w].kind = "idle" \/ job'[w].chat \in Chat \cup {NoChat}
  BY DEF RolesInv, RolesTyped, Job, Idle, ReadingJob, LinkJob, RowJob, RemoveJob, RoleJob
<1>2. SUFFICES /\ preApproved' \subseteq Chat /\ pendingSeller' \subseteq Chat
               /\ links' \in [AllLinks -> Chat \cup {NoChat, "none"}]
               /\ accepted' \in [AllLinks -> SUBSET Chat]
  BY <1>1 DEF RolesTypeOK, RolesInv, RolesTyped
<1> USE DEF RolesTypeOK
<1>3. CASE UNCHANGED <<preApproved, pendingSeller, links, accepted>>
  BY <1>3
<1>4. ASSUME NEW w \in Worker, SellerRead(w) \/ CourierRead(w)
      PROVE  /\ preApproved' \subseteq Chat /\ pendingSeller' \subseteq Chat
             /\ links' \in [AllLinks -> Chat \cup {NoChat, "none"}]
             /\ accepted' \in [AllLinks -> SUBSET Chat]
  <2> DEFINE c == job[w].chat
             t == job[w].link
  <2>1. c \in Chat /\ t \in AllLinks
    BY <1>4, ReaderTyped DEF RolesInv, RolesTyped, SellerRead, CourierRead, LinkJob
  <2>2. /\ preApproved' = preApproved
        /\ pendingSeller' \in {pendingSeller, pendingSeller \cup {c}}
        /\ links' \in {links, [links EXCEPT ![t] = c]}
        /\ accepted' \in {accepted, [accepted EXCEPT ![t] = @ \cup {c}]}
    BY <1>4 DEF SellerRead, CourierRead, MarkUsed, Accept
  <2> QED
    BY <2>1, <2>2
<1>5. ASSUME NEW w \in Worker, Write(w) \/ AdminRead(w) \/ ApproveRead(w) \/ Message(w)
      PROVE  /\ preApproved' \subseteq Chat /\ pendingSeller' \subseteq Chat
             /\ UNCHANGED <<links, accepted>>
  <2>1. CASE Write(w)
    BY <2>1 DEF Write
  <2>2. CASE AdminRead(w)
    BY <2>2 DEF AdminRead
  <2>3. CASE ApproveRead(w)
    <3>1. job[w].chat \in Chat
      BY <2>3, ReaderTyped DEF RolesInv, RolesTyped, ApproveRead, ReadingJob
    <3> QED
      BY <2>3, <3>1 DEF ApproveRead, history
  <2>4. CASE Message(w)
    BY <2>4 DEF Message, AdminJoin, Start, OpenLink, UserJoin, Contact, Approve, AddAdmin,
         AddSeller, UpdateRole, Remove, GetProfile, memory, history
  <2> QED
    BY <1>5, <2>1, <2>2, <2>3, <2>4
<1>6. CASE \E t \in AllLinks : PurgeLink(t) \/ \E a \in Chat : CreateLink(a, t)
  BY <1>6 DEF PurgeLink, CreateLink, history
<1>7. CASE \/ \E a, c \in Chat : Reject(a, c)
           \/ \E u \in User : Register(u)
           \/ \E w \in Worker : TakeChat(w) \/ TakeName(w) \/ Deadlock(w)
           \/ UNCHANGED roleVars
  BY <1>3, <1>7 DEF Reject, Register, TakeChat, TakeName, Deadlock, memory, history, roleVars
<1>8. CASE Restart
  BY <1>8 DEF Restart, history
<1> QED
  BY <1>4, <1>5, <1>6, <1>7, <1>8 DEF RolesNext, HandlerStep, AllLinks

LEMMA RolesTypes == RolesSpec => []RolesTypeOK
BY InitRoles, NextRoles, InitRolesType, NextRolesType, PTL DEF RolesSpec

\* Everything accounts are made of has its type, whatever interleaves.
THEOREM AccountsTyped == Spec => []AccountsTypeOK
<1>1. SessionInv => SessionsTypeOK
  BY DEF SessionInv, Typed, SessionsTypeOK, SessionRow, SignJob, TokenJob
<1>2. RegistrationInv => RegistrationTypeOK
  <2> SUFFICES ASSUME RegistrationInv PROVE RegistrationTypeOK
    OBVIOUS
  <2>1. \A n \in CodeNumber : code[n].state \in IF n <= issued THEN {"open", "used"} ELSE {"none"}
    BY DEF RegistrationInv, RegistrationTyped, CodeNumber, CodeRow, NotIssued
  <2> QED
    BY <2>1 DEF RegistrationInv, RegistrationTyped, RegistrationTypeOK, CustomerRow, AnyEmail,
         AnyPhone
<1>3. SessionsSpec => []SessionsTypeOK
  BY InitSession, NextSession, <1>1, PTL DEF SessionsSpec
<1>4. RegistrationSpec => []RegistrationTypeOK
  BY InitRegistration, NextRegistration, <1>2, PTL DEF RegistrationSpec
<1>5. RolesTypeOK /\ SessionsTypeOK /\ RegistrationTypeOK => AccountsTypeOK
  BY DEF AccountsTypeOK
<1> QED
  BY PartsStandAlone, RolesTypes, <1>3, <1>4, <1>5, PTL
=============================================================================
