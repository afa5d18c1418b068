------------------------------ MODULE Sessions ------------------------------
(***************************************************************************)
(* Refresh tokens (auth.service.ts): a login starts a session of a new     *)
(* device, a refresh exchanges the device's token for the next one, and    *)
(* presenting a token that was exchanged before ends every session of its  *)
(* user.  Requests run at the same time; each statement is one step.       *)
(*                                                                         *)
(* A token that has expired is refused by its signature and changes        *)
(* nothing, so expiry is not modelled.                                     *)
(***************************************************************************)
EXTENDS Naturals, FiniteSets

CONSTANTS Account, \* users
          Device,  \* device ids the logins draw
          Token,   \* refresh tokens (jti)
          Request  \* requests that can run at the same time

VARIABLES token,   \* the table: state, user and device of every token
          request, \* what each request is in the middle of
          ended,   \* history: devices whose session was revoked
          late,    \* history: devices with a refresh under way when it was
          rotated, \* history: exchanges of each token
          raced    \* history: tokens two refreshes held at the same time

sessionVars == <<token, request, ended, late, rotated, raced>>

Waiting == [kind |-> "none"]
Unused == [state |-> "none"]

SessionsInit ==
  /\ token = [t \in Token |-> Unused]
  /\ request = [r \in Request |-> Waiting]
  /\ ended = {} /\ late = {} /\ raced = {}
  /\ rotated = [t \in Token |-> 0]

Stored == {t \in Token : token[t].state # "none"}
Live == {t \in Token : token[t].state = "live"}
SetState(ts, s) ==
  token' = [t \in Token |-> IF t \in ts THEN [token[t] EXCEPT !.state = s] ELSE token[t]]

Open(r, job) == request[r] = Waiting /\ request' = [request EXCEPT ![r] = job]
Then(r, job) == request' = [request EXCEPT ![r] = job]
Close(r) == request' = [request EXCEPT ![r] = Waiting]

\* The devices a refresh that has not answered yet works for.
Refreshing == {d \in Device :
  \E r \in Request : request[r].kind \in {"exchange", "sign"} /\ request[r].device = d}

----------------------------------------------------------------------------
\* login, verifyRegisterOtp, loginWithGoogle: the credentials were right, and
\* the tokens of a device never seen before are to be written.
Login(r, u) ==
  /\ \E d \in Device :
       /\ d \notin ended \cup Refreshing
       /\ \A t \in Stored : token[t].device # d
       /\ Open(r, [kind |-> "sign", user |-> u, device |-> d])
  /\ UNCHANGED <<token, ended, late, rotated, raced>>

\* signRefreshToken
SignRefreshToken(r) ==
  /\ request[r].kind = "sign"
  /\ \E t \in Token :
       /\ t \notin Stored
       /\ token' = [token EXCEPT ![t] =
            [state |-> "live", user |-> request[r].user, device |-> request[r].device]]
  /\ Close(r)
  /\ UNCHANGED <<ended, late, rotated, raced>>

\* Fault: the stored token is found, and nobody looks whether it was revoked.
AnyStored(t) == t \in Stored

\* The token a refresh may exchange.
Exchangeable(t) == token[t].state = "live"

\* refreshAccessToken: the stored token is read.
RefreshAccessToken(r, t) ==
  /\ t \in Stored
  /\ Open(r, [kind |-> IF Exchangeable(t) THEN "exchange" ELSE "reuse",
             token |-> t, user |-> token[t].user, device |-> token[t].device])
  /\ raced' = IF \E q \in Request : request[q].kind = "exchange" /\ request[q].token = t
              THEN raced \cup {t} ELSE raced
  /\ UNCHANGED <<token, ended, late, rotated>>

\* The old token is revoked, whoever has revoked it meanwhile.
RevokeOld(r) ==
  LET t == request[r].token IN
  /\ request[r].kind = "exchange"
  /\ SetState({t}, "revoked")
  /\ rotated' = [rotated EXCEPT ![t] = @ + 1]
  /\ Then(r, [kind |-> "sign", user |-> request[r].user, device |-> request[r].device])
  /\ UNCHANGED <<ended, late, raced>>

\* The history of a revocation: the sessions that end, and those among them a
\* refresh is about to continue.
Ends(ds) == ended' = ended \cup ds /\ late' = late \cup (ds \cap Refreshing)

DevicesOf(u) ==
  {token[t].device : t \in {x \in Stored : token[x].user = u}}
    \cup {d \in Refreshing : \E r \in Request :
            request[r].kind # "none" /\ request[r].user = u /\ request[r].device = d}

\* Fault: only the newest session of the user is found.
RevokeOneSession(r) ==
  /\ request[r].kind = "reuse"
  /\ \E t \in Token : SetState({t} \cap Live, "revoked")
  /\ Ends(DevicesOf(request[r].user))
  /\ Close(r)
  /\ UNCHANGED <<rotated, raced>>

\* revokeAllSessions, for a token presented again and for a logout everywhere.
RevokeAllSessions(r) ==
  /\ request[r].kind = "reuse"
  /\ SetState({t \in Live : token[t].user = request[r].user}, "revoked")
  /\ Ends(DevicesOf(request[r].user))
  /\ Close(r)
  /\ UNCHANGED <<rotated, raced>>

\* logout decodes the token without looking it up.
Logout(t) ==
  /\ t \in Stored
  /\ SetState({x \in Live : token[x].user = token[t].user
                          /\ token[x].device = token[t].device}, "revoked")
  /\ Ends({token[t].device})
  /\ UNCHANGED <<request, rotated, raced>>

LogoutEverywhere(r, t) ==
  /\ t \in Stored
  /\ Open(r, [kind |-> "reuse", token |-> t, user |-> token[t].user,
             device |-> token[t].device])
  /\ UNCHANGED <<token, ended, late, rotated, raced>>

\* The process dies after the old token was revoked.
Die(r) ==
  /\ request[r].kind = "sign"
  /\ Close(r)
  /\ UNCHANGED <<token, ended, late, rotated, raced>>

SessionsNext ==
  \/ \E r \in Request, u \in Account : Login(r, u)
  \/ \E r \in Request, t \in Token : RefreshAccessToken(r, t) \/ LogoutEverywhere(r, t)
  \/ \E r \in Request :
       SignRefreshToken(r) \/ RevokeOld(r) \/ RevokeAllSessions(r) \/ Die(r)
  \/ \E t \in Token : Logout(t)

SessionsSpec == SessionsInit /\ [][SessionsNext]_sessionVars
----------------------------------------------------------------------------
SessionsTypeOK ==
  /\ \A t \in Token :
       \/ token[t] = Unused
       \/ token[t] \in [state : {"live", "revoked"}, user : Account, device : Device]
  /\ \A r \in Request :
       \/ request[r] = Waiting
       \/ request[r].kind \in {"sign", "exchange", "reuse"}
          /\ request[r].user \in Account /\ request[r].device \in Device
  /\ ended \subseteq Device /\ late \subseteq Device
  /\ rotated \in [Token -> Nat] /\ raced \subseteq Token

\* A token is exchanged a second time only by a refresh that had read it before
\* the first exchange: afterwards it is taken for a reuse.
RotatedOnceUnlessRaced == \A t \in Token : rotated[t] > 1 => t \in raced

\* A session ended by a logout, by a logout everywhere or by a reuse has no
\* valid token again, except from a refresh that was under way at that moment.
EndedStaysEnded ==
  \A t \in Live : token[t].device \in ended => token[t].device \in late
=============================================================================
