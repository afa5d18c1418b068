---------------------------- MODULE Registration ----------------------------
(***************************************************************************)
(* How accounts come into being (auth.service.ts, users.service.ts,        *)
(* customers.service.ts): the one-time codes of registration and of a      *)
(* forgotten password, the accounts Google vouches for, the customers a    *)
(* shop assistant writes down, and the change of a telephone number.       *)
(*                                                                         *)
(* Requests run at the same time; each statement of one is a step.  Codes  *)
(* are numbered in the order they are issued, and two codes are never      *)
(* equal by accident.  A code that is ten minutes old is refused and       *)
(* changes nothing, so expiry is not modelled.                             *)
(***************************************************************************)
EXTENDS Naturals, FiniteSets, Functions, FiniteSetsExt

CONSTANTS Customer, \* rows the users table may hold
          Email, Phone, Clerk,
          NoEmail,
          NoPhone,   \* the empty text a Google account has for a number
          Digits,    \* the nine digits of each way to write a number
          MaxCodes,  \* bound: codes issued
          WayGroups  \* the groups of operations explored, one at a time

ASSUME RegistrationAssumption ==
  /\ NoEmail \notin Email /\ NoPhone \notin Phone
  /\ DOMAIN Digits = Phone /\ MaxCodes \in Nat

VARIABLES row,      \* the users table: email, phone, ONLINE or not
          code,     \* otp_codes
          issued,   \* codes issued so far
          call,     \* what each request is in the middle of
          applied,  \* history: times each code was acted on, up to 2
          overlap,  \* history: codes held by two requests, or by one that died
          taken,    \* history: offline rows two registrations had found
          denied,   \* history: statements stopped by a unique key
          ways      \* the operations in use, one group of WayGroups

registrationVars == <<row, code, issued, call, applied, overlap, taken,
                      denied, ways>>
histories == <<applied, overlap, taken, denied>>

Absent == [email |-> NoEmail, phone |-> NoPhone, exists |-> FALSE, online |-> FALSE]
NotIssued == [state |-> "none"]
CodeNumber == 1 .. MaxCodes
Resting == [kind |-> "none"]

RegistrationInit ==
  /\ row = [u \in Customer |-> Absent]
  /\ code = [n \in CodeNumber |-> NotIssued] /\ issued = 0
  /\ call = [r \in Clerk |-> Resting]
  /\ applied = [n \in CodeNumber |-> 0]
  /\ overlap = {} /\ taken = {} /\ denied = {}
  /\ ways \in WayGroups

Rows == {u \in Customer : row[u].exists}
WithEmail(e) == {u \in Rows : row[u].email = e}

\* findByPhone compares the last nine digits, the unique key the whole text.
WithDigits(p) == {u \in Rows : row[u].phone \in Phone /\ Digits[row[u].phone] = Digits[p]}
WithPhone(p) == {u \in Rows : row[u].phone = p}

\* email and phone are unique keys; a row may be without an email.
KeysFree(u, e, p) ==
  /\ e = NoEmail \/ WithEmail(e) \subseteq {u}
  /\ WithPhone(p) \subseteq {u}

Ask(r, j) == call[r] = Resting /\ call' = [call EXCEPT ![r] = j]
Proceed(r, j) == call' = [call EXCEPT ![r] = j]
Answer(r) == call' = [call EXCEPT ![r] = Resting]
In(r, k) == call[r].kind = k

----------------------------------------------------------------------------
(* One-time codes *)

\* Fault: a code that has been used is found again.
AnyCode(e, p) == {n \in CodeNumber : code[n].state # "none" /\ code[n].email = e /\ code[n].purpose = p}

\* The codes of an email that are not used; the newest is the one that counts.
OpenCodes(e, p) ==
  {n \in CodeNumber : code[n].state = "open" /\ code[n].email = e
                      /\ code[n].purpose = p}

\* requestRegisterOtp: no account has the email, none online has the number.
RequestRegisterOtp(r, e, p) ==
  /\ issued < MaxCodes
  /\ WithEmail(e) = {} /\ \A u \in WithDigits(p) : ~row[u].online
  /\ Ask(r, [kind |-> "retire", email |-> e, phone |-> p, purpose |-> "REGISTER"])
  /\ UNCHANGED <<row, code, issued, applied, overlap, taken, denied>>

\* requestForgotPasswordOtp
RequestForgotPasswordOtp(r, e) ==
  /\ issued < MaxCodes
  /\ WithEmail(e) # {}
  /\ Ask(r, [kind |-> "retire", email |-> e, phone |-> NoPhone,
            purpose |-> "FORGOT_PASSWORD"])
  /\ UNCHANGED <<row, code, issued, applied, overlap, taken, denied>>

\* The unused codes of the email are marked as used ...
RetireCodes(r) ==
  /\ In(r, "retire")
  /\ code' = [n \in CodeNumber |->
       IF n \in OpenCodes(call[r].email, call[r].purpose)
       THEN [code[n] EXCEPT !.state = "used"] ELSE code[n]]
  /\ Proceed(r, [call[r] EXCEPT !.kind = "issue"])
  /\ UNCHANGED <<row, issued, histories>>

\* ... and the new one is stored and mailed.
IssueCode(r) ==
  /\ In(r, "issue") /\ issued < MaxCodes
  /\ issued' = issued + 1
  /\ code' = [code EXCEPT ![issued + 1] =
       [state |-> "open", email |-> call[r].email, phone |-> call[r].phone,
        purpose |-> call[r].purpose]]
  /\ Answer(r)
  /\ UNCHANGED <<row, histories>>

\* The newest code of the email is the one that was typed.
Accepts(e, p, n) == n \in OpenCodes(e, p) /\ n = Max(OpenCodes(e, p))

Holding(n) == \E q \in Clerk : call[q].kind # "none" /\ "code" \in DOMAIN call[q] /\ call[q].code = n
Hold(n) == overlap' = IF Holding(n) THEN overlap \cup {n} ELSE overlap

\* verifyRegisterOtp, up to createCustomer
VerifyRegisterOtp(r, n) ==
  /\ code[n].state # "none" /\ Accepts(code[n].email, "REGISTER", n)
  /\ Ask(r, [kind |-> "byPhone", email |-> code[n].email, phone |-> code[n].phone,
            code |-> n])
  /\ Hold(n)
  /\ UNCHANGED <<row, code, issued, applied, taken, denied>>

\* createCustomer: the number of an offline customer becomes an account.
FindByPhone(r) ==
  /\ In(r, "byPhone")
  /\ LET found == WithDigits(call[r].phone) IN
     \/ /\ found = {} /\ Proceed(r, [call[r] EXCEPT !.kind = "byEmail"])
        /\ UNCHANGED taken
     \/ \E u \in found :
          /\ row[u].online /\ Answer(r) /\ UNCHANGED taken
     \/ \E u \in found :
          /\ ~row[u].online
          /\ Proceed(r, [kind |-> "convert", row |-> u, email |-> call[r].email,
                       phone |-> call[r].phone, code |-> call[r].code])
          /\ taken' = IF \E q \in Clerk : In(q, "convert") /\ call[q].row = u
                      THEN taken \cup {u} ELSE taken
  /\ UNCHANGED <<row, code, issued, applied, overlap, denied>>

FindByEmail(r) ==
  /\ In(r, "byEmail")
  /\ IF WithEmail(call[r].email) = {}
     THEN Proceed(r, [kind |-> "insert", email |-> call[r].email, phone |-> call[r].phone,
                    online |-> TRUE, why |-> "register", code |-> call[r].code])
     ELSE Answer(r)
  /\ UNCHANGED <<row, code, issued, histories>>

Apply(n) == applied' = [applied EXCEPT ![n] = IF @ = 2 THEN 2 ELSE @ + 1]
MarkNext(r) == Proceed(r, [kind |-> "mark", code |-> call[r].code])
Deny(r, why) == denied' = denied \cup {why} /\ Answer(r)

\* Fault: the account of whoever has the number is overwritten.
ConvertAnyone(r) ==
  /\ In(r, "convert")
  /\ \E u \in Rows : row' = [row EXCEPT ![u].email = call[r].email, ![u].online = TRUE]
  /\ Apply(call[r].code) /\ MarkNext(r)
  /\ UNCHANGED <<code, issued, overlap, taken, denied>>

Convert(r) ==
  LET u == call[r].row IN
  /\ In(r, "convert")
  /\ IF WithEmail(call[r].email) \subseteq {u}
     THEN /\ row' = [row EXCEPT ![u].email = call[r].email, ![u].online = TRUE]
          /\ Apply(call[r].code) /\ MarkNext(r) /\ UNCHANGED denied
     ELSE Deny(r, "convert") /\ UNCHANGED <<row, applied>>
  /\ UNCHANGED <<code, issued, overlap, taken>>

\* Every other account is the insertion of a row.
Insert(r) ==
  /\ In(r, "insert")
  /\ IF \E u \in Customer \ Rows : KeysFree(u, call[r].email, call[r].phone)
     THEN \E u \in Customer \ Rows :
          /\ row' = [row EXCEPT ![u] = [email |-> call[r].email, phone |-> call[r].phone,
                                        exists |-> TRUE, online |-> call[r].online]]
          /\ IF call[r].why = "register"
             THEN Apply(call[r].code) /\ MarkNext(r)
             ELSE Answer(r) /\ UNCHANGED applied
          /\ UNCHANGED denied
     ELSE /\ Rows # Customer   \* the table itself has no bound
          /\ Deny(r, call[r].why) /\ UNCHANGED <<row, applied>>
  /\ UNCHANGED <<code, issued, overlap, taken>>

\* The code is marked as used after what it was for.
MarkCode(r) ==
  /\ In(r, "mark")
  /\ code' = [code EXCEPT ![call[r].code].state = "used"]
  /\ Answer(r)
  /\ UNCHANGED <<row, issued, histories>>

\* resetPassword: the code and the account are read, the password is written.
ResetPassword(r, n) ==
  /\ code[n].state # "none" /\ Accepts(code[n].email, "FORGOT_PASSWORD", n)
  /\ WithEmail(code[n].email) # {}
  /\ Ask(r, [kind |-> "password", code |-> n])
  /\ Hold(n)
  /\ UNCHANGED <<row, code, issued, applied, taken, denied>>

WritePassword(r) ==
  /\ In(r, "password")
  /\ Apply(call[r].code) /\ MarkNext(r)
  /\ UNCHANGED <<row, code, issued, overlap, taken, denied>>

----------------------------------------------------------------------------
(* The other ways to an account *)

\* loginWithGoogle, findOrCreateGoogleUser: an unknown email is given a row,
\* with an empty number unless Google tells one; a known one may be given the
\* number it lacks.
LoginWithGoogle(r, e, p) ==
  /\ \/ /\ WithEmail(e) = {}
        /\ Ask(r, [kind |-> "insert", email |-> e, phone |-> p, online |-> TRUE,
                  why |-> "google"])
     \/ \E u \in WithEmail(e) :
          /\ row[u].phone = NoPhone /\ p # NoPhone
          /\ Ask(r, [kind |-> "phone", row |-> u, phone |-> p])
  /\ UNCHANGED <<row, code, issued, histories>>

\* customers.register: the number, as it is written, is new.
RegisterOffline(r, e, p) ==
  /\ WithPhone(p) = {}
  /\ Ask(r, [kind |-> "insert", email |-> e, phone |-> p, online |-> FALSE,
            why |-> "offline"])
  /\ UNCHANGED <<row, code, issued, histories>>

\* createAdmin
CreateAdmin(r, e, p) ==
  /\ WithEmail(e) = {}
  /\ Ask(r, [kind |-> "insert", email |-> e, phone |-> p, online |-> TRUE,
            why |-> "admin"])
  /\ UNCHANGED <<row, code, issued, histories>>

\* updateProfile: the email stays.
ChangePhone(r, u, p) ==
  /\ u \in Rows /\ WithPhone(p) \subseteq {u}
  /\ Ask(r, [kind |-> "phone", row |-> u, phone |-> p])
  /\ UNCHANGED <<row, code, issued, histories>>

WritePhone(r) ==
  /\ In(r, "phone")
  /\ IF WithPhone(call[r].phone) \subseteq {call[r].row}
     THEN row' = [row EXCEPT ![call[r].row].phone = call[r].phone]
          /\ Answer(r) /\ UNCHANGED denied
     ELSE Deny(r, "phone") /\ UNCHANGED row
  /\ UNCHANGED <<code, issued, applied, overlap, taken>>

\* customers.update, by the staff: the email is written as it is typed, and the
\* number if it is not the one that was read (NoPhone: it is).
UpdateCustomer(r, u, e, p) ==
  /\ u \in Rows /\ (p # row[u].phone => WithPhone(p) = {})
  /\ Ask(r, [kind |-> "edit", row |-> u, email |-> e,
             phone |-> IF p = row[u].phone THEN NoPhone ELSE p])
  /\ UNCHANGED <<row, code, issued, histories>>

WriteCustomer(r) ==
  LET u == call[r].row
      p == IF call[r].phone = NoPhone THEN row[u].phone ELSE call[r].phone
  IN
  /\ In(r, "edit")
  /\ IF KeysFree(u, call[r].email, p)
     THEN row' = [row EXCEPT ![u].email = call[r].email, ![u].phone = p]
          /\ Answer(r) /\ UNCHANGED denied
     ELSE Deny(r, "edit") /\ UNCHANGED row
  /\ UNCHANGED <<code, issued, applied, overlap, taken>>

\* The process dies between two writes of a request.
Vanish(r) ==
  /\ call[r].kind \in {"issue", "mark"}
  /\ Answer(r)
  /\ overlap' = IF In(r, "mark") THEN overlap \cup {call[r].code} ELSE overlap
  /\ UNCHANGED <<row, code, issued, applied, taken, denied>>

RequestStep(r) ==
  \/ RetireCodes(r) \/ IssueCode(r) \/ FindByPhone(r) \/ FindByEmail(r)
  \/ Convert(r) \/ Insert(r) \/ MarkCode(r) \/ WritePassword(r) \/ WritePhone(r)
  \/ WriteCustomer(r) \/ Vanish(r)

Offers(way) == way \in ways

RegistrationNext ==
  /\ \/ \E r \in Clerk : RequestStep(r)
     \/ \E r \in Clerk, e \in Email, p \in Phone :
          Offers("register") /\ RequestRegisterOtp(r, e, p)
     \/ \E r \in Clerk, e \in Email, p \in Phone : Offers("admin") /\ CreateAdmin(r, e, p)
     \/ \E r \in Clerk, e \in Email, p \in Phone \cup {NoPhone} :
          Offers("google") /\ LoginWithGoogle(r, e, p)
     \/ \E r \in Clerk, e \in Email \cup {NoEmail}, p \in Phone :
          Offers("offline") /\ RegisterOffline(r, e, p)
     \/ \E r \in Clerk, e \in Email : Offers("forgot") /\ RequestForgotPasswordOtp(r, e)
     \/ \E r \in Clerk, n \in CodeNumber : VerifyRegisterOtp(r, n) \/ ResetPassword(r, n)
     \/ \E r \in Clerk, u \in Customer, p \in Phone : Offers("phone") /\ ChangePhone(r, u, p)
     \/ \E r \in Clerk, u \in Customer, e \in Email \cup {NoEmail}, p \in Phone :
          Offers("edit") /\ UpdateCustomer(r, u, e, p)
  /\ UNCHANGED ways

RegistrationSpec == RegistrationInit /\ [][RegistrationNext]_registrationVars
----------------------------------------------------------------------------
RegistrationTypeOK ==
  /\ row \in [Customer -> [email : Email \cup {NoEmail}, phone : Phone \cup {NoPhone},
                      exists : BOOLEAN, online : BOOLEAN]]
  /\ \A n \in CodeNumber : code[n].state \in
       IF n <= issued THEN {"open", "used"} ELSE {"none"}
  /\ applied \in [CodeNumber -> 0 .. 2]

\* A one-time code is acted on a second time only by a request that had found
\* it before it was marked as used, or after the one that should have died.
CodeWorksOnce == \A n \in CodeNumber : applied[n] > 1 => n \in overlap

\* The account of an online customer is never taken over by the registration of
\* another email with the same number, unless both had found the offline
\* customer they became: only the staff change an email.
AccountKeepsEmail ==
  [][\A u \in Customer :
       \/ ~row[u].online \/ u \in taken \/ row'[u].email = row[u].email
       \/ \E r \in Clerk : In(r, "edit") /\ call[r].row = u]_registrationVars
=============================================================================
