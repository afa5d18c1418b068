----------------------------- MODULE MCAccounts -----------------------------
(* Small instances of Accounts: each part is explored in groups of          *)
(* operations that can interfere with each other.                           *)
EXTENDS Accounts, TLC

\* Every row has the same telephone number: the worst case of GetProfile.
SamePerson == [u \in User |-> 1]

\* Two ways to write one number.
SameDigits == [p \in Phone |-> 1]

Invitations == {"links", "userJoin"}
Starts == {"links", "start", "couriers"}
Approvals == {"admins", "start", "roles"}
Contacts == {"contact", "start", "remove"}
Phones == {"contact", "userJoin"}
RolePages == {"roles", "userJoin"}

Groups == {Invitations, Starts, Approvals, Contacts, Phones, RolePages}
\* A registered person is linked to the chat by the link of the profile.
WithProfileLink == {{"admins", "start", "userJoin"}}

Ways == {{"register", "offline"}, {"google", "forgot"}, {"admin", "phone", "google"},
         {"register", "edit"}}
NoWays == {{}}

\* Handlers, requests and clerks are the same values, and so are devices and
\* customers: only one of the parts is explored at a time.
Symmetry == Permutations(Worker) \cup Permutations(Customer) \cup Permutations(Email)
              \cup Permutations(Phone)
=============================================================================
