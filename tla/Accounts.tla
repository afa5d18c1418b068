------------------------------ MODULE Accounts ------------------------------
(***************************************************************************)
(* Who has an account, who is logged in and who is what.  The three parts  *)
(* write different columns and tables: only one of them moves in a run.    *)
(***************************************************************************)
EXTENDS BotRoles, Sessions, Registration

CONSTANT Parts       \* the parts explored

VARIABLE part

\* The parts that are not explored stay where they begin.
Init ==
  /\ RolesInit /\ SessionsInit /\ RegistrationInit
  /\ part \in Parts
  /\ part = "roles" \/ ops = CHOOSE g \in OpGroups : TRUE
  /\ part = "registration" \/ ways = CHOOSE g \in WayGroups : TRUE

Next ==
  /\ \/ /\ part = "roles" /\ RolesNext
        /\ UNCHANGED <<sessionVars, registrationVars>>
     \/ /\ part = "sessions" /\ SessionsNext
        /\ UNCHANGED <<roleVars, registrationVars>>
     \/ /\ part = "registration" /\ RegistrationNext
        /\ UNCHANGED <<roleVars, sessionVars>>
  /\ UNCHANGED part

Spec == Init /\ [][Next]_<<roleVars, sessionVars, registrationVars, part>>

AccountsTypeOK == RolesTypeOK /\ SessionsTypeOK /\ RegistrationTypeOK
=============================================================================
