------------------------------ MODULE Services ------------------------------
(***************************************************************************)
(* The services beside the shop: the bot's conversations, the days of      *)
(* delivery, the room previews and the life of the process.  They share no *)
(* variable: only one of them moves in a run, and `part' tells which.      *)
(***************************************************************************)
EXTENDS BotDialogue, Delivery, Previews, ProcessLife

VARIABLE part

Parts == {"dialogue", "delivery", "previews", "life"}

\* The parts that are not explored stay where they begin.
Init ==
  /\ part \in Parts
  /\ DialogueInit /\ DeliveryInit /\ PreviewInit /\ LifeInit
  /\ part = "dialogue" \/ \A c \in Chat : role[c] = "admin"
  /\ part = "previews" \/ enabled

vars == <<dialogueVars, deliveryVars, previewVars, lifeVars, part>>

Next ==
  /\ \/ /\ part = "dialogue" /\ DialogueNext
        /\ UNCHANGED <<deliveryVars, previewVars, lifeVars>>
     \/ /\ part = "delivery" /\ DeliveryNext
        /\ UNCHANGED <<dialogueVars, previewVars, lifeVars>>
     \/ /\ part = "previews" /\ PreviewNext
        /\ UNCHANGED <<dialogueVars, deliveryVars, lifeVars>>
     \/ /\ part = "life" /\ LifeNext
        /\ UNCHANGED <<dialogueVars, deliveryVars, previewVars>>
  /\ UNCHANGED part

\* In a part that is not explored no fair action can be taken.
Spec == Init /\ [][Next]_vars /\ PreviewFairness /\ LifeFairness

ServicesTypeOK == DialogueTypeOK /\ DeliveryTypeOK /\ PreviewTypeOK /\ LifeTypeOK
=============================================================================
