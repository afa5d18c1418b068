-------------------------------- MODULE Shop --------------------------------
(***************************************************************************)
(* Everything that writes an order or its stock, working on one database:  *)
(* the order and return handlers, the payment webhooks, the arrival        *)
(* buttons of the Telegram bot and the cron that expires reservations.     *)
(* The constant Ops selects which of them are in use.                      *)
(***************************************************************************)
EXTENDS Returns

----------------------------------------------------------------------------
(* payment-webhook.controller.ts: four autocommitted statements per        *)
(* delivery of the provider's callback, which repeats until acknowledged.  *)

Deposit == 1   \* amount of the deposit transaction, in price units

StartWebhook(h, o) ==
  /\ Arrives(h, o, "webhook")
  /\ payTx[o] \in {"PENDING", "FAILED"}
  /\ Begin(h, [Idle EXCEPT !.at = "webhookMark", !.o = o])
  /\ UNCHANGED <<stockVars, orderVars, returnVars>>

\* The provider's verdict is on the callback; a failed one goes on to mark
\* the order in the same handler.
WebhookMarks(h) ==
  LET o == job[h].o
  IN  /\ job[h].at = "webhookMark"
      /\ \E ok \in BOOLEAN :
           /\ payTx' = [payTx EXCEPT ![o] = IF ok THEN "SUCCESS" ELSE "FAILED"]
           /\ Begin(h, [job[h] EXCEPT !.at = IF ok THEN "webhookRead"
                                             ELSE "webhookPay"])
      /\ UNCHANGED <<stockVars, status, version, window, basket, edition,
                     returned, pay, button, old, returnVars>>

WebhookReads(h) ==
  /\ job[h].at = "webhookRead"
  /\ Begin(h, [job[h] EXCEPT !.at = "webhookPay", !.flag = TRUE,
                             !.rest = pay[job[h].o].rest])
  /\ UNCHANGED <<stockVars, orderVars, returnVars>>

\* Fault: what remains to be paid never gets less.
NeverLess(a, b) == a

Less(a, b) == IF a > b THEN a - b ELSE 0

WebhookPays(h) ==
  LET j == job[h]
      o == j.o
  IN  /\ j.at = "webhookPay"
      /\ \/ /\ j.flag
            /\ status' = [status EXCEPT ![o] = "ACCEPTED"]
            /\ pay' = [pay EXCEPT ![o] = [paid |-> Deposit,
                                          rest |-> Less(j.rest, Deposit),
                                          st |-> "PARTIALLY_PAID"]]
         \/ /\ ~ j.flag
            /\ pay' = [pay EXCEPT ![o].st = "FAILED"]
            /\ UNCHANGED status
      /\ Finish(h)
      /\ UNCHANGED <<stockVars, version, window, basket, edition, returned,
                     payTx, button, old, returnVars>>

----------------------------------------------------------------------------
(* telegram.update.ts: the courier says "delivered", the customer "yes".   *)
(* Buttons stay under their messages and can be pressed at any later time. *)

CourierDelivered(o) ==
  /\ "arrivalButtons" \in Ops
  /\ button[o] = "courier"
  /\ button' = [button EXCEPT ![o] = "customer"]
  /\ UNCHANGED <<stockVars, status, version, window, basket, edition,
                 returned, pay, payTx, old, job, returnVars>>

StartConfirmArrival(h, o) ==
  /\ Arrives(h, o, "arrivalButtons")
  /\ button[o] = "customer"
  /\ status[o] # "DELIVERED"
  /\ Begin(h, [Idle EXCEPT !.at = "tgArrival", !.o = o])
  /\ UNCHANGED <<stockVars, orderVars, returnVars>>

ConfirmArrival(h) ==
  /\ job[h].at = "tgArrival"
  /\ status' = [status EXCEPT ![job[h].o] = "DELIVERED"]
  /\ Finish(h)
  /\ UNCHANGED <<stockVars, version, window, basket, edition, returned, pay,
                 payTx, button, old, returnVars>>

----------------------------------------------------------------------------
(* inventory.service.ts, releaseExpiredReservations: a query, then one     *)
(* transaction over its answer that looks at nothing again.                *)

Expired(i) ==
  /\ item[i] = "RESERVED"
  /\ \E o \in old : i \in links[o] /\ status[o] = "PENDING"

StartExpireReservations(h) ==
  LET expired == {i \in Item : Expired(i)}
  IN  /\ "expireReservations" \in Ops
      /\ h \in Cron /\ job[h].at = "idle"
      /\ expired # {}
      /\ Begin(h, [Idle EXCEPT !.at = "expire", !.scan = expired])
      /\ UNCHANGED <<stockVars, orderVars, returnVars>>

ExpireReservations(h) ==
  /\ job[h].at = "expire"
  /\ item' = SetStatus(item, job[h].scan, "ACTIVE")
  /\ Finish(h)
  /\ UNCHANGED <<links, alloc, pieces, roll, soldCount, orderVars,
                 returnVars>>

----------------------------------------------------------------------------
ShopNext ==
  \/ \E o \in Order : CourierDelivered(o)
  \/ \E h \in Handler, o \in Order :
       \/ StartWebhook(h, o)
       \/ StartConfirmArrival(h, o)
  \/ \E h \in Handler :
       \/ WebhookMarks(h)
       \/ WebhookReads(h)
       \/ WebhookPays(h)
       \/ ConfirmArrival(h)
       \/ StartExpireReservations(h)
       \/ ExpireReservations(h)

Next == OrderNext \/ ReturnNext \/ ShopNext

Spec == Init /\ [][Next]_vars
=============================================================================
