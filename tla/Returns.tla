------------------------------ MODULE Returns ------------------------------
(***************************************************************************)
(* Returning a delivered order: return.service.ts, the return buttons of   *)
(* telegram.update.ts, and the cron of order-cron.service.ts that closes   *)
(* the return window.  A refund can be approved from the admin panel and   *)
(* from the Telegram bot; each has a transaction of its own.               *)
(***************************************************************************)
EXTENDS Orders

Decided(o) == request[o] \in {"RETURN_APPROVED", "RETURN_REJECTED"}

----------------------------------------------------------------------------
(* createReturnRequest *)

StartCreateReturn(h, o) ==
  /\ Arrives(h, o, "createReturnRequest")
  /\ status[o] = "DELIVERED"
  /\ window[o].done = "open"
  /\ request[o] = "NONE"
  /\ Begin(h, [Idle EXCEPT !.at = "createReturn", !.o = o])
  /\ UNCHANGED <<stockVars, orderVars, returnVars>>

\* Fault: replaces a request that is there already.
RequestReplaced(h) ==
  LET o == job[h].o
  IN  /\ job[h].at = "createReturn"
      /\ request' = [request EXCEPT ![o] = "RETURN_REQUESTED"]
      /\ status' = [status EXCEPT ![o] = "RETURN_REQUESTED"]
      /\ Finish(h)
      /\ UNCHANGED <<stockVars, version, window, basket, edition, returned,
                     pay, payTx, button, old, refunds>>

\* A second request for the order breaks the unique key: Abandon.
CreateReturnRequest(h) ==
  LET o == job[h].o
  IN  /\ job[h].at = "createReturn"
      /\ request[o] = "NONE"
      /\ request' = [request EXCEPT ![o] = "RETURN_REQUESTED"]
      /\ status' = [status EXCEPT ![o] = "RETURN_REQUESTED"]
      /\ Finish(h)
      /\ UNCHANGED <<stockVars, version, window, basket, edition, returned,
                     pay, payTx, button, old, refunds>>

----------------------------------------------------------------------------
(* approveRefundTransaction and the Telegram confirm button.  Both read    *)
(* request, order and order items with one query each, in this order from  *)
(* the panel and with the order first from Telegram.                       *)

ReadItems(h) ==
  Begin(h, [job[h] EXCEPT !.at = "refund", !.ver = version[job[h].o],
                          !.ed = edition[job[h].o],
                          !.b = basket[job[h].o],
                          !.flag = returned[job[h].o]])

StartRefund(h, o) ==
  /\ Arrives(h, o, "approveRefund")
  /\ request[o] = "RETURN_REQUESTED"
  /\ Begin(h, [Idle EXCEPT !.at = "refundRead", !.o = o])
  /\ UNCHANGED <<stockVars, orderVars, returnVars>>

RefundReadsOrder(h) ==
  /\ job[h].at = "refundRead"
  /\ pay[job[h].o].paid > 0
  /\ ReadItems(h)
  /\ UNCHANGED <<stockVars, orderVars, returnVars>>

StartTelegramRefund(h, o) ==
  /\ Arrives(h, o, "confirmReturnButton")
  /\ Begin(h, [Idle EXCEPT !.at = "tgRefundRead", !.o = o,
                           !.ver = version[o]])
  /\ UNCHANGED <<stockVars, orderVars, returnVars>>

TelegramRefundReadsRequest(h) ==
  LET o == job[h].o
  IN  /\ job[h].at = "tgRefundRead"
      /\ request[o] = "RETURN_REQUESTED"
      /\ Begin(h, [job[h] EXCEPT !.at = "tgRefund", !.ed = edition[o],
                                 !.b = basket[o], !.flag = returned[o]])
      /\ UNCHANGED <<stockVars, orderVars, returnVars>>

\* The refund transaction.  It throws (Abandon) when the version moved, when
\* the items read are flagged or gone, and for every order with a roll item:
\* the barcode helpers query a column that Carpet does not have.
Refund(h) ==
  LET j == job[h]
      o == j.o
  IN  /\ j.at \in {"refund", "tgRefund"}
      /\ VersionHolds(j)
      /\ j.ver <= MaxVersion
      /\ ~ j.flag
      /\ j.ed = edition[o]
      /\ j.b.len = 0
      /\ request' = [request EXCEPT ![o] = "RETURN_APPROVED"]
      /\ status' = [status EXCEPT ![o] = "REFUNDED"]
      /\ version' = [version EXCEPT ![o] = @ + 1]
      /\ refunds' = [refunds EXCEPT ![o] = @ + 1]
      /\ item' = SetStatus(item, links[o], "ACTIVE")
      /\ returned' = [returned EXCEPT ![o] = TRUE]
      /\ Finish(h)
      /\ UNCHANGED <<links, alloc, pieces, roll, soldCount, window, basket,
                     edition, pay, payTx, button, old>>

----------------------------------------------------------------------------
(* Rejecting: reviewReturnRequest is one transaction that looks at no      *)
(* status; the Telegram button checks the request before its transaction.  *)

RejectReturn(o) ==
  /\ "rejectReturn" \in Ops
  /\ request[o] # "NONE"
  /\ request' = [request EXCEPT ![o] = "RETURN_REJECTED"]
  /\ status' = [status EXCEPT ![o] = "COMPLETED"]
  /\ UNCHANGED <<stockVars, version, window, basket, edition, returned, pay,
                 payTx, button, old, refunds, job>>

StartTelegramReject(h, o) ==
  /\ Arrives(h, o, "rejectReturnButton")
  /\ request[o] = "RETURN_REQUESTED"
  /\ Begin(h, [Idle EXCEPT !.at = "tgReject", !.o = o])
  /\ UNCHANGED <<stockVars, orderVars, returnVars>>

TelegramReject(h) ==
  LET o == job[h].o
  IN  /\ job[h].at = "tgReject"
      /\ request' = [request EXCEPT ![o] = "RETURN_REJECTED"]
      /\ status' = [status EXCEPT ![o] = "RETURN_REJECTED"]
      /\ Finish(h)
      /\ UNCHANGED <<stockVars, version, window, basket, edition, returned,
                     pay, payTx, button, old, refunds>>

----------------------------------------------------------------------------
(* handleReturnDeadlineExpiration: a query for the orders whose deadline   *)
(* has passed, then for each one a transaction that reads it afresh and    *)
(* writes it under its version.  A job is one order of the query's answer. *)

\* Fault: compares the deadline the wrong way round.
DueTooEarly(o) ==
  /\ status[o] = "DELIVERED"
  /\ window[o].deadline = "open"
  /\ request[o] = "NONE"

DueForCompletion(o) ==
  /\ status[o] = "DELIVERED"
  /\ window[o].deadline = "past"
  /\ request[o] = "NONE"

StartAutoComplete(h, o) ==
  /\ "autoComplete" \in Ops /\ h \in Cron /\ job[h].at = "idle"
  /\ DueForCompletion(o)
  /\ Begin(h, [Idle EXCEPT !.at = "autoCompleteRead", !.o = o])
  /\ UNCHANGED <<stockVars, orderVars, returnVars>>

AutoCompleteReads(h) ==
  /\ job[h].at = "autoCompleteRead"
  /\ status[job[h].o] = "DELIVERED"
  /\ Begin(h, [job[h] EXCEPT !.at = "autoComplete",
                             !.ver = version[job[h].o]])
  /\ UNCHANGED <<stockVars, orderVars, returnVars>>

AutoComplete(h) ==
  LET o == job[h].o
  IN  /\ job[h].at = "autoComplete"
      /\ VersionHolds(job[h])
      /\ job[h].ver <= MaxVersion
      /\ status' = [status EXCEPT ![o] = "COMPLETED"]
      /\ version' = [version EXCEPT ![o] = @ + 1]
      /\ Finish(h)
      /\ UNCHANGED <<stockVars, window, basket, edition, returned, pay,
                     payTx, button, old, returnVars>>

ReturnNext ==
  \/ \E o \in Order : RejectReturn(o)
  \/ \E h \in Handler, o \in Order :
       \/ StartCreateReturn(h, o)
       \/ StartRefund(h, o)
       \/ StartTelegramRefund(h, o)
       \/ StartTelegramReject(h, o)
       \/ StartAutoComplete(h, o)
  \/ \E h \in Handler :
       \/ CreateReturnRequest(h)
       \/ RefundReadsOrder(h)
       \/ TelegramRefundReadsRequest(h)
       \/ Refund(h)
       \/ TelegramReject(h)
       \/ AutoCompleteReads(h)
       \/ AutoComplete(h)
=============================================================================
