------------------------------- MODULE MCShop -------------------------------
(* Values for the constants of Shop: carts, sets of operations, symmetry.   *)
EXTENDS ShopProperties, TLC

ReadyCarts == {[qty |-> 1, len |-> 0], [qty |-> 2, len |-> 0]}
RollCarts == {[qty |-> 0, len |-> 1], [qty |-> 1, len |-> 2]}
OneCarpet == {[qty |-> 1, len |-> 0]}
TwoCarpets == {[qty |-> 2, len |-> 0]}
OneOfEach == {[qty |-> 1, len |-> 1]}
MixedCarts == {[qty |-> 2, len |-> 0], [qty |-> 1, len |-> 2]}

Cash == {FALSE}
Online == {TRUE}

SaleOps == {"create", "updateStatus"}
LifeOps == SaleOps \cup {"autoComplete"}
SaleAndReturnOps ==
  SaleOps \cup {"createReturnRequest", "confirmReturnButton", "rejectReturn"}

AllOps ==
  DisciplinedOps \cup {"confirmDelivery", "markItemAsCut", "cancelMyOrder",
                      "webhook", "arrivalButtons", "expireReservations",
                      "updateOrder"}
AllButEditOps == AllOps \ {"updateOrder"}
StaffOps == DisciplinedOps \cup {"confirmDelivery", "updateOrder"}
WebhookOps == {"create", "webhook"}
PaymentOps == AllOps \ {"confirmRemaining"}

Symmetry ==
  Permutations(Order) \cup Permutations(Item) \cup
  Permutations(Handler \ Cron)
=============================================================================
