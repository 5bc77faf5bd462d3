--------------------------- MODULE OrderLifecycle ---------------------------
(***************************************************************************)
(* What orders.service.ts promises about one order, with every handler     *)
(* reduced to one atomic step: the status only moves along                 *)
(* ALLOWED_TRANSITIONS (orders.constants.ts), and what the platform holds  *)
(* of the customer's (wallet rupees and coins) is taken when the order is  *)
(* released to the kitchen and given back, all of it and once, when it is  *)
(* cancelled.  Orders.tla is shown to implement this module when at most   *)
(* one request at a time works on an order.                                *)
(***************************************************************************)
EXTENDS Naturals

CONSTANT OrderIds

VARIABLES
    status,      \* Order.status, "NONE" before the row exists
    walletHeld,  \* rupees debited from the wallet and not refunded
    coinsHeld    \* coins spent on the order and not returned

vars == <<status, walletHeld, coinsHeld>>

Statuses == {"PENDING_PAYMENT", "PLACED", "ACCEPTED", "PREPARING",
             "OUT_FOR_DELIVERY", "DELIVERED", "CANCELLED"}

ALLOWED_TRANSITIONS ==
    [s \in Statuses |->
        CASE s = "PENDING_PAYMENT"  -> {"PLACED", "CANCELLED"}
          [] s = "PLACED"           -> {"ACCEPTED", "CANCELLED"}
          [] s = "ACCEPTED"         -> {"PREPARING", "CANCELLED"}
          [] s = "PREPARING"        -> {"OUT_FOR_DELIVERY", "CANCELLED"}
          [] s = "OUT_FOR_DELIVERY" -> {"DELIVERED"}
          [] OTHER                  -> {}]

Init ==
    /\ status = [o \in OrderIds |-> "NONE"]
    /\ walletHeld = [o \in OrderIds |-> 0]
    /\ coinsHeld = [o \in OrderIds |-> 0]

(* Order o now holds some amount, the others what they held. *)
TakesAny(held, heldNext, o) ==
    heldNext[o] \in Nat /\ heldNext = [held EXCEPT ![o] = heldNext[o]]

(* A gateway order is born waiting for its payment: nothing is taken yet. *)
Await(o) ==
    /\ status[o] = "NONE"
    /\ status' = [status EXCEPT ![o] = "PENDING_PAYMENT"]
    /\ UNCHANGED <<walletHeld, coinsHeld>>

(* A cash or wallet order is born placed, with its price already taken. *)
Place(o) ==
    /\ status[o] = "NONE"
    /\ status' = [status EXCEPT ![o] = "PLACED"]
    /\ TakesAny(walletHeld, walletHeld', o)
    /\ TakesAny(coinsHeld, coinsHeld', o)

(* The gateway's confirmation: the coins are spent now, no wallet is. *)
Confirm(o) ==
    /\ status[o] = "PENDING_PAYMENT"
    /\ status' = [status EXCEPT ![o] = "PLACED"]
    /\ TakesAny(coinsHeld, coinsHeld', o)
    /\ UNCHANGED walletHeld

(* One step down the tracking stepper. *)
Advance(o) ==
    /\ status[o] \in Statuses \ {"PENDING_PAYMENT"}
    /\ \E s \in ALLOWED_TRANSITIONS[status[o]] \ {"CANCELLED"} :
          status' = [status EXCEPT ![o] = s]
    /\ UNCHANGED <<walletHeld, coinsHeld>>

(* Cancelling gives everything back in the same step. *)
Cancel(o) ==
    /\ status[o] \in Statuses
    /\ "CANCELLED" \in ALLOWED_TRANSITIONS[status[o]]
    /\ status' = [status EXCEPT ![o] = "CANCELLED"]
    /\ walletHeld' = [walletHeld EXCEPT ![o] = 0]
    /\ coinsHeld' = [coinsHeld EXCEPT ![o] = 0]

Next == \E o \in OrderIds :
            Await(o) \/ Place(o) \/ Confirm(o) \/ Advance(o) \/ Cancel(o)

Spec == Init /\ [][Next]_vars
=============================================================================
