------------------------------- MODULE Orders -------------------------------
(***************************************************************************)
(* The order pipeline: src/src/modules/customer/orders/orders.service.ts,  *)
(* the kitchen's wrapper kitchen-orders.service.ts, and the calls both     *)
(* make into the cart, the customer wallet, the coupon and the coins.      *)
(*                                                                         *)
(* A request is one HTTP call.  It runs as the code runs: the reads made   *)
(* outside the transaction are steps of their own that leave a snapshot in *)
(* local[r]; the interactive $transaction is one step, the commit, and the *)
(* only check inside a transaction that reads before it writes (the wallet *)
(* balance, in debit) is a step before it.  Between any two steps any      *)
(* other request may run: Postgres' READ COMMITTED, Prisma's default,      *)
(* locks no row that is only read.                                         *)
(***************************************************************************)
EXTENDS Integers, FiniteSets, Functions

CONSTANTS
    Users, OrderIds, Requests,
    InitialWallet,       \* every customer's balanceRs at the start
    InitialCoins,        \* every customer's coinsBalance at the start
    ItemsTotal,          \* price of a full cart, fees and tax left out
    CouponDiscount,      \* the one coupon's discount on such a cart
    UsageLimit,          \* Coupon.usageLimit
    PerUserLimit,        \* Coupon.perUserLimit, 0 for no limit
    MaxRedeemableCoins,  \* PRICING.MAX_REDEEMABLE_COINS
    Simulatable          \* statuses POST :id/simulate/:status is called with, {} in production

ASSUME OrdersAssumption ==
    /\ Users # {} /\ IsFiniteSet(OrderIds)
    /\ {InitialWallet, InitialCoins, ItemsTotal, CouponDiscount, UsageLimit,
        PerUserLimit, MaxRedeemableCoins} \subseteq Nat
    /\ Simulatable \subseteq {"PENDING_PAYMENT", "PLACED", "ACCEPTED", "PREPARING",
                              "OUT_FOR_DELIVERY", "DELIVERED", "CANCELLED"}

VARIABLES
    orders,     \* orders table: one row per id, status "NONE" until created
    events,     \* order_status_events: how many rows of each status
    lastEvent,  \* status of the newest of those rows, "NONE" if there is none
    wallet,     \* CustomerWallet.balanceRs
    coins,      \* User.coinsBalance
    books,      \* per order, the ledger rows written for it
    couponUsed, \* Coupon.usedCount
    cart,       \* the customer's cart
    notices,    \* new-order notifications the kitchen received
    pc,         \* where each request is
    local       \* what each request has read and not yet used

db == <<orders, events, lastEvent, wallet, coins, books, couponUsed, cart, notices>>
vars == <<orders, events, lastEvent, wallet, coins, books, couponUsed, cart, notices,
          pc, local>>

-----------------------------------------------------------------------------
(* Data *)

Statuses == {"PENDING_PAYMENT", "PLACED", "ACCEPTED", "PREPARING",
             "OUT_FOR_DELIVERY", "DELIVERED", "CANCELLED"}

PaymentStatuses == {"PENDING", "PROCESSING", "PAID", "FAILED", "REFUNDED"}

(* UPI, cards and the rest of the enum all take the branch of GATEWAY. *)
PaymentMethods == {"COD", "WALLET", "GATEWAY"}

ALLOWED_TRANSITIONS ==
    [s \in Statuses |->
        CASE s = "PENDING_PAYMENT"  -> {"PLACED", "CANCELLED"}
          [] s = "PLACED"           -> {"ACCEPTED", "CANCELLED"}
          [] s = "ACCEPTED"         -> {"PREPARING", "CANCELLED"}
          [] s = "PREPARING"        -> {"OUT_FOR_DELIVERY", "CANCELLED"}
          [] s = "OUT_FOR_DELIVERY" -> {"DELIVERED"}
          [] OTHER                  -> {}]

CUSTOMER_CANCELLABLE == {"PENDING_PAYMENT", "PLACED", "ACCEPTED"}

KITCHEN_SETTABLE == {"ACCEPTED", "PREPARING", "OUT_FOR_DELIVERY", "CANCELLED"}

OrderRow == [user : Users, method : PaymentMethods,
             status : Statuses \cup {"NONE"}, pay : PaymentStatuses,
             total : Nat, coins : Nat, coupon : BOOLEAN]

NoOrder == [user |-> CHOOSE u \in Users : TRUE, method |-> "COD", status |-> "NONE",
            pay |-> "PENDING", total |-> 0, coins |-> 0, coupon |-> FALSE]

CartRow == [filled : BOOLEAN, coupon : BOOLEAN, coins : Nat]

EmptyCart == [filled |-> FALSE, coupon |-> FALSE, coins |-> 0]

BookRow == [debited : Nat, refunded : Nat, spent : Nat, returned : Nat]

Min2(a, b) == IF a <= b THEN a ELSE b

(* Faulty: a wallet order waits for /confirm-payment like a gateway order. *)
IsImmediateCodOnly(m) == m = "COD"

(* COD and WALLET skip /confirm-payment. *)
IsImmediate(m) == m \in {"COD", "WALLET"}

(* buildPriceBreakdown's clamps: the coupon first, the coins on what is left. *)
PriceOf(coupon, redeemed) ==
    LET safeCoupon == IF coupon THEN Min2(CouponDiscount, ItemsTotal) ELSE 0
    IN  ItemsTotal - safeCoupon - Min2(redeemed, ItemsTotal - safeCoupon)

(* CouponsService.evaluate: the limits that depend on what other requests do. *)
CouponValid(u) ==
    /\ couponUsed < UsageLimit
    /\ PerUserLimit > 0 =>
         Cardinality({o \in OrderIds :
                        /\ orders[o].user = u
                        /\ orders[o].coupon
                        /\ orders[o].status \notin {"NONE", "CANCELLED", "PENDING_PAYMENT"}})
           < PerUserLimit

(* ReferralService.evaluateRedemption, for a cart above COINS_MIN_ORDER_VALUE. *)
Redeemable(u) == Min2(coins[u], MaxRedeemableCoins)

NothingRead ==
    [order |-> "NONE", row |-> NoOrder, next |-> "CANCELLED"]

-----------------------------------------------------------------------------
Init ==
    /\ orders = [o \in OrderIds |-> NoOrder]
    /\ events = [o \in OrderIds |-> [s \in Statuses |-> 0]]
    /\ lastEvent = [o \in OrderIds |-> "NONE"]
    /\ wallet = [u \in Users |-> InitialWallet]
    /\ coins = [u \in Users |-> InitialCoins]
    /\ books = [o \in OrderIds |-> [debited |-> 0, refunded |-> 0, spent |-> 0, returned |-> 0]]
    /\ couponUsed = 0
    /\ cart = [u \in Users |-> EmptyCart]
    /\ notices = [o \in OrderIds |-> 0]
    /\ pc = [r \in Requests |-> "new"]
    /\ local = [r \in Requests |-> NothingRead]

(* Request r moves on with what it has seen, or ends and forgets it. *)
Continue(r, step, seen) ==
    /\ pc' = [pc EXCEPT ![r] = step]
    /\ local' = [local EXCEPT ![r] = seen]

Finish(r) ==
    /\ pc' = [pc EXCEPT ![r] = "done"]
    /\ local' = [local EXCEPT ![r] = NothingRead]

(* An order.update: every handler writes the status, the payment, or both. *)
WriteOrder(o, status, pay) ==
    orders' = [orders EXCEPT ![o] = [@ EXCEPT !.status = status, !.pay = pay]]

(* The ledger rows written for order o: rupees debited and refunded, coins    *)
(* spent and returned.                                                       *)
Post(o, debit, refund, spend, return) ==
    books' = [books EXCEPT ![o] =
                [debited |-> @.debited + debit, refunded |-> @.refunded + refund,
                 spent |-> @.spent + spend, returned |-> @.returned + return]]

(* The nested events: { create: { status } } of an order write. *)
RecordEvent(o, s) ==
    /\ events' = [events EXCEPT ![o][s] = @ + 1]
    /\ lastEvent' = [lastEvent EXCEPT ![o] = s]

-----------------------------------------------------------------------------
(* The customer fills the cart and applies the coupon and the coins: the    *)
(* writes of cart.service.ts, reduced to what placing an order reads.       *)
FillCart(u) ==
    /\ ~cart[u].filled
    /\ \E withCoupon \in BOOLEAN, withCoins \in BOOLEAN :
          /\ withCoupon => CouponValid(u)
          /\ cart' = [cart EXCEPT ![u] =
                        [filled |-> TRUE, coupon |-> withCoupon,
                         coins |-> IF withCoins THEN Redeemable(u) ELSE 0]]
    /\ UNCHANGED <<orders, events, lastEvent, wallet, coins, books, couponUsed, notices, pc, local>>

-----------------------------------------------------------------------------
(* placeOrder *)

(* getDetailedItems and the checks on the items, the kitchen, the address. *)
PlaceReadItems(r) ==
    /\ pc[r] = "new"
    /\ \E u \in Users, m \in PaymentMethods :
          /\ cart[u].filled
          /\ Continue(r, "place", [local[r] EXCEPT !.row = [NoOrder EXCEPT !.user = u, !.method = m]])
    /\ UNCHANGED db

(* ensureCart, CouponsService.evaluate, evaluateRedemption and the price: the *)
(* row that will be created is now fixed.                                     *)
PlaceEvaluate(r) ==
    LET u == local[r].row.user
        m == local[r].row.method
        coupon == cart[u].coupon /\ CouponValid(u)
        redeemed == Min2(cart[u].coins, Redeemable(u))
    IN  /\ pc[r] = "place"
        /\ Continue(r, IF m = "WALLET" THEN "placeDebit" ELSE "placeCommit",
              [local[r] EXCEPT !.row =
                 [user |-> u, method |-> m,
                  status |-> IF IsImmediate(m) THEN "PLACED" ELSE "PENDING_PAYMENT",
                  pay |-> CASE m = "WALLET" -> "PAID"
                            [] m = "COD" -> "PENDING"
                            [] OTHER -> "PROCESSING",
                  total |-> PriceOf(coupon, redeemed),
                  coins |-> redeemed, coupon |-> coupon]])
        /\ UNCHANGED db

(* CustomerWalletService.debit, its first half: the balance is read and       *)
(* checked; too little of it throws and the order is never created.           *)
PlaceDebitCheck(r) ==
    /\ pc[r] = "placeDebit"
    /\ IF wallet[local[r].row.user] >= local[r].row.total
       THEN Continue(r, "placeCommit", local[r])
       ELSE Finish(r)
    /\ UNCHANGED db

(* Faulty: counts the coupon now in the cart, not the one on the order. *)
ReleaseCountsCartCoupon(o, row) ==
    /\ RecordEvent(o, "PLACED")
    /\ cart' = [cart EXCEPT ![row.user] = EmptyCart]
    /\ couponUsed' = couponUsed + (IF cart[row.user].coupon THEN 1 ELSE 0)
    /\ coins' = [coins EXCEPT ![row.user] = @ - row.coins]

(* What placement and confirmation both do once the payment is certain: the  *)
(* PLACED event, the emptied cart, the coupon's use, the coins.  Every meal's *)
(* orderCount moves with them; nothing here reads it.                        *)
Release(o, row) ==
    /\ RecordEvent(o, "PLACED")
    /\ cart' = [cart EXCEPT ![row.user] = EmptyCart]
    /\ couponUsed' = couponUsed + (IF row.coupon THEN 1 ELSE 0)
    /\ coins' = [coins EXCEPT ![row.user] = @ - row.coins]

(* Faulty: the coins are decremented whatever the balance is now. *)
CoinsUnconditional(row) == TRUE

(* debitCoins' conditional updateMany matches a row. *)
CoinsSuffice(row) == row.coins > 0 => coins[row.user] >= row.coins

(* The transaction of a COD or WALLET order. *)
PlaceCommitImmediate(r) ==
    LET row == local[r].row
        rupees == IF row.method = "WALLET" THEN row.total ELSE 0
    IN  /\ pc[r] = "placeCommit"
        /\ IsImmediate(row.method)
        /\ CoinsSuffice(row)
        /\ \E o \in OrderIds :
              /\ orders[o].status = "NONE"
              /\ orders' = [orders EXCEPT ![o] = row]
              /\ wallet' = [wallet EXCEPT ![row.user] = @ - rupees]
              /\ Post(o, rupees, 0, row.coins, 0)
              /\ Release(o, row)
              /\ Continue(r, "notify", [local[r] EXCEPT !.order = o])
        /\ UNCHANGED notices

(* The transaction of an order that waits for its payment. *)
PlaceCommitPending(r) ==
    /\ pc[r] = "placeCommit"
    /\ ~IsImmediate(local[r].row.method)
    /\ \E o \in OrderIds :
          /\ orders[o].status = "NONE"
          /\ orders' = [orders EXCEPT ![o] = local[r].row]
    /\ Finish(r)
    /\ UNCHANGED <<events, lastEvent, wallet, coins, books, couponUsed, cart, notices>>

(* debitCoins matched nothing: ConflictException, the transaction rolls back. *)
PlaceConflict(r) ==
    /\ pc[r] = "placeCommit"
    /\ IsImmediate(local[r].row.method)
    /\ ~CoinsSuffice(local[r].row)
    /\ Finish(r)
    /\ UNCHANGED db

(* notifyKitchenNewOrder, after the commit; a failure is swallowed. *)
NotifyKitchen(r) ==
    /\ pc[r] = "notify"
    /\ notices' = [notices EXCEPT ![local[r].order] = @ + 1]
    /\ Finish(r)
    /\ UNCHANGED <<orders, events, lastEvent, wallet, coins, books, couponUsed, cart>>

-----------------------------------------------------------------------------
(* confirmPayment and failPayment *)

ReadOrder(r, o, step, next) ==
    /\ pc[r] = "new"
    /\ Continue(r, step, [order |-> o, row |-> orders[o], next |-> next])
    /\ UNCHANGED db

ConfirmRead(r) ==
    \E o \in OrderIds :
        /\ orders[o].status = "PENDING_PAYMENT"
        /\ ReadOrder(r, o, "confirm", "PLACED")

(* Faulty: the order is released, its payment still reads PROCESSING. *)
ConfirmCommitUnpaid(r) ==
    LET o == local[r].order
    IN  /\ pc[r] = "confirm"
        /\ CoinsSuffice(orders[o])
        /\ WriteOrder(o, "PLACED", orders[o].pay)
        /\ Post(o, 0, 0, orders[o].coins, 0)
        /\ Release(o, orders[o])
        /\ Continue(r, "notify", local[r])
        /\ UNCHANGED <<wallet, notices>>

ConfirmCommit(r) ==
    LET o == local[r].order
    IN  /\ pc[r] = "confirm"
        /\ CoinsSuffice(orders[o])
        /\ WriteOrder(o, "PLACED", "PAID")
        /\ Post(o, 0, 0, orders[o].coins, 0)
        /\ Release(o, orders[o])
        /\ Continue(r, "notify", local[r])
        /\ UNCHANGED <<wallet, notices>>

ConfirmConflict(r) ==
    /\ pc[r] = "confirm"
    /\ ~CoinsSuffice(orders[local[r].order])
    /\ Finish(r)
    /\ UNCHANGED db

FailRead(r) ==
    \E o \in OrderIds :
        /\ orders[o].status = "PENDING_PAYMENT"
        /\ ReadOrder(r, o, "fail", "PENDING_PAYMENT")

(* Faulty: an order status lands in the payment column. *)
FailCommitWrongEnum(r) ==
    /\ pc[r] = "fail"
    /\ WriteOrder(local[r].order, orders[local[r].order].status, "PENDING_PAYMENT")
    /\ Finish(r)
    /\ UNCHANGED <<events, lastEvent, wallet, coins, books, couponUsed, cart, notices>>

FailCommit(r) ==
    /\ pc[r] = "fail"
    /\ WriteOrder(local[r].order, orders[local[r].order].status, "FAILED")
    /\ Finish(r)
    /\ UNCHANGED <<events, lastEvent, wallet, coins, books, couponUsed, cart, notices>>

-----------------------------------------------------------------------------
(* cancel and advanceStatus *)

(* Faulty: coins come back to an order that was never paid for. *)
SettleAlwaysReturnsCoins(o, seen) ==
    LET rupees == IF seen.method = "WALLET" /\ seen.pay = "PAID" THEN seen.total ELSE 0
    IN  /\ wallet' = [wallet EXCEPT ![seen.user] = @ + rupees]
        /\ coins' = [coins EXCEPT ![seen.user] = @ + seen.coins]
        /\ Post(o, 0, rupees, 0, seen.coins)

(* settleCancellation: what the snapshot says the order took goes back. *)
SettleCancellation(o, seen) ==
    LET rupees == IF seen.method = "WALLET" /\ seen.pay = "PAID" THEN seen.total ELSE 0
        back == IF seen.status # "PENDING_PAYMENT" THEN seen.coins ELSE 0
    IN  /\ wallet' = [wallet EXCEPT ![seen.user] = @ + rupees]
        /\ coins' = [coins EXCEPT ![seen.user] = @ + back]
        /\ Post(o, 0, rupees, 0, back)

(* Faulty: no tracking event goes with the cancellation. *)
CancelOrderNoEvent(o, seen) ==
    /\ WriteOrder(o, "CANCELLED", IF seen.pay = "PAID" THEN "REFUNDED" ELSE orders[o].pay)
    /\ SettleCancellation(o, seen)
    /\ UNCHANGED <<events, lastEvent>>

(* The order.update of a cancellation, by the customer or by the kitchen. *)
CancelOrder(o, seen) ==
    /\ WriteOrder(o, "CANCELLED", IF seen.pay = "PAID" THEN "REFUNDED" ELSE orders[o].pay)
    /\ RecordEvent(o, "CANCELLED")
    /\ SettleCancellation(o, seen)

CancelRead(r) ==
    \E o \in OrderIds :
        /\ orders[o].status \in CUSTOMER_CANCELLABLE
        /\ ReadOrder(r, o, "cancel", "CANCELLED")

CancelCommit(r) ==
    /\ pc[r] = "cancel"
    /\ CancelOrder(local[r].order, local[r].row)
    /\ Finish(r)
    /\ UNCHANGED <<couponUsed, cart, notices>>

(* The kitchen's wrapper: its own read, then advanceStatus reads again. *)
KitchenRead(r) ==
    \E o \in OrderIds, next \in KITCHEN_SETTABLE :
        /\ orders[o].status \notin {"NONE", "PENDING_PAYMENT"}
        /\ ReadOrder(r, o, "advance", next)

(* The dev-only simulator: an ownership check, then advanceStatus. *)
SimulateRead(r) ==
    \E o \in OrderIds, next \in Simulatable :
        /\ orders[o].status # "NONE"
        /\ ReadOrder(r, o, "advance", next)

(* Faulty: ALLOWED_TRANSITIONS is not consulted. *)
AdvanceReadUnguarded(r) ==
    /\ pc[r] = "advance"
    /\ Continue(r, "advanceCommit", [local[r] EXCEPT !.row = orders[local[r].order]])
    /\ UNCHANGED db

AdvanceRead(r) ==
    LET o == local[r].order
    IN  /\ pc[r] = "advance"
        /\ IF local[r].next \in ALLOWED_TRANSITIONS[orders[o].status]
           THEN Continue(r, "advanceCommit", [local[r] EXCEPT !.row = orders[o]])
           ELSE Finish(r)
        /\ UNCHANGED db

AdvanceCommit(r) ==
    LET o == local[r].order
        next == local[r].next
    IN  /\ pc[r] = "advanceCommit"
        /\ next # "CANCELLED"
        /\ WriteOrder(o, next, IF next = "DELIVERED" THEN "PAID" ELSE orders[o].pay)
        /\ RecordEvent(o, next)
        /\ Finish(r)
        /\ UNCHANGED <<wallet, coins, books, couponUsed, cart, notices>>

AdvanceCommitCancel(r) ==
    /\ pc[r] = "advanceCommit"
    /\ local[r].next = "CANCELLED"
    /\ CancelOrder(local[r].order, local[r].row)
    /\ Finish(r)
    /\ UNCHANGED <<couponUsed, cart, notices>>

-----------------------------------------------------------------------------
(* The function is killed, the client disconnects or the database aborts the *)
(* transaction: nothing more of the request happens.                         *)
Abort(r) ==
    /\ pc[r] \notin {"new", "done"}
    /\ Finish(r)
    /\ UNCHANGED db

Place(r) == PlaceReadItems(r) \/ PlaceEvaluate(r) \/ PlaceDebitCheck(r)
            \/ PlaceCommitImmediate(r) \/ PlaceCommitPending(r) \/ PlaceConflict(r)
            \/ NotifyKitchen(r)

Pay(r) == ConfirmRead(r) \/ ConfirmCommit(r) \/ ConfirmConflict(r) \/ FailRead(r) \/ FailCommit(r)

Move(r) == CancelRead(r) \/ CancelCommit(r) \/ KitchenRead(r) \/ SimulateRead(r)
           \/ AdvanceRead(r) \/ AdvanceCommit(r) \/ AdvanceCommitCancel(r)

Next == \/ \E u \in Users : FillCart(u)
        \/ \E r \in Requests : Place(r) \/ Pay(r) \/ Move(r) \/ Abort(r)

Spec == Init /\ [][Next]_vars

-----------------------------------------------------------------------------
(* The same requests, when no two of them work on the same order at once: what *)
(* a lock on the order row, taken by its first read, would leave possible.     *)
HoldsOrder(r) == pc[r] \in {"confirm", "fail", "cancel", "advance", "advanceCommit"}

OneRequestPerOrder ==
    \A q, r \in Requests :
        HoldsOrder(q) /\ HoldsOrder(r) /\ local[q].order = local[r].order => q = r

LockedNext == Next /\ OneRequestPerOrder'

LockedSpec == Init /\ [][LockedNext]_vars

-----------------------------------------------------------------------------
(* Properties of every interleaving *)

Steps == {"new", "place", "placeDebit", "placeCommit", "notify", "confirm", "fail",
          "cancel", "advance", "advanceCommit", "done"}

TablesOK ==
    /\ orders \in [OrderIds -> OrderRow]
    /\ events \in [OrderIds -> [Statuses -> Nat]]
    /\ lastEvent \in [OrderIds -> Statuses \cup {"NONE"}]
    /\ wallet \in [Users -> Int]
    /\ coins \in [Users -> Int]
    /\ books \in [OrderIds -> BookRow]
    /\ couponUsed \in Nat
    /\ cart \in [Users -> CartRow]
    /\ notices \in [OrderIds -> Nat]

LocalRow == [order : OrderIds \cup {"NONE"}, row : OrderRow, next : Statuses]

RequestsOK ==
    /\ pc \in [Requests -> Steps]
    /\ local \in [Requests -> LocalRow]
    /\ \A r \in Requests : pc[r] = "notify" \/ HoldsOrder(r) => local[r].order \in OrderIds

(* Every table keeps its column types (a balance is an integer column and may  *)
(* go below zero), and a request past its read knows which order it is about.  *)
TypeOK == TablesOK /\ RequestsOK

(* debitCoins: "The conditional update guards against the balance having       *)
(* changed [...] rather than ever letting it go negative", however many orders *)
(* were priced with the same coins.                                            *)
CoinsNeverNegative == \A u \in Users : coins[u] >= 0

(* The tracking screen (buildTracking) reads the events, the order card reads  *)
(* the status: the newest event is the status, whoever wrote last, and an      *)
(* order that has not been paid for shows no event at all.                     *)
TrackingMatchesStatus ==
    \A o \in OrderIds :
        lastEvent[o] = IF orders[o].status = "PENDING_PAYMENT" THEN "NONE" ELSE orders[o].status

(* A wallet order exists only with its debit, in full and once, and never      *)
(* waits for a confirmation that would release it a second time.               *)
WalletOrdersPaidUpFront ==
    \A o \in OrderIds :
        /\ orders[o].method = "WALLET" => orders[o].status # "PENDING_PAYMENT"
        /\ books[o].debited = IF orders[o].method = "WALLET" THEN orders[o].total ELSE 0

(* The kitchen hears of an order at most once per release, never before one.   *)
NoticesFollowRelease == \A o \in OrderIds : notices[o] <= events[o]["PLACED"]

(* The coupon's usedCount is the number of releases of orders that carry it:   *)
(* no interleaving loses or repeats an increment.                              *)
CouponUses(o) == IF orders[o].coupon THEN events[o]["PLACED"] ELSE 0

CouponUsesCounted == couponUsed = SumFunction([o \in OrderIds |-> CouponUses(o)])

(* Both balances are what the ledger rows add up to, per customer.             *)
IsOf(o, u) == orders[o].status # "NONE" /\ orders[o].user = u

RupeesOf(o, u) == IF IsOf(o, u) THEN books[o].refunded - books[o].debited ELSE 0

CoinsOf(o, u) == IF IsOf(o, u) THEN books[o].returned - books[o].spent ELSE 0

BalancesMatchLedgers ==
    \A u \in Users :
        /\ wallet[u] = InitialWallet + SumFunction([o \in OrderIds |-> RupeesOf(o, u)])
        /\ coins[u] = InitialCoins + SumFunction([o \in OrderIds |-> CoinsOf(o, u)])

(* What an order changes outside its own row and its tracking agrees with its  *)
(* history, whatever overlaps and whatever rolls back half-way.                *)
EffectsMatchHistory == NoticesFollowRelease /\ CouponUsesCounted /\ BalancesMatchLedgers

(* A refund or a return of coins commits with the event that cancels the       *)
(* order: settleCancellation runs inside the caller's transaction.             *)
RefundsCommitWithCancellation ==
    [][\A o \in OrderIds :
          \/ books'[o].refunded # books[o].refunded
          \/ books'[o].returned # books[o].returned
          => /\ orders'[o].status = "CANCELLED"
             /\ events'[o]["CANCELLED"] = events[o]["CANCELLED"] + 1]_vars

-----------------------------------------------------------------------------
(* Properties of LockedSpec, outside the simulator's PENDING_PAYMENT -> PLACED *)

Released == {"PLACED", "ACCEPTED", "PREPARING", "OUT_FOR_DELIVERY", "DELIVERED"}

(* A live order holds exactly its price and its coins, any other order nothing:*)
(* a cancellation gives back what was taken, all of it and once.  A kitchen    *)
(* only ever works on orders that are paid, or cash, and no cancelled order    *)
(* reads as paid.                                                              *)
BooksBalance ==
    \A o \in OrderIds :
        LET live == orders[o].status \in Released
        IN  /\ books[o].debited - books[o].refunded =
                  IF live /\ orders[o].method = "WALLET" THEN orders[o].total ELSE 0
            /\ books[o].spent - books[o].returned = IF live THEN orders[o].coins ELSE 0
            /\ orders[o].method = "GATEWAY" /\ live => orders[o].pay = "PAID"
            /\ orders[o].status = "CANCELLED" => orders[o].pay # "PAID"

(* The code implements the atomic lifecycle.                                   *)
Lifecycle == INSTANCE OrderLifecycle
    WITH status <- [o \in OrderIds |-> orders[o].status],
         walletHeld <- [o \in OrderIds |-> books[o].debited - books[o].refunded],
         coinsHeld <- [o \in OrderIds |-> books[o].spent - books[o].returned]

ImplementsLifecycle == Lifecycle!Spec

-----------------------------------------------------------------------------
(* What a comment says, and the code does not keep *)

(* settleCancellation "gives back what a cancelled order already took": never  *)
(* more than that.                                                             *)
RefundedAtMostOnce == \A o \in OrderIds : books[o].refunded <= books[o].debited
=============================================================================
