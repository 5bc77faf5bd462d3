-------------------------------- MODULE Cart --------------------------------
(***************************************************************************)
(* The cart of one customer (cart.service.ts), how it is priced             *)
(* (pricing.ts, and the evaluations of the coupon and of the coins), and    *)
(* the order it becomes (orders.service.ts, as far as the cart goes: the    *)
(* pipeline after it is module Orders).                                     *)
(***************************************************************************)
EXTENDS Handlers, Integers, Sequences, Functions, FiniteSetsExt

CONSTANTS
    Items,         \* a dish with options and a note: what makes two lines the same
    KitchenOf,     \* Meal.kitchenId
    UnitPrice,     \* the dish's price with its options
    QuantityCap,   \* most of one line, 20
    CouponRow,     \* the coupon: flat, value, maxDiscount, minOrderValue, perUserLimit
    InitialCoins,  \* User.coinsBalance
    InitialLines,  \* what may be in the cart already
    MaxLines,      \* bound: cart lines ever added
    MaxPlaced      \* bound: orders ever placed

Line == [item : Items, quantity : 0..QuantityCap]

ASSUME CartAssumption ==
    /\ QuantityCap \in Nat \ {0} /\ InitialCoins \in Int
    /\ UnitPrice \in [Items -> Int]
    /\ CouponRow \in [flat : BOOLEAN, value : Nat, maxDiscount : Nat, minOrderValue : Nat, perUserLimit : Nat]
    (* One kitchen, and one line of an item, in a cart that is there already. *)
    /\ InitialLines \subseteq Seq(Line)
    /\ \A read \in InitialLines : \A i, j \in DOMAIN read :
           KitchenOf[read[i].item] = KitchenOf[read[j].item] /\ (read[i].item = read[j].item => i = j)

VARIABLES
    offered,       \* the items whose dish is available
    cart,          \* Cart: whether the row exists, couponCode, coinsToRedeem, sourceStoryId
    lines,         \* CartItem rows, by id; quantity 0 is a row that is deleted
    coinsLeft,     \* User.coinsBalance
    placed         \* Order rows

cartVars == <<offered, cart, lines, coinsLeft, placed>>

PRICING == [DELIVERY_FEE |-> 45, FREE_DELIVERY_ABOVE |-> 499, MIN_ORDER_VALUE |-> 99,
            COINS_MIN_ORDER_VALUE |-> 1000, MAX_REDEEMABLE_COINS |-> 200, TAX_PERCENT |-> 5]

NothingApplied(exists) == [exists |-> exists, coupon |-> FALSE, coins |-> 0, story |-> FALSE]

CartInit ==
    /\ offered = Items
    /\ lines \in InitialLines
    /\ cart = NothingApplied(lines # <<>>)
    /\ coinsLeft = InitialCoins
    /\ placed = <<>>

-----------------------------------------------------------------------------
(* Prices *)

Least(a, b) == IF a < b THEN a ELSE b
Greatest(a, b) == IF a > b THEN a ELSE b

InCart == {i \in DOMAIN lines : lines[i].quantity > 0}

Totalled(read) ==
    SumFunctionOnSet([i \in DOMAIN read |-> UnitPrice[read[i].item] * read[i].quantity], DOMAIN read)

(* computeDiscount; no maxDiscount is 0. *)
ComputeDiscount(total) ==
    LET raw == (total * CouponRow.value + 50) \div 100
        capped == IF CouponRow.maxDiscount > 0 THEN Least(raw, CouponRow.maxDiscount) ELSE raw
    IN  Least(IF CouponRow.flat THEN CouponRow.value ELSE capped, total)

(* evaluate, of a coupon that is valid today: what the items are worth, and the *)
(* customer's own uses of it.                                                   *)
CouponDiscount(code, total) ==
    LET uses == Cardinality({o \in DOMAIN placed : /\ placed[o].coupon
                                                   /\ placed[o].status # "PENDING_PAYMENT"})
    IN  IF /\ code /\ total >= CouponRow.minOrderValue
           /\ CouponRow.perUserLimit = 0 \/ uses < CouponRow.perUserLimit
        THEN ComputeDiscount(total) ELSE 0

(* evaluateRedemption *)
MaxRedeemable(total) ==
    IF total >= PRICING.COINS_MIN_ORDER_VALUE
    THEN Least(coinsLeft, PRICING.MAX_REDEEMABLE_COINS) ELSE 0

Redeemed(requested, total) == Greatest(0, Least(requested, MaxRedeemable(total)))

(* buildPriceBreakdown: the coupon is clamped first, the coins to what is left,  *)
(* and tax is charged on the rest.                                               *)
TotalAmount(items, coupon, coins) ==
    LET safeCoupon == Least(coupon, items)
        rest == items - safeCoupon - Least(coins, items - safeCoupon)
        deliveryFee == IF items >= PRICING.FREE_DELIVERY_ABOVE THEN 0 ELSE PRICING.DELIVERY_FEE
    IN  rest + deliveryFee + (rest * PRICING.TAX_PERCENT + 50) \div 100

-----------------------------------------------------------------------------
(* Every handler finds the cart or creates it before its next step. *)
Call(r, call, then) ==
    /\ Begin(r, call, IF cart.exists THEN then ELSE [at |-> "newCart", then |-> then])
    /\ UNCHANGED cartVars

(* ensureCart's insert: userId is unique, and of two the second throws. *)
CreateCart(r) ==
    /\ At(r, "newCart")
    /\ cart' = [cart EXCEPT !.exists = TRUE]
    /\ IF cart.exists THEN End(r) ELSE Goto(r, req[r].then)
    /\ UNCHANGED <<offered, lines, coinsLeft, placed>>

-----------------------------------------------------------------------------
(* addItem *)

AddItem(r, item, quantity, replace, story) ==
    /\ item \in offered
    /\ (replace => "replace" \in calls) /\ (story => "story" \in calls)
    /\ Call(r, "add", [at |-> "kitchenOf", item |-> item, quantity |-> quantity,
                       replace |-> replace, story |-> story])

(* Faulty: lines of another kitchen do not matter. *)
MixKitchens(r) ==
    /\ At(r, "kitchenOf")
    /\ Continue(r, "findLine")
    /\ UNCHANGED cartVars

(* The kitchen of a line decides: no conflict, a refusal, or the cart is replaced. *)
CheckKitchen(r) ==
    LET f == req[r]
    IN  /\ At(r, "kitchenOf")
        /\ \/ /\ InCart = {}
              /\ Continue(r, "findLine")
           \/ \E i \in InCart :
                 IF KitchenOf[lines[i].item] = KitchenOf[f.item] THEN Continue(r, "findLine")
                 ELSE IF f.replace THEN Continue(r, "emptyLines")
                 ELSE End(r)
        /\ UNCHANGED cartVars

NoLines == [i \in DOMAIN lines |-> [lines[i] EXCEPT !.quantity = 0]]

(* The lines first, what is applied to them second. *)
ReplaceLines(r) ==
    /\ At(r, "emptyLines")
    /\ lines' = NoLines
    /\ Continue(r, "resetCart")
    /\ UNCHANGED <<offered, cart, coinsLeft, placed>>

Reset == NothingApplied(cart.exists)

ReplaceApplied(r) ==
    /\ At(r, "resetCart")
    /\ cart' = Reset
    /\ Continue(r, "findLine")
    /\ UNCHANGED <<offered, lines, coinsLeft, placed>>

SameLine(item) == {i \in InCart : lines[i].item = item}

FindLine(r) ==
    /\ At(r, "findLine")
    /\ IF SameLine(req[r].item) = {} THEN Continue(r, "insertLine")
       ELSE \E i \in SameLine(req[r].item) :
               Goto(r, [at |-> "bumpLine", line |-> i, old |-> lines[i].quantity,
                        quantity |-> req[r].quantity, story |-> req[r].story])
    /\ UNCHANGED cartVars

AfterLine(r) == IF req[r].story THEN Goto(r, [at |-> "attribute"]) ELSE End(r)

(* The quantity written is the one that was read, with the addition. *)
BumpLine(r) ==
    LET f == req[r]
    IN  /\ At(r, "bumpLine")
        /\ IF lines[f.line].quantity = 0 THEN End(r) /\ UNCHANGED lines
           ELSE /\ lines' = [lines EXCEPT ![f.line].quantity = Least(f.old + f.quantity, QuantityCap)]
                /\ AfterLine(r)
        /\ UNCHANGED <<offered, cart, coinsLeft, placed>>

InsertLine(r) ==
    /\ At(r, "insertLine") /\ Len(lines) < MaxLines
    /\ lines' = Append(lines, [item |-> req[r].item, quantity |-> req[r].quantity])
    /\ AfterLine(r)
    /\ UNCHANGED <<offered, cart, coinsLeft, placed>>

(* "Most-recent-story-wins"; without one the cart keeps the story it has. *)
Attribute(r) ==
    /\ At(r, "attribute")
    /\ cart' = [cart EXCEPT !.story = TRUE]
    /\ End(r)
    /\ UNCHANGED <<offered, lines, coinsLeft, placed>>

-----------------------------------------------------------------------------
(* updateItem and removeItem; clear *)

UpdateItem(r, i, quantity) == Call(r, "update", [at |-> "setItem", line |-> i, quantity |-> quantity])

(* Not found, or gone by the time it is written, it throws. *)
SetItem(r) ==
    /\ At(r, "setItem")
    /\ lines' = IF lines[req[r].line].quantity = 0 THEN lines
                ELSE [lines EXCEPT ![req[r].line].quantity = req[r].quantity]
    /\ End(r)
    /\ UNCHANGED <<offered, cart, coinsLeft, placed>>

Clear(r) == Call(r, "clear", [at |-> "clearAll"])

ClearAll(r) ==
    /\ At(r, "clearAll")
    /\ lines' = NoLines
    /\ cart' = Reset
    /\ End(r)
    /\ UNCHANGED <<offered, coinsLeft, placed>>

-----------------------------------------------------------------------------
(* applyCoupon, removeCoupon, applyCoins, removeCoins *)

Applied(r, step) == Call(r, "apply", [at |-> step])

WithCoupon(applied) == [at |-> "writeCoupon", coupon |-> applied]
WithCoins(coins) == [at |-> "writeCoins", coins |-> coins]

(* What the items qualify for is decided, *)
QualifyCoupon(r) ==
    /\ At(r, "qualifyCoupon")
    /\ IF CouponDiscount(TRUE, Totalled(lines)) = 0 THEN End(r)
       ELSE Goto(r, WithCoupon(TRUE))
    /\ UNCHANGED cartVars

QualifyCoins(r) ==
    LET most == MaxRedeemable(Totalled(lines))
    IN  /\ At(r, "qualifyCoins")
        /\ IF most = 0 THEN End(r)
           ELSE Goto(r, WithCoins(most))
        /\ UNCHANGED cartVars

Unapply(r, then) == Call(r, "unapply", then)

(* and later written on the cart. *)
WriteCart(r) ==
    /\ \/ At(r, "writeCoupon") /\ cart' = [cart EXCEPT !.coupon = req[r].coupon]
       \/ At(r, "writeCoins") /\ cart' = [cart EXCEPT !.coins = req[r].coins]
    /\ End(r)
    /\ UNCHANGED <<offered, lines, coinsLeft, placed>>

-----------------------------------------------------------------------------
(* placeOrder and confirmPayment *)

PlaceOrder(r, immediate) == Call(r, "place", [at |-> "readItems", immediate |-> immediate])

ReadItems(r) ==
    /\ At(r, "readItems")
    /\ IF /\ InCart # {} /\ \A i \in InCart : lines[i].item \in offered
          /\ Totalled(lines) >= PRICING.MIN_ORDER_VALUE
       THEN Goto(r, [at |-> "evaluate", immediate |-> req[r].immediate, read |-> [i \in InCart |-> lines[i]]])
       ELSE End(r)
    /\ UNCHANGED cartVars

NewOrder(r, coupon, coins) ==
    [status |-> IF req[r].immediate THEN "PLACED" ELSE "PENDING_PAYMENT",
     items |-> req[r].read, coupon |-> coupon > 0, coins |-> coins, story |-> cart.story,
     total |-> TotalAmount(Totalled(req[r].read), coupon, coins)]

(* Faulty: what the cart says is applied is taken at its word. *)
TrustCart(r) ==
    /\ At(r, "evaluate")
    /\ Goto(r, [at |-> "place", order |-> NewOrder(r, IF cart.coupon THEN CouponRow.value ELSE 0, cart.coins)])
    /\ UNCHANGED cartVars

(* "Re-price server-side": the coupon and the coins of the cart as it is now, for *)
(* the items that were read.                                                      *)
EvaluateOrder(r) ==
    LET total == Totalled(req[r].read)
    IN  /\ At(r, "evaluate")
        /\ Goto(r, [at |-> "place",
                    order |-> NewOrder(r, CouponDiscount(cart.coupon, total), Redeemed(cart.coins, total))])
        /\ UNCHANGED cartVars

(* The coins are debited and the cart emptied with the order, or not at all. *)
Settle(o) ==
    /\ coinsLeft >= o.coins
    /\ coinsLeft' = coinsLeft - o.coins
    /\ lines' = NoLines
    /\ cart' = Reset

CommitOrder(r) ==
    LET o == req[r].order
    IN  /\ At(r, "place") /\ Len(placed) < MaxPlaced
        /\ \/ o.status = "PENDING_PAYMENT" /\ UNCHANGED <<cart, lines, coinsLeft>>
           \/ o.status = "PLACED" /\ Settle(o)
        /\ placed' = Append(placed, o)
        /\ End(r)
        /\ UNCHANGED offered

ConfirmPayment(r, o) ==
    /\ placed[o].status = "PENDING_PAYMENT"
    /\ Call(r, "confirm", [at |-> "confirmOrder", order |-> o])

ConfirmOrder(r) ==
    LET o == req[r].order
    IN  /\ At(r, "confirmOrder")
        /\ Settle(placed[o])
        /\ placed' = [placed EXCEPT ![o].status = "PLACED"]
        /\ End(r)
        /\ UNCHANGED offered

(* The transaction of either throws when the coins are spent by then. *)
CoinsAreSpent(r) ==
    /\ \/ At(r, "place") /\ req[r].order.status = "PLACED" /\ coinsLeft < req[r].order.coins
       \/ At(r, "confirmOrder") /\ coinsLeft < placed[req[r].order].coins
    /\ End(r)
    /\ UNCHANGED cartVars

(* The kitchen switches a dish off and on. *)
ToggleDish(item) ==
    /\ Instant("soldOut")
    /\ offered' = SymDiff(offered, {item})
    /\ UNCHANGED <<cart, lines, coinsLeft, placed>>

-----------------------------------------------------------------------------
CartStep(r) ==
    \/ CreateCart(r)
    \/ \E item \in Items, quantity \in {1, QuantityCap}, replace \in BOOLEAN, story \in BOOLEAN :
          AddItem(r, item, quantity, replace, story)
    \/ CheckKitchen(r) \/ ReplaceLines(r) \/ ReplaceApplied(r)
    \/ FindLine(r) \/ BumpLine(r) \/ InsertLine(r) \/ Attribute(r)
    \/ \E i \in InCart, quantity \in {0, 1} : UpdateItem(r, i, quantity)
    \/ SetItem(r)
    \/ Clear(r) \/ ClearAll(r)
    \/ \E step \in {"qualifyCoupon", "qualifyCoins"} : Applied(r, step)
    \/ QualifyCoupon(r) \/ QualifyCoins(r)
    \/ Unapply(r, WithCoupon(FALSE)) \/ Unapply(r, WithCoins(0))
    \/ WriteCart(r)
    \/ \E immediate \in BOOLEAN : PlaceOrder(r, immediate)
    \/ ReadItems(r) \/ EvaluateOrder(r) \/ CommitOrder(r) \/ CoinsAreSpent(r)
    \/ \E o \in DOMAIN placed : ConfirmPayment(r, o)
    \/ ConfirmOrder(r)

CartAlone == \E item \in Items : ToggleDish(item)

CartNext == CartAlone \/ \E r \in Requests : CartStep(r) \/ (Abort(r) /\ UNCHANGED cartVars)

CartSpec == HandlersInit /\ CartInit /\ [][CartNext]_<<cartVars, handlerVars>>

(* "One kitchen per cart", one line for what is the same, and no more of it than  *)
(* the cap, as long as no two of the customer's requests overlap: kitchen and      *)
(* line are looked up first and written later, with nothing to hold them.          *)
CartIsOneOrder ==
    ~overlapped =>
        \A i, j \in InCart :
            /\ KitchenOf[lines[i].item] = KitchenOf[lines[j].item]
            /\ lines[i].item = lines[j].item => i = j
            /\ lines[i].quantity <= QuantityCap

(* Whatever was applied to the cart, and however its items changed after that or  *)
(* change while the order is placed: an order is charged for the items it has,     *)
(* with the coupon and the coins only if those items qualify for them.             *)
OrdersQualify ==
    \A o \in DOMAIN placed :
        LET total == Totalled(placed[o].items) IN
        /\ placed[o].coupon => total >= CouponRow.minOrderValue
        /\ placed[o].coins > 0 => total >= PRICING.COINS_MIN_ORDER_VALUE
        /\ placed[o].coins <= PRICING.MAX_REDEEMABLE_COINS

=============================================================================
