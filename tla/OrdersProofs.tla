---------------------------- MODULE OrdersProofs ----------------------------
(***************************************************************************)
(* Theorems about Orders.tla, for every set of customers, orders and       *)
(* requests and every price.                                               *)
(***************************************************************************)
EXTENDS Orders, Sums, TLAPS

LEMMA NoOrderIsRow == NoOrder \in OrderRow
BY OrdersAssumption, SMT DEF NoOrder, OrderRow, PaymentMethods, PaymentStatuses, Statuses

LEMMA NothingReadType == NothingRead \in LocalRow
BY NoOrderIsRow DEF NothingRead, LocalRow, Statuses

LEMMA PriceIsNat ==
    ASSUME NEW coupon \in BOOLEAN, NEW redeemed \in Nat
    PROVE  PriceOf(coupon, redeemed) \in Nat
BY OrdersAssumption DEF PriceOf, Min2

-----------------------------------------------------------------------------
(* Type correctness.  Inv is the inductive form: a cart and an order can    *)
(* only hold a natural number of coins because no balance is negative.      *)

Inv == TypeOK /\ CoinsNeverNegative

LEMMA InitInv == Init => Inv
<1> SUFFICES ASSUME Init PROVE Inv
    OBVIOUS
<1>1. TypeOK
    BY OrdersAssumption, NoOrderIsRow, NothingReadType
    DEF Init, TypeOK, TablesOK, RequestsOK, CartRow, EmptyCart, BookRow, Steps, HoldsOrder
<1>2. CoinsNeverNegative
    BY OrdersAssumption DEF Init, CoinsNeverNegative
<1>3. QED
    BY <1>1, <1>2 DEF Inv

(* What every step does to the requests' own state. *)
LEMMA ContinueOK ==
    ASSUME RequestsOK, NEW r \in Requests, NEW step \in Steps, NEW seen \in LocalRow,
           step \in {"notify", "confirm", "fail", "cancel", "advance", "advanceCommit"}
             => seen.order \in OrderIds,
           Continue(r, step, seen)
    PROVE  RequestsOK'
BY DEF Continue, RequestsOK, HoldsOrder

LEMMA FinishOK ==
    ASSUME RequestsOK, NEW r \in Requests, Finish(r)
    PROVE  RequestsOK'
BY NothingReadType DEF Finish, RequestsOK, HoldsOrder, Steps

LEMMA TablesUnchanged ==
    ASSUME TablesOK, CoinsNeverNegative, UNCHANGED db
    PROVE  TablesOK' /\ CoinsNeverNegative'
BY DEF TablesOK, CoinsNeverNegative, db

LEMMA WriteOrderOK ==
    ASSUME TablesOK, NEW o \in OrderIds, NEW status \in Statuses \cup {"NONE"},
           NEW pay \in PaymentStatuses, WriteOrder(o, status, pay)
    PROVE  /\ orders' \in [OrderIds -> OrderRow]
           /\ orders'[o] = [orders[o] EXCEPT !.status = status, !.pay = pay]
           /\ \A p \in OrderIds : p # o => orders'[p] = orders[p]
<1> DEFINE row == [orders[o] EXCEPT !.status = status, !.pay = pay]
<1>1. row \in OrderRow
    <2>1. orders[o] \in OrderRow
        BY DEF TablesOK
    <2>2. ASSUME NEW x \in OrderRow PROVE [x EXCEPT !.status = status, !.pay = pay] \in OrderRow
        BY DEF OrderRow
    <2>3. QED
        BY <2>1, <2>2
<1>2. orders' = [orders EXCEPT ![o] = row]
    BY DEF WriteOrder
<1> HIDE DEF row
<1>3. /\ orders' \in [OrderIds -> OrderRow]
      /\ orders'[o] = row
      /\ \A p \in OrderIds : p # o => orders'[p] = orders[p]
    BY <1>1, <1>2 DEF TablesOK
<1>4. QED
    BY <1>3 DEF row

(* The same, field by field. *)
LEMMA WriteOrderFields ==
    ASSUME TablesOK, NEW o \in OrderIds, NEW status \in Statuses \cup {"NONE"},
           NEW pay \in PaymentStatuses, WriteOrder(o, status, pay)
    PROVE  /\ orders'[o].status = status /\ orders'[o].method = orders[o].method
           /\ orders'[o].total = orders[o].total
           /\ \A p \in OrderIds : p # o => orders'[p] = orders[p]
<1>1. orders[o] \in OrderRow
    BY DEF TablesOK
<1>2. ASSUME NEW x \in OrderRow, NEW y, y = [x EXCEPT !.status = status, !.pay = pay]
      PROVE  y.status = status /\ y.method = x.method /\ y.total = x.total
    BY <1>2 DEF OrderRow
<1>3. orders'[o] = [orders[o] EXCEPT !.status = status, !.pay = pay]
      /\ \A p \in OrderIds : p # o => orders'[p] = orders[p]
    BY WriteOrderOK
<1>4. QED
    BY <1>1, <1>2, <1>3

LEMMA RecordEventOK ==
    ASSUME TablesOK, NEW o \in OrderIds, NEW s \in Statuses, RecordEvent(o, s)
    PROVE  /\ events' \in [OrderIds -> [Statuses -> Nat]]
           /\ lastEvent' \in [OrderIds -> Statuses \cup {"NONE"}]
BY DEF TablesOK, RecordEvent

(* The release of an order: no balance goes below zero, because the           *)
(* conditional decrement matched.                                             *)
LEMMA ReleaseOK ==
    ASSUME TablesOK, CoinsNeverNegative, NEW o \in OrderIds, NEW row \in OrderRow,
           CoinsSuffice(row), Release(o, row)
    PROVE  /\ events' \in [OrderIds -> [Statuses -> Nat]]
           /\ lastEvent' \in [OrderIds -> Statuses \cup {"NONE"}]
           /\ cart' \in [Users -> CartRow]
           /\ couponUsed' \in Nat
           /\ coins' \in [Users -> Int]
           /\ CoinsNeverNegative'
<1>1. row.user \in Users /\ row.coins \in Nat /\ row.coupon \in BOOLEAN
    BY DEF OrderRow
<1>2. /\ events' \in [OrderIds -> [Statuses -> Nat]]
      /\ lastEvent' \in [OrderIds -> Statuses \cup {"NONE"}]
    BY RecordEventOK DEF Release, Statuses
<1>3. cart' \in [Users -> CartRow] /\ couponUsed' \in Nat
    BY <1>1 DEF Release, TablesOK, EmptyCart, CartRow
<1>4. coins' \in [Users -> Int] /\ CoinsNeverNegative'
    BY <1>1 DEF Release, TablesOK, CoinsSuffice, CoinsNeverNegative
<1>5. QED
    BY <1>2, <1>3, <1>4

LEMMA PostOK ==
    ASSUME TablesOK, NEW o \in OrderIds,
           NEW debit \in Nat, NEW refund \in Nat, NEW spend \in Nat, NEW return \in Nat,
           Post(o, debit, refund, spend, return)
    PROVE  books' \in [OrderIds -> BookRow]
BY DEF Post, TablesOK, BookRow

LEMMA SettleOK ==
    ASSUME TablesOK, CoinsNeverNegative, NEW o \in OrderIds, NEW seen \in OrderRow,
           SettleCancellation(o, seen)
    PROVE  /\ wallet' \in [Users -> Int]
           /\ coins' \in [Users -> Int]
           /\ books' \in [OrderIds -> BookRow]
           /\ CoinsNeverNegative'
<1> DEFINE rupees == IF seen.method = "WALLET" /\ seen.pay = "PAID" THEN seen.total ELSE 0
           back == IF seen.status # "PENDING_PAYMENT" THEN seen.coins ELSE 0
<1>1. seen.user \in Users /\ rupees \in Nat /\ back \in Nat
    BY DEF OrderRow
<1>2. /\ wallet' = [wallet EXCEPT ![seen.user] = @ + rupees]
      /\ coins' = [coins EXCEPT ![seen.user] = @ + back]
      /\ Post(o, 0, rupees, 0, back)
    BY DEF SettleCancellation
<1> HIDE DEF rupees, back
<1>3. wallet' \in [Users -> Int] /\ coins' \in [Users -> Int]
    BY <1>1, <1>2 DEF TablesOK
<1>4. books' \in [OrderIds -> BookRow]
    BY <1>1, <1>2, PostOK
<1>5. CoinsNeverNegative'
    BY <1>1, <1>2 DEF TablesOK, CoinsNeverNegative
<1>6. QED
    BY <1>3, <1>4, <1>5

LEMMA CancelOrderOK ==
    ASSUME TablesOK, CoinsNeverNegative, NEW o \in OrderIds, NEW seen \in OrderRow,
           CancelOrder(o, seen), UNCHANGED <<couponUsed, cart, notices>>
    PROVE  TablesOK' /\ CoinsNeverNegative'
<1>1. orders' \in [OrderIds -> OrderRow]
    <2> DEFINE pay == IF seen.pay = "PAID" THEN "REFUNDED" ELSE orders[o].pay
    <2>1. pay \in PaymentStatuses
        BY DEF TablesOK, OrderRow, PaymentStatuses
    <2>2. WriteOrder(o, "CANCELLED", pay)
        BY DEF CancelOrder
    <2> HIDE DEF pay
    <2>3. QED
        BY <2>1, <2>2, WriteOrderOK DEF Statuses
<1>2. /\ events' \in [OrderIds -> [Statuses -> Nat]]
      /\ lastEvent' \in [OrderIds -> Statuses \cup {"NONE"}]
    BY RecordEventOK DEF CancelOrder, Statuses
<1>3. /\ wallet' \in [Users -> Int]
      /\ coins' \in [Users -> Int]
      /\ books' \in [OrderIds -> BookRow]
      /\ CoinsNeverNegative'
    BY SettleOK DEF CancelOrder
<1>4. QED
    BY <1>1, <1>2, <1>3 DEF TablesOK

-----------------------------------------------------------------------------
(* One lemma per group of actions, one step per action. *)

LEMMA PlaceInv ==
    ASSUME Inv, NEW r \in Requests, Place(r)
    PROVE  Inv'
<1> USE DEF Inv, TypeOK
<1>0. local[r] \in LocalRow /\ local[r].row \in OrderRow
    BY DEF RequestsOK, LocalRow
<1>1. CASE PlaceReadItems(r)
    <2>1. PICK u \in Users, m \in PaymentMethods :
            Continue(r, "place", [local[r] EXCEPT !.row = [NoOrder EXCEPT !.user = u, !.method = m]])
        BY <1>1 DEF PlaceReadItems
    <2>2. [local[r] EXCEPT !.row = [NoOrder EXCEPT !.user = u, !.method = m]] \in LocalRow
        BY <1>0, NoOrderIsRow DEF LocalRow, OrderRow
    <2>3. RequestsOK'
        BY <2>1, <2>2, ContinueOK DEF Steps
    <2>4. QED
        BY <1>1, <2>3, TablesUnchanged DEF PlaceReadItems
<1>2. CASE PlaceEvaluate(r)
    <2> DEFINE u == local[r].row.user
               m == local[r].row.method
               coupon == cart[u].coupon /\ CouponValid(u)
               redeemed == Min2(cart[u].coins, Redeemable(u))
               step == IF m = "WALLET" THEN "placeDebit" ELSE "placeCommit"
               row == [user |-> u, method |-> m,
                       status |-> IF IsImmediate(m) THEN "PLACED" ELSE "PENDING_PAYMENT",
                       pay |-> CASE m = "WALLET" -> "PAID"
                                 [] m = "COD" -> "PENDING"
                                 [] OTHER -> "PROCESSING",
                       total |-> PriceOf(coupon, redeemed),
                       coins |-> redeemed, coupon |-> coupon]
    <2>1. u \in Users /\ m \in PaymentMethods
        BY <1>0 DEF OrderRow
    <2>2. coupon \in BOOLEAN
        OBVIOUS
    <2>3. redeemed \in Nat
        BY <2>1, OrdersAssumption DEF TablesOK, CartRow, CoinsNeverNegative, Min2, Redeemable
    <2>4. PriceOf(coupon, redeemed) \in Nat
        BY <2>2, <2>3, PriceIsNat
    <2>5. Continue(r, step, [local[r] EXCEPT !.row = row])
        BY <1>2 DEF PlaceEvaluate
    <2>6. row \in OrderRow
        <3> HIDE DEF u, m, coupon, redeemed
        <3> QED
            BY <2>1, <2>2, <2>3, <2>4 DEF OrderRow, PaymentStatuses, Statuses
    <2>7. [local[r] EXCEPT !.row = row] \in LocalRow /\ step \in Steps
        <3> HIDE DEF row
        <3> QED
            BY <1>0, <2>6 DEF LocalRow, Steps
    <2>8. RequestsOK'
        <3> HIDE DEF row
        <3> QED
            BY <2>5, <2>7, ContinueOK
    <2>9. QED
        BY <1>2, <2>8, TablesUnchanged DEF PlaceEvaluate
<1>3. CASE PlaceDebitCheck(r)
    <2>1. RequestsOK'
        BY <1>0, <1>3, ContinueOK, FinishOK DEF PlaceDebitCheck, Steps
    <2>2. QED
        BY <1>3, <2>1, TablesUnchanged DEF PlaceDebitCheck
<1>4. CASE PlaceCommitImmediate(r)
    <2> DEFINE row == local[r].row
               rupees == IF row.method = "WALLET" THEN row.total ELSE 0
    <2>1. row.user \in Users /\ row.coins \in Nat /\ rupees \in Nat
        BY <1>0 DEF OrderRow
    <2>2. CoinsSuffice(row)
        BY <1>4 DEF PlaceCommitImmediate
    <2>3. PICK o \in OrderIds :
            /\ orders' = [orders EXCEPT ![o] = row]
            /\ wallet' = [wallet EXCEPT ![row.user] = @ - rupees]
            /\ Post(o, rupees, 0, row.coins, 0)
            /\ Release(o, row)
            /\ Continue(r, "notify", [local[r] EXCEPT !.order = o])
        BY <1>4 DEF PlaceCommitImmediate
    <2> HIDE DEF row, rupees
    <2>4. orders' \in [OrderIds -> OrderRow] /\ wallet' \in [Users -> Int]
        BY <1>0, <2>1, <2>3 DEF TablesOK, row
    <2>5. books' \in [OrderIds -> BookRow]
        BY <2>1, <2>3, PostOK
    <2>6. TablesOK' /\ CoinsNeverNegative'
        <3>1. row \in OrderRow
            BY <1>0 DEF row
        <3>2. notices' \in [OrderIds -> Nat]
            BY <1>4 DEF PlaceCommitImmediate, TablesOK
        <3>3. QED
            BY <2>2, <2>3, <2>4, <2>5, <3>1, <3>2, ReleaseOK DEF TablesOK
    <2>7. [local[r] EXCEPT !.order = o] \in LocalRow
          /\ [local[r] EXCEPT !.order = o].order = o
        BY <1>0 DEF LocalRow
    <2>8. RequestsOK'
        BY <2>3, <2>7, ContinueOK DEF Steps
    <2>9. QED
        BY <2>6, <2>8
<1>5. CASE PlaceCommitPending(r)
    <2>1. orders' \in [OrderIds -> OrderRow]
        BY <1>0, <1>5 DEF PlaceCommitPending, TablesOK
    <2>2. TablesOK' /\ CoinsNeverNegative'
        BY <1>5, <2>1 DEF PlaceCommitPending, TablesOK, CoinsNeverNegative
    <2>3. QED
        BY <1>5, <2>2, FinishOK DEF PlaceCommitPending
<1>6. CASE PlaceConflict(r)
    BY <1>6, FinishOK, TablesUnchanged DEF PlaceConflict
<1>7. CASE NotifyKitchen(r)
    <2>1. local[r].order \in OrderIds
        BY <1>7 DEF NotifyKitchen, RequestsOK
    <2>2. TablesOK' /\ CoinsNeverNegative'
        BY <1>7, <2>1 DEF NotifyKitchen, TablesOK, CoinsNeverNegative
    <2>3. QED
        BY <1>7, <2>2, FinishOK DEF NotifyKitchen
<1>8. QED
    BY <1>1, <1>2, <1>3, <1>4, <1>5, <1>6, <1>7, Place(r) DEF Place

(* A read outside the transaction leaves a snapshot of an existing row. *)
LEMMA ReadOrderInv ==
    ASSUME Inv, NEW r \in Requests, NEW o \in OrderIds,
           NEW step \in {"confirm", "fail", "cancel", "advance"}, NEW next \in Statuses,
           ReadOrder(r, o, step, next)
    PROVE  Inv'
<1>1. [order |-> o, row |-> orders[o], next |-> next] \in LocalRow
    BY DEF Inv, TypeOK, TablesOK, LocalRow
<1>2. RequestsOK'
    BY <1>1, ContinueOK DEF ReadOrder, Inv, TypeOK, Steps
<1>3. QED
    BY <1>2, TablesUnchanged DEF ReadOrder, Inv, TypeOK

LEMMA PayInv ==
    ASSUME Inv, NEW r \in Requests, Pay(r)
    PROVE  Inv'
<1> USE DEF Inv, TypeOK
<1> DEFINE o == local[r].order
<1>1. CASE ConfirmRead(r)
    BY <1>1, ReadOrderInv DEF ConfirmRead, Statuses
<1>2. CASE ConfirmCommit(r)
    <2>1. o \in OrderIds /\ local[r] \in LocalRow
        BY <1>2 DEF ConfirmCommit, RequestsOK, HoldsOrder
    <2>2. /\ CoinsSuffice(orders[o])
          /\ WriteOrder(o, "PLACED", "PAID")
          /\ Post(o, 0, 0, orders[o].coins, 0)
          /\ Release(o, orders[o])
          /\ Continue(r, "notify", local[r])
          /\ UNCHANGED <<wallet, notices>>
        BY <1>2 DEF ConfirmCommit
    <2> HIDE DEF o
    <2>3. orders[o] \in OrderRow /\ orders[o].coins \in Nat
        BY <2>1 DEF TablesOK, OrderRow
    <2>4. orders' \in [OrderIds -> OrderRow]
        BY <2>1, <2>2, WriteOrderOK DEF Statuses, PaymentStatuses
    <2>5. books' \in [OrderIds -> BookRow]
        BY <2>1, <2>2, <2>3, PostOK
    <2>6. TablesOK' /\ CoinsNeverNegative'
        <3>1. wallet' \in [Users -> Int] /\ notices' \in [OrderIds -> Nat]
            BY <2>2 DEF TablesOK
        <3>2. QED
            BY <2>1, <2>2, <2>3, <2>4, <2>5, <3>1, ReleaseOK DEF TablesOK
    <2>7. RequestsOK'
        BY <2>1, <2>2, ContinueOK DEF Steps, o
    <2>8. QED
        BY <2>6, <2>7
<1>3. CASE ConfirmConflict(r)
    BY <1>3, FinishOK, TablesUnchanged DEF ConfirmConflict
<1>4. CASE FailRead(r)
    BY <1>4, ReadOrderInv DEF FailRead, Statuses
<1>5. CASE FailCommit(r)
    <2>1. o \in OrderIds
        BY <1>5 DEF FailCommit, RequestsOK, HoldsOrder
    <2>2. WriteOrder(o, orders[o].status, "FAILED") /\ orders[o].status \in Statuses \cup {"NONE"}
        BY <1>5, <2>1 DEF FailCommit, TablesOK, OrderRow
    <2> HIDE DEF o
    <2>3. orders' \in [OrderIds -> OrderRow]
        BY <2>1, <2>2, WriteOrderOK DEF PaymentStatuses
    <2>4. TablesOK' /\ CoinsNeverNegative'
        BY <1>5, <2>3 DEF FailCommit, TablesOK, CoinsNeverNegative
    <2>5. QED
        BY <1>5, <2>4, FinishOK DEF FailCommit
<1>6. QED
    BY <1>1, <1>2, <1>3, <1>4, <1>5, Pay(r) DEF Pay

LEMMA MoveInv ==
    ASSUME Inv, NEW r \in Requests, Move(r)
    PROVE  Inv'
<1> USE DEF Inv, TypeOK
<1> DEFINE o == local[r].order
           next == local[r].next
<1>0. /\ HoldsOrder(r) => o \in OrderIds
      /\ local[r] \in LocalRow /\ local[r].row \in OrderRow /\ next \in Statuses
    BY DEF RequestsOK, LocalRow
<1>1. CASE CancelRead(r)
    BY <1>1, ReadOrderInv DEF CancelRead, Statuses
<1>2. CASE CancelCommit(r)
    BY <1>0, <1>2, CancelOrderOK, FinishOK DEF CancelCommit, HoldsOrder
<1>3. CASE KitchenRead(r)
    BY <1>3, ReadOrderInv DEF KitchenRead, Statuses, KITCHEN_SETTABLE
<1>4. CASE SimulateRead(r)
    BY <1>4, ReadOrderInv, OrdersAssumption DEF SimulateRead, Statuses
<1>5. CASE AdvanceRead(r)
    <2>1. o \in OrderIds
        BY <1>0, <1>5 DEF AdvanceRead, HoldsOrder
    <2>2. [local[r] EXCEPT !.row = orders[o]] \in LocalRow
          /\ [local[r] EXCEPT !.row = orders[o]].order = o
        BY <1>0, <2>1 DEF TablesOK, LocalRow
    <2>3. \/ Continue(r, "advanceCommit", [local[r] EXCEPT !.row = orders[o]])
          \/ Finish(r)
        BY <1>5 DEF AdvanceRead
    <2>4. RequestsOK'
        <3> HIDE DEF o
        <3> QED
            BY <2>1, <2>2, <2>3, ContinueOK, FinishOK DEF Steps
    <2>5. QED
        BY <1>5, <2>4, TablesUnchanged DEF AdvanceRead
<1>6. CASE AdvanceCommit(r)
    <2>1. o \in OrderIds
        BY <1>0, <1>6 DEF AdvanceCommit, HoldsOrder
    <2>2. orders' \in [OrderIds -> OrderRow]
        <3> DEFINE pay == IF next = "DELIVERED" THEN "PAID" ELSE orders[o].pay
        <3>1. pay \in PaymentStatuses
            BY <2>1 DEF TablesOK, OrderRow, PaymentStatuses
        <3>2. WriteOrder(o, next, pay)
            BY <1>6 DEF AdvanceCommit
        <3> HIDE DEF pay, next, o
        <3>3. QED
            BY <1>0, <2>1, <3>1, <3>2, WriteOrderOK
    <2>3. /\ events' \in [OrderIds -> [Statuses -> Nat]]
          /\ lastEvent' \in [OrderIds -> Statuses \cup {"NONE"}]
        BY <1>0, <1>6, <2>1, RecordEventOK DEF AdvanceCommit
    <2>4. TablesOK' /\ CoinsNeverNegative'
        BY <1>6, <2>2, <2>3 DEF AdvanceCommit, TablesOK, CoinsNeverNegative
    <2>5. QED
        BY <1>6, <2>4, FinishOK DEF AdvanceCommit
<1>7. CASE AdvanceCommitCancel(r)
    BY <1>0, <1>7, CancelOrderOK, FinishOK DEF AdvanceCommitCancel, HoldsOrder
<1>8. QED
    BY <1>1, <1>2, <1>3, <1>4, <1>5, <1>6, <1>7, Move(r) DEF Move

LEMMA FillCartInv ==
    ASSUME Inv, NEW u \in Users, FillCart(u)
    PROVE  Inv'
<1> USE DEF Inv, TypeOK
<1>1. Redeemable(u) \in Nat
    BY OrdersAssumption DEF Redeemable, Min2, TablesOK, CoinsNeverNegative
<1>2. cart' \in [Users -> CartRow]
    BY <1>1 DEF FillCart, TablesOK, CartRow
<1>3. TablesOK' /\ CoinsNeverNegative'
    BY <1>2 DEF FillCart, TablesOK, CoinsNeverNegative
<1>4. QED
    BY <1>3 DEF FillCart, RequestsOK, HoldsOrder

LEMMA StepInv == Inv /\ [Next]_vars => Inv'
<1> SUFFICES ASSUME Inv, [Next]_vars PROVE Inv'
    OBVIOUS
<1>1. CASE UNCHANGED vars
    BY <1>1 DEF vars, Inv, TypeOK, TablesOK, RequestsOK, HoldsOrder, CoinsNeverNegative
<1>2. ASSUME NEW r \in Requests, Abort(r) PROVE Inv'
    BY <1>2, FinishOK, TablesUnchanged DEF Abort, Inv, TypeOK
<1>3. QED
    BY <1>1, <1>2, FillCartInv, PlaceInv, PayInv, MoveInv DEF Next

(* Every column of every table keeps its type, whatever the requests do. *)
THEOREM TypeCorrect == Spec => []TypeOK
<1>1. Inv => TypeOK
    BY DEF Inv
<1>2. QED
    BY <1>1, InitInv, StepInv, PTL DEF Spec

(* No interleaving takes a coin balance below zero, although every order was  *)
(* priced with a balance read earlier: debitCoins checks it again in the same *)
(* statement that decrements it.                                              *)
THEOREM CoinsStayNonNegative == Spec => []CoinsNeverNegative
<1>1. Inv => CoinsNeverNegative
    BY DEF Inv
<1>2. QED
    BY <1>1, InitInv, StepInv, PTL DEF Spec

-----------------------------------------------------------------------------
(* The tracking events and the wallet debits.  What they rest on: the status  *)
(* of a row about to be created is the one its payment method asks for, a     *)
(* request that read an order read one that exists, and no transition leads   *)
(* back to PENDING_PAYMENT.                                                   *)

Drafts ==
    \A r \in Requests :
        pc[r] \in {"placeDebit", "placeCommit"} =>
            local[r].row.status =
                IF IsImmediate(local[r].row.method) THEN "PLACED" ELSE "PENDING_PAYMENT"

Known == \A r \in Requests : HoldsOrder(r) => orders[local[r].order].status # "NONE"

Forward == \A r \in Requests : pc[r] = "advanceCommit" => local[r].next # "PENDING_PAYMENT"

Unborn == \A o \in OrderIds : orders[o].status = "NONE" => orders[o].method # "WALLET"

Shape == Drafts /\ Known /\ Forward /\ Unborn /\ TrackingMatchesStatus /\ WalletOrdersPaidUpFront

LEMMA InitShape == Init => Shape
BY DEF Init, Shape, Drafts, Known, Forward, Unborn, TrackingMatchesStatus,
       WalletOrdersPaidUpFront, NoOrder, HoldsOrder

LEMMA ContinueMoves ==
    ASSUME RequestsOK, NEW r \in Requests, NEW step, NEW seen, Continue(r, step, seen)
    PROVE  /\ pc'[r] = step /\ local'[r] = seen
           /\ \A q \in Requests : q # r => pc'[q] = pc[q] /\ local'[q] = local[q]
BY DEF Continue, RequestsOK

LEMMA FinishMoves ==
    ASSUME RequestsOK, NEW r \in Requests, Finish(r)
    PROVE  /\ pc'[r] = "done"
           /\ \A q \in Requests : q # r => pc'[q] = pc[q] /\ local'[q] = local[q]
BY DEF Finish, RequestsOK

(* A step that only reads: what is left to show is about request r. *)
LEMMA ReadShape ==
    ASSUME Inv, Shape, NEW r \in Requests, UNCHANGED db,
           \A q \in Requests : q # r => pc'[q] = pc[q] /\ local'[q] = local[q],
           pc'[r] \in {"placeDebit", "placeCommit"} =>
               local'[r].row.status =
                   IF IsImmediate(local'[r].row.method) THEN "PLACED" ELSE "PENDING_PAYMENT",
           HoldsOrder(r)' => orders[local'[r].order].status # "NONE",
           pc'[r] = "advanceCommit" => local'[r].next # "PENDING_PAYMENT"
    PROVE  Shape'
<1>1. Drafts'
    BY DEF Shape, Drafts
<1>2. Known' /\ Forward'
    BY DEF Shape, Known, Forward, HoldsOrder, db
<1>3. Unborn' /\ TrackingMatchesStatus' /\ WalletOrdersPaidUpFront'
    BY DEF Shape, Unborn, TrackingMatchesStatus, WalletOrdersPaidUpFront, db
<1>4. QED
    BY <1>1, <1>2, <1>3 DEF Shape

(* A commit that writes order o's status and the event that goes with it, and *)
(* ends the request or sends it to notify.                                    *)
LEMMA WriteShape ==
    ASSUME Inv, Shape, NEW r \in Requests, NEW o \in OrderIds,
           orders[o].status # "NONE", NEW s \in Statuses, s # "PENDING_PAYMENT",
           \A p \in OrderIds : p # o => orders'[p] = orders[p],
           orders'[o].status = s, orders'[o].method = orders[o].method,
           orders'[o].total = orders[o].total,
           RecordEvent(o, s),
           \A p \in OrderIds : books'[p].debited = books[p].debited,
           \A q \in Requests : q # r => pc'[q] = pc[q] /\ local'[q] = local[q],
           pc'[r] \in {"notify", "done"}
    PROVE  Shape'
<1>1. Drafts' /\ Forward'
    BY DEF Shape, Drafts, Forward
<1>2. Known'
    BY DEF Shape, Known, HoldsOrder, Inv, TypeOK, RequestsOK, Statuses
<1>3. Unborn' /\ WalletOrdersPaidUpFront'
    BY DEF Shape, Unborn, WalletOrdersPaidUpFront, Statuses
<1>4. TrackingMatchesStatus'
    BY DEF Shape, TrackingMatchesStatus, RecordEvent, Inv, TypeOK, TablesOK
<1>5. QED
    BY <1>1, <1>2, <1>3, <1>4 DEF Shape

LEMMA PostDebits ==
    ASSUME TablesOK, NEW o \in OrderIds, NEW refund, NEW spend, NEW return,
           NEW debit \in Nat, Post(o, debit, refund, spend, return)
    PROVE  /\ books'[o].debited = books[o].debited + debit
           /\ \A p \in OrderIds : p # o => books'[p] = books[p]
BY DEF Post, TablesOK, BookRow

(* A cancellation, whoever makes it. *)
LEMMA CancelShape ==
    ASSUME Inv, Shape, NEW r \in Requests, HoldsOrder(r),
           CancelOrder(local[r].order, local[r].row), Finish(r)
    PROVE  Shape'
<1> DEFINE o == local[r].order
<1>1. o \in OrderIds /\ orders[o].status # "NONE"
    BY DEF Inv, TypeOK, RequestsOK, Shape, Known
<1>2. /\ \A p \in OrderIds : p # o => orders'[p] = orders[p]
      /\ orders'[o].status = "CANCELLED"
      /\ orders'[o].method = orders[o].method /\ orders'[o].total = orders[o].total
    <2> DEFINE seen == local[r].row
               pay == IF seen.pay = "PAID" THEN "REFUNDED" ELSE orders[o].pay
    <2>1. WriteOrder(o, "CANCELLED", pay)
        BY DEF CancelOrder
    <2>2. orders[o] \in OrderRow /\ pay \in PaymentStatuses
        BY <1>1 DEF Inv, TypeOK, TablesOK, OrderRow, PaymentStatuses
    <2> HIDE DEF o, pay
    <2>3. TablesOK /\ "CANCELLED" \in Statuses \cup {"NONE"}
        BY DEF Inv, TypeOK, Statuses
    <2>4. QED
        BY ONLY <1>1, <2>1, <2>2, <2>3, WriteOrderFields
<1>3. \A p \in OrderIds : books'[p].debited = books[p].debited
    <2>1. PICK rupees, back : Post(o, 0, rupees, 0, back)
        BY DEF CancelOrder, SettleCancellation
    <2>2. \A p \in OrderIds : books[p].debited \in Nat
        BY DEF Inv, TypeOK, TablesOK, BookRow
    <2>3. QED
        BY <1>1, <2>1, <2>2, PostDebits DEF Inv, TypeOK
<1>4. RecordEvent(o, "CANCELLED")
    BY DEF CancelOrder
<1>5. /\ \A q \in Requests : q # r => pc'[q] = pc[q] /\ local'[q] = local[q]
      /\ pc'[r] \in {"notify", "done"}
    BY FinishMoves DEF Inv, TypeOK
<1> HIDE DEF o
<1>6. QED
    BY <1>1, <1>2, <1>3, <1>4, <1>5, WriteShape DEF Statuses
(* A cash or wallet order is created with its debit and its PLACED event. *)
LEMMA PlaceImmediateShape ==
    ASSUME Inv, Shape, NEW r \in Requests, PlaceCommitImmediate(r)
    PROVE  Shape'
<1> DEFINE row == local[r].row
           rupees == IF row.method = "WALLET" THEN row.total ELSE 0
<1>1. PICK o \in OrderIds :
        /\ orders[o].status = "NONE"
        /\ orders' = [orders EXCEPT ![o] = row]
        /\ Post(o, rupees, 0, row.coins, 0)
        /\ Release(o, row)
        /\ Continue(r, "notify", [local[r] EXCEPT !.order = o])
    BY DEF PlaceCommitImmediate
<1>2. row \in OrderRow /\ rupees \in Nat /\ row.status = "PLACED"
    BY DEF Inv, TypeOK, RequestsOK, LocalRow, OrderRow, Shape, Drafts, PlaceCommitImmediate
<1>3. /\ pc'[r] = "notify"
      /\ \A q \in Requests : q # r => pc'[q] = pc[q] /\ local'[q] = local[q]
    BY <1>1, ContinueMoves DEF Inv, TypeOK
<1>4. books'[o].debited = rupees /\ \A p \in OrderIds : p # o => books'[p] = books[p]
    <2>1. books[o].debited = 0
        BY <1>1 DEF Shape, Unborn, WalletOrdersPaidUpFront
    <2> HIDE DEF rupees, row
    <2>2. QED
        BY <1>1, <1>2, <2>1, PostDebits DEF Inv, TypeOK
<1> HIDE DEF row
<1>5. orders'[o] = row /\ \A p \in OrderIds : p # o => orders'[p] = orders[p]
    BY <1>1 DEF Inv, TypeOK, TablesOK
<1>6. Drafts' /\ Forward'
    BY <1>3 DEF Shape, Drafts, Forward
<1>7. Known'
    BY <1>1, <1>2, <1>3, <1>5 DEF Shape, Known, HoldsOrder, Inv, TypeOK, RequestsOK
<1>8. Unborn' /\ WalletOrdersPaidUpFront'
    BY <1>2, <1>4, <1>5 DEF Shape, Unborn, WalletOrdersPaidUpFront
<1>9. TrackingMatchesStatus'
    BY <1>1, <1>2, <1>5 DEF Shape, TrackingMatchesStatus, Release, RecordEvent, Inv, TypeOK, TablesOK
<1>10. QED
    BY <1>6, <1>7, <1>8, <1>9 DEF Shape

(* A gateway order is created waiting, with neither event nor debit. *)
LEMMA PlacePendingShape ==
    ASSUME Inv, Shape, NEW r \in Requests, PlaceCommitPending(r)
    PROVE  Shape'
<1> DEFINE row == local[r].row
<1>1. PICK o \in OrderIds :
        orders[o].status = "NONE" /\ orders' = [orders EXCEPT ![o] = row]
    BY DEF PlaceCommitPending
<1>2. row \in OrderRow /\ row.status = "PENDING_PAYMENT" /\ row.method # "WALLET"
    BY DEF Inv, TypeOK, RequestsOK, LocalRow, Shape, Drafts, PlaceCommitPending, IsImmediate
<1>3. /\ pc'[r] = "done"
      /\ \A q \in Requests : q # r => pc'[q] = pc[q] /\ local'[q] = local[q]
    BY FinishMoves DEF Inv, TypeOK, PlaceCommitPending
<1> HIDE DEF row
<1>4. orders'[o] = row /\ \A p \in OrderIds : p # o => orders'[p] = orders[p]
    BY <1>1 DEF Inv, TypeOK, TablesOK
<1>5. Drafts' /\ Forward'
    BY <1>3 DEF Shape, Drafts, Forward
<1>6. Known'
    BY <1>1, <1>2, <1>3, <1>4 DEF Shape, Known, HoldsOrder, Inv, TypeOK, RequestsOK
<1>7. Unborn' /\ WalletOrdersPaidUpFront' /\ TrackingMatchesStatus'
    BY <1>1, <1>2, <1>4
    DEF Shape, Unborn, WalletOrdersPaidUpFront, TrackingMatchesStatus, PlaceCommitPending
<1>8. QED
    BY <1>5, <1>6, <1>7 DEF Shape

LEMMA PlaceShape ==
    ASSUME Inv, Shape, NEW r \in Requests, Place(r)
    PROVE  Shape'
<1> USE DEF Inv, TypeOK
<1>1. CASE PlaceReadItems(r)
    BY <1>1, ReadShape, ContinueMoves DEF PlaceReadItems, HoldsOrder
<1>2. CASE PlaceEvaluate(r)
    <2> DEFINE m == local[r].row.method
               step == IF m = "WALLET" THEN "placeDebit" ELSE "placeCommit"
    <2>1. PICK total, redeemed, coupon :
            Continue(r, step, [local[r] EXCEPT !.row =
                [user |-> local[r].row.user, method |-> m,
                 status |-> IF IsImmediate(m) THEN "PLACED" ELSE "PENDING_PAYMENT",
                 pay |-> CASE m = "WALLET" -> "PAID"
                           [] m = "COD" -> "PENDING"
                           [] OTHER -> "PROCESSING",
                 total |-> total, coins |-> redeemed, coupon |-> coupon]])
        BY <1>2 DEF PlaceEvaluate
    <2>2. local[r] \in LocalRow
        BY DEF RequestsOK
    <2>3. /\ pc'[r] = step /\ local'[r].row.method = m
          /\ local'[r].row.status = IF IsImmediate(m) THEN "PLACED" ELSE "PENDING_PAYMENT"
        BY <2>1, <2>2, ContinueMoves DEF LocalRow
    <2>4. \A q \in Requests : q # r => pc'[q] = pc[q] /\ local'[q] = local[q]
        BY <2>1, ContinueMoves
    <2>5. UNCHANGED db
        BY <1>2 DEF PlaceEvaluate
    <2>6. QED
        BY <2>3, <2>4, <2>5, ReadShape DEF HoldsOrder
<1>3. CASE PlaceDebitCheck(r)
    BY <1>3, ReadShape, ContinueMoves, FinishMoves
    DEF PlaceDebitCheck, HoldsOrder, Shape, Drafts
<1>4. CASE PlaceCommitImmediate(r)
    BY <1>4, PlaceImmediateShape
<1>5. CASE PlaceCommitPending(r)
    BY <1>5, PlacePendingShape
<1>6. CASE PlaceConflict(r)
    BY <1>6, ReadShape, FinishMoves DEF PlaceConflict, HoldsOrder
<1>7. CASE NotifyKitchen(r)
    <2>1. /\ pc'[r] = "done"
          /\ \A q \in Requests : q # r => pc'[q] = pc[q] /\ local'[q] = local[q]
        BY <1>7, FinishMoves DEF NotifyKitchen
    <2>2. Drafts' /\ Forward' /\ Known'
        BY <1>7, <2>1 DEF NotifyKitchen, Shape, Drafts, Forward, Known, HoldsOrder
    <2>3. Unborn' /\ WalletOrdersPaidUpFront' /\ TrackingMatchesStatus'
        BY <1>7 DEF NotifyKitchen, Shape, Unborn, WalletOrdersPaidUpFront, TrackingMatchesStatus
    <2>4. QED
        BY <2>2, <2>3 DEF Shape
<1>8. QED
    BY <1>1, <1>2, <1>3, <1>4, <1>5, <1>6, <1>7, Place(r) DEF Place

LEMMA ReadOrderShape ==
    ASSUME Inv, Shape, NEW r \in Requests, NEW o \in OrderIds, NEW next,
           NEW step \in {"confirm", "fail", "cancel", "advance"},
           orders[o].status # "NONE", ReadOrder(r, o, step, next)
    PROVE  Shape'
<1>1. /\ pc'[r] = step /\ local'[r].order = o
      /\ \A q \in Requests : q # r => pc'[q] = pc[q] /\ local'[q] = local[q]
    BY ContinueMoves DEF ReadOrder, Inv, TypeOK
<1>2. QED
    BY <1>1, ReadShape DEF ReadOrder
LEMMA PayShape ==
    ASSUME Inv, Shape, NEW r \in Requests, Pay(r)
    PROVE  Shape'
<1> USE DEF Inv, TypeOK
<1> DEFINE o == local[r].order
<1>0. HoldsOrder(r) => o \in OrderIds /\ orders[o].status # "NONE" /\ orders[o] \in OrderRow
    BY DEF RequestsOK, Shape, Known, TablesOK
<1>1. CASE ConfirmRead(r)
    BY <1>1, ReadOrderShape DEF ConfirmRead
<1>2. CASE ConfirmCommit(r)
    <2>1. /\ WriteOrder(o, "PLACED", "PAID")
          /\ Post(o, 0, 0, orders[o].coins, 0)
          /\ RecordEvent(o, "PLACED")
          /\ Continue(r, "notify", local[r])
        BY <1>2 DEF ConfirmCommit, Release
    <2>2. o \in OrderIds /\ orders[o].status # "NONE" /\ orders[o] \in OrderRow
        BY <1>0, <1>2 DEF ConfirmCommit, HoldsOrder
    <2>3. /\ pc'[r] = "notify"
          /\ \A q \in Requests : q # r => pc'[q] = pc[q] /\ local'[q] = local[q]
        BY <2>1, ContinueMoves
    <2> HIDE DEF o
    <2>4. /\ orders'[o].status = "PLACED" /\ orders'[o].method = orders[o].method
          /\ orders'[o].total = orders[o].total
          /\ \A p \in OrderIds : p # o => orders'[p] = orders[p]
        <3>1. TablesOK /\ "PLACED" \in Statuses \cup {"NONE"} /\ "PAID" \in PaymentStatuses
            BY DEF Statuses, PaymentStatuses
        <3>2. QED
            BY ONLY <2>1, <2>2, <3>1, WriteOrderFields
    <2>5. \A p \in OrderIds : books'[p].debited = books[p].debited
        <3>1. \A p \in OrderIds : books[p].debited \in Nat
            BY DEF TablesOK, BookRow
        <3>2. QED
            BY <2>1, <2>2, <3>1, PostDebits
    <2>6. QED
        BY <2>1, <2>2, <2>3, <2>4, <2>5, WriteShape DEF Statuses
<1>3. CASE ConfirmConflict(r)
    BY <1>3, ReadShape, FinishMoves DEF ConfirmConflict, HoldsOrder
<1>4. CASE FailRead(r)
    BY <1>4, ReadOrderShape DEF FailRead
<1>5. CASE FailCommit(r)
    <2>1. o \in OrderIds /\ orders[o] \in OrderRow /\ WriteOrder(o, orders[o].status, "FAILED")
        BY <1>0, <1>5 DEF FailCommit, HoldsOrder
    <2>2. /\ pc'[r] = "done"
          /\ \A q \in Requests : q # r => pc'[q] = pc[q] /\ local'[q] = local[q]
        BY <1>5, FinishMoves DEF FailCommit
    <2> HIDE DEF o
    <2>3. \A p \in OrderIds : /\ orders'[p].status = orders[p].status
                              /\ orders'[p].method = orders[p].method
                              /\ orders'[p].total = orders[p].total
        <3>1. TablesOK /\ orders[o].status \in Statuses \cup {"NONE"} /\ "FAILED" \in PaymentStatuses
            BY <2>1 DEF OrderRow, PaymentStatuses
        <3>2. /\ orders'[o].status = orders[o].status /\ orders'[o].method = orders[o].method
              /\ orders'[o].total = orders[o].total
              /\ \A p \in OrderIds : p # o => orders'[p] = orders[p]
            BY ONLY <2>1, <3>1, WriteOrderFields
        <3>3. QED
            BY <3>2
    <2>4. Drafts' /\ Forward' /\ Known'
        BY <2>2, <2>3 DEF Shape, Drafts, Forward, Known, HoldsOrder, RequestsOK
    <2>5. Unborn' /\ WalletOrdersPaidUpFront' /\ TrackingMatchesStatus'
        BY <1>5, <2>3
        DEF FailCommit, Shape, Unborn, WalletOrdersPaidUpFront, TrackingMatchesStatus
    <2>6. QED
        BY <2>4, <2>5 DEF Shape
<1>6. QED
    BY <1>1, <1>2, <1>3, <1>4, <1>5, Pay(r) DEF Pay

(* PENDING_PAYMENT is no one's successor, and nothing follows from "NONE". *)
LEMMA NoWayBack ==
    ASSUME NEW s \in Statuses, "PENDING_PAYMENT" \in ALLOWED_TRANSITIONS[s]
    PROVE  FALSE
BY SMTT(30) DEF ALLOWED_TRANSITIONS, Statuses

LEMMA MoveShape ==
    ASSUME Inv, Shape, NEW r \in Requests, Move(r)
    PROVE  Shape'
<1> USE DEF Inv, TypeOK
<1> DEFINE o == local[r].order
           next == local[r].next
<1>0. /\ HoldsOrder(r) => o \in OrderIds /\ orders[o].status # "NONE" /\ orders[o] \in OrderRow
      /\ next \in Statuses /\ local[r] \in LocalRow
    BY DEF RequestsOK, LocalRow, Shape, Known, TablesOK
<1>1. CASE CancelRead(r)
    <2>1. PICK p \in OrderIds :
            orders[p].status \in CUSTOMER_CANCELLABLE /\ ReadOrder(r, p, "cancel", "CANCELLED")
        BY <1>1 DEF CancelRead
    <2>2. orders[p].status # "NONE"
        BY <2>1 DEF CUSTOMER_CANCELLABLE
    <2>3. QED
        BY <2>1, <2>2, ReadOrderShape
<1>2. CASE CancelCommit(r)
    BY <1>2, CancelShape DEF CancelCommit, HoldsOrder
<1>3. CASE KitchenRead(r)
    BY <1>3, ReadOrderShape DEF KitchenRead
<1>4. CASE SimulateRead(r)
    BY <1>4, ReadOrderShape DEF SimulateRead
<1>5. CASE AdvanceRead(r)
    <2>1. o \in OrderIds /\ orders[o].status \in Statuses /\ orders[o].status # "NONE"
        BY <1>0, <1>5 DEF AdvanceRead, HoldsOrder, OrderRow
    <2>2. CASE next \in ALLOWED_TRANSITIONS[orders[o].status]
        <3>1. Continue(r, "advanceCommit", [local[r] EXCEPT !.row = orders[o]])
            BY <1>5, <2>2 DEF AdvanceRead
        <3>2. next # "PENDING_PAYMENT"
            BY <2>1, <2>2, NoWayBack
        <3>3. /\ pc'[r] = "advanceCommit" /\ local'[r].next = next /\ local'[r].order = o
              /\ \A q \in Requests : q # r => pc'[q] = pc[q] /\ local'[q] = local[q]
            BY <1>0, <3>1, ContinueMoves DEF LocalRow
        <3>4. QED
            BY <1>5, <2>1, <3>2, <3>3, ReadShape DEF AdvanceRead
    <2>3. CASE next \notin ALLOWED_TRANSITIONS[orders[o].status]
        <3>1. Finish(r) /\ UNCHANGED db
            BY <1>5, <2>3 DEF AdvanceRead
        <3>2. QED
            BY <3>1, FinishMoves, ReadShape DEF HoldsOrder
    <2>4. QED
        BY <2>2, <2>3
<1>6. CASE AdvanceCommit(r)
    <2> DEFINE pay == IF next = "DELIVERED" THEN "PAID" ELSE orders[o].pay
    <2>1. o \in OrderIds /\ orders[o].status # "NONE" /\ orders[o] \in OrderRow
        BY <1>0, <1>6 DEF AdvanceCommit, HoldsOrder
    <2>2. next # "PENDING_PAYMENT"
        BY <1>6 DEF AdvanceCommit, Shape, Forward
    <2>3. pay \in PaymentStatuses
        BY <2>1 DEF OrderRow, PaymentStatuses
    <2>4. WriteOrder(o, next, pay) /\ RecordEvent(o, next) /\ Finish(r) /\ UNCHANGED books
        BY <1>6 DEF AdvanceCommit
    <2> HIDE DEF o, next, pay
    <2>5. TablesOK /\ next \in Statuses \cup {"NONE"}
        BY <1>0
    <2>6. /\ orders'[o].status = next /\ orders'[o].method = orders[o].method
          /\ orders'[o].total = orders[o].total
          /\ \A p \in OrderIds : p # o => orders'[p] = orders[p]
        BY ONLY <2>1, <2>3, <2>4, <2>5, WriteOrderFields
    <2>7. QED
        BY <1>0, <2>1, <2>2, <2>4, <2>6, FinishMoves, WriteShape
<1>7. CASE AdvanceCommitCancel(r)
    BY <1>7, CancelShape DEF AdvanceCommitCancel, HoldsOrder
<1>8. QED
    BY <1>1, <1>2, <1>3, <1>4, <1>5, <1>6, <1>7, Move(r) DEF Move

LEMMA StepShape == Inv /\ Shape /\ [Next]_vars => Shape'
<1> SUFFICES ASSUME Inv, Shape, [Next]_vars PROVE Shape'
    OBVIOUS
<1>1. CASE UNCHANGED vars
    BY <1>1 DEF vars, Shape, Drafts, Known, Forward, Unborn, TrackingMatchesStatus,
                WalletOrdersPaidUpFront, HoldsOrder
<1>2. ASSUME NEW u \in Users, FillCart(u) PROVE Shape'
    BY <1>2 DEF FillCart, Shape, Drafts, Known, Forward, Unborn, TrackingMatchesStatus,
                WalletOrdersPaidUpFront, HoldsOrder
<1>3. ASSUME NEW r \in Requests, Abort(r) PROVE Shape'
    BY <1>3, FinishMoves, ReadShape DEF Abort, HoldsOrder, Inv, TypeOK
<1>4. QED
    BY <1>1, <1>2, <1>3, PlaceShape, PayShape, MoveShape DEF Next

(* The customer's tracking screen and the order card never disagree: in every *)
(* interleaving the newest tracking event is the order's status.              *)
THEOREM TrackingAgrees == Spec => []TrackingMatchesStatus
<1>1. Inv /\ Shape => TrackingMatchesStatus
    BY DEF Shape
<1>2. QED
    BY <1>1, InitInv, StepInv, InitShape, StepShape, PTL DEF Spec

(* A wallet order exists only together with one debit of its whole price, and *)
(* is never left waiting for a gateway that will not call.                    *)
THEOREM WalletOrdersArePaid == Spec => []WalletOrdersPaidUpFront
<1>1. Inv /\ Shape => WalletOrdersPaidUpFront
    BY DEF Shape
<1>2. QED
    BY <1>1, InitInv, StepInv, InitShape, StepShape, PTL DEF Spec

-----------------------------------------------------------------------------
(* What the helpers of the commits write, field by field *)

LEMMA WriteOrderAll ==
    ASSUME TablesOK, NEW o \in OrderIds, NEW status \in Statuses \cup {"NONE"},
           NEW pay \in PaymentStatuses, WriteOrder(o, status, pay)
    PROVE  /\ orders'[o].status = status /\ orders'[o].pay = pay
           /\ orders'[o].user = orders[o].user /\ orders'[o].method = orders[o].method
           /\ orders'[o].coupon = orders[o].coupon
           /\ orders'[o].total = orders[o].total /\ orders'[o].coins = orders[o].coins
           /\ \A p \in OrderIds : p # o => orders'[p] = orders[p]
<1>1. orders[o] \in OrderRow
    BY DEF TablesOK
<1>2. ASSUME NEW x \in OrderRow, NEW y, y = [x EXCEPT !.status = status, !.pay = pay]
      PROVE  /\ y.status = status /\ y.pay = pay /\ y.user = x.user
             /\ y.method = x.method /\ y.coupon = x.coupon
             /\ y.total = x.total /\ y.coins = x.coins
    BY <1>2 DEF OrderRow
<1>3. orders'[o] = [orders[o] EXCEPT !.status = status, !.pay = pay]
      /\ \A p \in OrderIds : p # o => orders'[p] = orders[p]
    BY WriteOrderOK
<1>4. QED
    BY <1>1, <1>2, <1>3

LEMMA PostFields ==
    ASSUME TablesOK, NEW o \in OrderIds, NEW debit \in Nat, NEW refund \in Nat,
           NEW spend \in Nat, NEW return \in Nat, Post(o, debit, refund, spend, return)
    PROVE  /\ books'[o].debited = books[o].debited + debit
           /\ books'[o].refunded = books[o].refunded + refund
           /\ books'[o].spent = books[o].spent + spend
           /\ books'[o].returned = books[o].returned + return
           /\ \A p \in OrderIds : p # o => books'[p] = books[p]
BY DEF Post, TablesOK, BookRow

LEMMA EventFields ==
    ASSUME TablesOK, NEW o \in OrderIds, NEW s \in Statuses, RecordEvent(o, s)
    PROVE  /\ events'[o][s] = events[o][s] + 1
           /\ \A t \in Statuses \ {s} : events'[o][t] = events[o][t]
           /\ \A p \in OrderIds : p # o => events'[p] = events[p]
BY DEF RecordEvent, TablesOK

-----------------------------------------------------------------------------
(* What an order changes outside its own row.  It rests on this: an order that  *)
(* is not created yet has no event and no ledger row, a cancellation pays back  *)
(* the customer whose order it is, only the simulator sends an order to PLACED, *)
(* and every request on its way to notify the kitchen has released its order.   *)

Blank ==
    \A o \in OrderIds : orders[o].status = "NONE" =>
        /\ events[o]["PLACED"] = 0
        /\ books[o] = [debited |-> 0, refunded |-> 0, spent |-> 0, returned |-> 0]

Owned ==
    \A r \in Requests : pc[r] \in {"cancel", "advanceCommit"} =>
        local[r].row.user = orders[local[r].order].user

NotPlacing == \A r \in Requests : pc[r] \in {"advance", "advanceCommit"} => local[r].next # "PLACED"

Telling(o) == {r \in Requests : pc[r] = "notify" /\ local[r].order = o}

Notified ==
    \A o \in OrderIds :
        IsFiniteSet(Telling(o)) /\ notices[o] + Cardinality(Telling(o)) <= events[o]["PLACED"]

Effects == Blank /\ Owned /\ NotPlacing /\ Notified /\ CouponUsesCounted /\ BalancesMatchLedgers

EffectsInv == Inv /\ Shape /\ Effects

(* A step changes what order o adds to the coupon's count by k, and what it     *)
(* adds to the rupees and the coins of customer v by x and by y.               *)
Changes(o, v, x, y, k) ==
    /\ CouponUses(o)' = CouponUses(o) + k
    /\ \A u \in Users :
          /\ RupeesOf(o, u)' = RupeesOf(o, u) + (IF u = v THEN x ELSE 0)
          /\ CoinsOf(o, u)' = CoinsOf(o, u) + (IF u = v THEN y ELSE 0)

Books(v, x, y, k) ==
    /\ couponUsed' = couponUsed + k
    /\ \A u \in Users :
          /\ wallet'[u] = wallet[u] + (IF u = v THEN x ELSE 0)
          /\ coins'[u] = coins[u] + (IF u = v THEN y ELSE 0)

LEMMA EntriesAreInts ==
    ASSUME TablesOK, NEW o \in OrderIds
    PROVE  CouponUses(o) \in Int /\ \A u : RupeesOf(o, u) \in Int /\ CoinsOf(o, u) \in Int
<1>1. /\ events[o]["PLACED"] \in Int
      /\ books[o].refunded \in Int /\ books[o].debited \in Int
      /\ books[o].returned \in Int /\ books[o].spent \in Int
    BY DEF TablesOK, Statuses, BookRow
<1>2. QED
    BY <1>1 DEF CouponUses, RupeesOf, CoinsOf

LEMMA TotalMoves ==
    ASSUME OrdersAssumption, NEW f \in [OrderIds -> Int], NEW g \in [OrderIds -> Int],
           NEW o \in OrderIds, NEW d \in Int,
           \A p \in OrderIds \ {o} : g[p] = f[p], g[o] = f[o] + d
    PROVE  SumFunction(f) \in Int /\ SumFunction(g) = SumFunction(f) + d
<1>1. IsFiniteSet(OrderIds)
    BY DEF OrdersAssumption
<1>2. SumFunctionOnSet(g, OrderIds) = SumFunctionOnSet(f, OrderIds) + g[o] - f[o]
    BY <1>1, SumChange
<1>3. SumFunctionOnSet(f, OrderIds) \in Int
    BY <1>1, SumType
<1>4. SumFunction(f) = SumFunctionOnSet(f, OrderIds) /\ SumFunction(g) = SumFunctionOnSet(g, OrderIds)
    BY DEF SumFunction
<1>5. f[o] \in Int
    OBVIOUS
<1> HIDE DEF SumFunction
<1>6. QED
    BY <1>2, <1>3, <1>4, <1>5

(* One order's entries change, and the totals with them. *)
LEMMA TotalsFollow ==
    ASSUME OrdersAssumption, TablesOK, CouponUsesCounted, BalancesMatchLedgers,
           NEW o \in OrderIds, NEW v, NEW x \in Int, NEW y \in Int, NEW k \in Int,
           Changes(o, v, x, y, k), Books(v, x, y, k),
           \A p \in OrderIds \ {o} : Changes(p, v, 0, 0, 0)
    PROVE  CouponUsesCounted' /\ BalancesMatchLedgers'
<1>1. CouponUsesCounted'
  <2> DEFINE f == [p \in OrderIds |-> CouponUses(p)]
             g == [p \in OrderIds |-> CouponUses(p)']
  <2>1. f \in [OrderIds -> Int]
    BY EntriesAreInts
  <2>2. (\A p \in OrderIds \ {o} : g[p] = f[p]) /\ g[o] = f[o] + k
    BY EntriesAreInts DEF Changes
  <2>3. g \in [OrderIds -> Int]
    <3>1. \A p \in OrderIds : g[p] \in Int
      BY <2>1, <2>2
    <3>2. QED
      BY <3>1
  <2>4. couponUsed = SumFunction(f) /\ (CouponUsesCounted' <=> couponUsed' = SumFunction(g))
    BY DEF CouponUsesCounted
  <2> HIDE DEF f, g
  <2>5. SumFunction(g) = SumFunction(f) + k
    BY <2>1, <2>2, <2>3, TotalMoves
  <2>6. QED
    BY <2>4, <2>5 DEF Books
<1>2. ASSUME NEW u \in Users
      PROVE  (wallet[u] = InitialWallet + SumFunction([p \in OrderIds |-> RupeesOf(p, u)]))'
  <2> DEFINE f == [p \in OrderIds |-> RupeesOf(p, u)]
             g == [p \in OrderIds |-> RupeesOf(p, u)']
             d == IF u = v THEN x ELSE 0
  <2>1. f \in [OrderIds -> Int] /\ d \in Int /\ InitialWallet \in Int
    BY EntriesAreInts DEF OrdersAssumption
  <2>2. (\A p \in OrderIds \ {o} : g[p] = f[p]) /\ g[o] = f[o] + d
    BY EntriesAreInts DEF Changes
  <2>3. g \in [OrderIds -> Int]
    <3> HIDE DEF d
    <3>1. \A p \in OrderIds : g[p] \in Int
      BY <2>1, <2>2
    <3>2. QED
      BY <3>1
  <2>4. wallet[u] = InitialWallet + SumFunction(f)
    BY DEF BalancesMatchLedgers
  <2>5. wallet'[u] = wallet[u] + d
    BY DEF Books
  <2> HIDE DEF f, g, d
  <2>6. SumFunction(f) \in Int /\ SumFunction(g) = SumFunction(f) + d
    BY <2>1, <2>2, <2>3, TotalMoves
  <2>7. wallet'[u] = InitialWallet + SumFunction(g)
    BY <2>1, <2>4, <2>5, <2>6
  <2>8. QED
    BY <2>7 DEF g
<1>3. ASSUME NEW u \in Users
      PROVE  (coins[u] = InitialCoins + SumFunction([p \in OrderIds |-> CoinsOf(p, u)]))'
  <2> DEFINE f == [p \in OrderIds |-> CoinsOf(p, u)]
             g == [p \in OrderIds |-> CoinsOf(p, u)']
             d == IF u = v THEN y ELSE 0
  <2>1. f \in [OrderIds -> Int] /\ d \in Int /\ InitialCoins \in Int
    BY EntriesAreInts DEF OrdersAssumption
  <2>2. (\A p \in OrderIds \ {o} : g[p] = f[p]) /\ g[o] = f[o] + d
    BY EntriesAreInts DEF Changes
  <2>3. g \in [OrderIds -> Int]
    <3> HIDE DEF d
    <3>1. \A p \in OrderIds : g[p] \in Int
      BY <2>1, <2>2
    <3>2. QED
      BY <3>1
  <2>4. coins[u] = InitialCoins + SumFunction(f)
    BY DEF BalancesMatchLedgers
  <2>5. coins'[u] = coins[u] + d
    BY DEF Books
  <2> HIDE DEF f, g, d
  <2>6. SumFunction(f) \in Int /\ SumFunction(g) = SumFunction(f) + d
    BY <2>1, <2>2, <2>3, TotalMoves
  <2>7. coins'[u] = InitialCoins + SumFunction(g)
    BY <2>1, <2>4, <2>5, <2>6
  <2>8. QED
    BY <2>7 DEF g
<1>4. BalancesMatchLedgers'
    BY <1>2, <1>3 DEF BalancesMatchLedgers
<1>5. QED
    BY <1>1, <1>4

(* No order's entries change, and no total does. *)
LEMMA TotalsStay ==
    ASSUME TablesOK, CouponUsesCounted, BalancesMatchLedgers, UNCHANGED <<couponUsed, wallet, coins>>,
           NEW v, \A p \in OrderIds : Changes(p, v, 0, 0, 0)
    PROVE  CouponUsesCounted' /\ BalancesMatchLedgers'
<1>1. \A p \in OrderIds : CouponUses(p)' = CouponUses(p)
    BY EntriesAreInts DEF Changes
<1>2. \A p \in OrderIds, u \in Users : RupeesOf(p, u)' = RupeesOf(p, u) /\ CoinsOf(p, u)' = CoinsOf(p, u)
  <2> SUFFICES ASSUME NEW p \in OrderIds, NEW u \in Users
               PROVE  RupeesOf(p, u)' = RupeesOf(p, u) /\ CoinsOf(p, u)' = CoinsOf(p, u)
    OBVIOUS
  <2>1. RupeesOf(p, u) \in Int /\ CoinsOf(p, u) \in Int
    BY EntriesAreInts
  <2>2. /\ RupeesOf(p, u)' = RupeesOf(p, u) + (IF u = v THEN 0 ELSE 0)
        /\ CoinsOf(p, u)' = CoinsOf(p, u) + (IF u = v THEN 0 ELSE 0)
    BY DEF Changes
  <2>3. QED
    BY <2>1, <2>2
<1>3. [p \in OrderIds |-> CouponUses(p)'] = [p \in OrderIds |-> CouponUses(p)]
    BY <1>1
<1>4. \A u \in Users :
         /\ [p \in OrderIds |-> RupeesOf(p, u)'] = [p \in OrderIds |-> RupeesOf(p, u)]
         /\ [p \in OrderIds |-> CoinsOf(p, u)'] = [p \in OrderIds |-> CoinsOf(p, u)]
    BY <1>2
<1>5. QED
    BY <1>3, <1>4 DEF CouponUsesCounted, BalancesMatchLedgers

-----------------------------------------------------------------------------
(* The rows and the requests a step leaves as they are *)

SameOrder(o) ==
    /\ orders'[o].user = orders[o].user /\ orders'[o].coupon = orders[o].coupon
    /\ orders'[o].status = "NONE" <=> orders[o].status = "NONE"
    /\ events'[o]["PLACED"] = events[o]["PLACED"]
    /\ books'[o] = books[o]

Rest(r) == \A q \in Requests \ {r} : pc'[q] = pc[q] /\ local'[q] = local[q]

LEMMA SameChangesNothing ==
    ASSUME TablesOK, NEW o \in OrderIds, SameOrder(o), NEW v
    PROVE  Changes(o, v, 0, 0, 0)
<1>1. CouponUses(o)' = CouponUses(o)
    BY DEF SameOrder, CouponUses
<1>2. \A u : RupeesOf(o, u)' = RupeesOf(o, u) /\ CoinsOf(o, u)' = CoinsOf(o, u)
    BY DEF SameOrder, RupeesOf, CoinsOf, IsOf
<1>3. CouponUses(o) \in Int /\ \A u : RupeesOf(o, u) \in Int /\ CoinsOf(o, u) \in Int
    BY EntriesAreInts
<1>4. QED
    BY <1>1, <1>2, <1>3 DEF Changes

LEMMA OthersRest ==
    ASSUME RequestsOK, NEW r \in Requests, Place(r) \/ Pay(r) \/ Move(r) \/ Abort(r)
    PROVE  Rest(r)
<1>1. (\E step, seen : Continue(r, step, seen)) \/ Finish(r)
    BY DEF Place, Pay, Move, Abort, PlaceReadItems, PlaceEvaluate, PlaceDebitCheck, PlaceCommitImmediate,
           PlaceCommitPending, PlaceConflict, NotifyKitchen, ConfirmRead, ConfirmCommit, ConfirmConflict, FailRead,
           FailCommit, CancelRead, CancelCommit, KitchenRead, SimulateRead, AdvanceRead, AdvanceCommit,
           AdvanceCommitCancel, ReadOrder
<1>2. QED
    BY <1>1, ContinueMoves, FinishMoves DEF Rest

-----------------------------------------------------------------------------
(* Notices: those written, and those on their way *)

LEMMA TellingSame ==
    ASSUME NEW r \in Requests, Rest(r), NEW o,
           (pc'[r] = "notify" /\ local'[r].order = o) <=> (pc[r] = "notify" /\ local[r].order = o)
    PROVE  Telling(o)' = Telling(o)
BY DEF Telling, Rest

LEMMA NotifiedSame ==
    ASSUME Notified, NEW r \in Requests, Rest(r), pc[r] # "notify", pc'[r] # "notify", UNCHANGED notices,
           \A o \in OrderIds : events'[o]["PLACED"] = events[o]["PLACED"]
    PROVE  Notified'
<1>1. \A o \in OrderIds : Telling(o)' = Telling(o)
    BY TellingSame
<1>2. QED
    BY <1>1 DEF Notified

LEMMA NotifiedRelease ==
    ASSUME TablesOK, Notified, NEW r \in Requests, Rest(r), NEW o \in OrderIds,
           pc[r] # "notify", pc'[r] = "notify", local'[r].order = o, UNCHANGED notices,
           events'[o]["PLACED"] = events[o]["PLACED"] + 1,
           \A p \in OrderIds \ {o} : events'[p]["PLACED"] = events[p]["PLACED"]
    PROVE  Notified'
<1>1. \A p \in OrderIds \ {o} : Telling(p)' = Telling(p)
    BY TellingSame
<1>2. Telling(o)' = Telling(o) \cup {r} /\ r \notin Telling(o)
    BY DEF Telling, Rest
<1>3. IsFiniteSet(Telling(o)) /\ notices[o] + Cardinality(Telling(o)) <= events[o]["PLACED"]
    BY DEF Notified
<1>4. /\ IsFiniteSet(Telling(o) \cup {r}) /\ Cardinality(Telling(o) \cup {r}) = Cardinality(Telling(o)) + 1
      /\ Cardinality(Telling(o)) \in Nat
    BY <1>2, <1>3, FS_AddElement, FS_CardinalityType
<1>5. notices[o] \in Nat /\ events[o]["PLACED"] \in Nat
    BY DEF TablesOK, Statuses
<1>6. IsFiniteSet(Telling(o)') /\ notices'[o] + Cardinality(Telling(o)') <= events'[o]["PLACED"]
    BY <1>2, <1>3, <1>4, <1>5
<1>7. QED
    BY <1>1, <1>6 DEF Notified

LEMMA NotifiedLeaves ==
    ASSUME TablesOK, Notified, NEW r \in Requests, Rest(r), NEW o \in OrderIds,
           pc[r] = "notify", local[r].order = o, pc'[r] # "notify",
           notices'[o] \in {notices[o], notices[o] + 1}, \A p \in OrderIds \ {o} : notices'[p] = notices[p],
           \A p \in OrderIds : events'[p]["PLACED"] = events[p]["PLACED"]
    PROVE  Notified'
<1>1. \A p \in OrderIds \ {o} : Telling(p)' = Telling(p)
    BY TellingSame
<1>2. Telling(o)' = Telling(o) \ {r} /\ r \in Telling(o)
    BY DEF Telling, Rest
<1>3. IsFiniteSet(Telling(o)) /\ notices[o] + Cardinality(Telling(o)) <= events[o]["PLACED"]
    BY DEF Notified
<1>4. /\ IsFiniteSet(Telling(o) \ {r}) /\ Cardinality(Telling(o) \ {r}) = Cardinality(Telling(o)) - 1
      /\ Cardinality(Telling(o)) \in Nat
    BY <1>2, <1>3, FS_RemoveElement, FS_CardinalityType
<1>5. notices[o] \in Nat /\ events[o]["PLACED"] \in Nat
    BY DEF TablesOK, Statuses
<1>6. IsFiniteSet(Telling(o)') /\ notices'[o] + Cardinality(Telling(o)') <= events'[o]["PLACED"]
    BY <1>2, <1>3, <1>4, <1>5
<1>7. QED
    BY <1>1, <1>6 DEF Notified

-----------------------------------------------------------------------------
(* What is left to show of a step that leaves every order's entries as they are, *)
(* and of one that changes those of one order.                                 *)

OwnedBy(r) == pc[r] \in {"cancel", "advanceCommit"} => local[r].row.user = orders[local[r].order].user

NotPlacingBy(r) == pc[r] \in {"advance", "advanceCommit"} => local[r].next # "PLACED"

LEMMA OthersOwned ==
    ASSUME EffectsInv, NEW r \in Requests, Rest(r), OwnedBy(r)', NotPlacingBy(r)',
           \A o \in OrderIds : orders[o].status # "NONE" => orders'[o].user = orders[o].user
    PROVE  Owned' /\ NotPlacing'
<1>1. ASSUME NEW q \in Requests, q # r PROVE OwnedBy(q)' /\ NotPlacingBy(q)'
  <2>1. pc'[q] = pc[q] /\ local'[q] = local[q]
    BY <1>1 DEF Rest
  <2>2. OwnedBy(q) /\ NotPlacingBy(q)
    BY DEF EffectsInv, Effects, Owned, NotPlacing, OwnedBy, NotPlacingBy
  <2>3. HoldsOrder(q) => local[q].order \in OrderIds /\ orders[local[q].order].status # "NONE"
    BY DEF EffectsInv, Inv, TypeOK, RequestsOK, Shape, Known
  <2>4. QED
    BY <2>1, <2>2, <2>3 DEF OwnedBy, NotPlacingBy, HoldsOrder
<1>2. QED
    BY <1>1 DEF Owned, NotPlacing, OwnedBy, NotPlacingBy

LEMMA QuietEffects ==
    ASSUME OrdersAssumption, EffectsInv, NEW r \in Requests, Rest(r), OwnedBy(r)', NotPlacingBy(r)', Notified',
           UNCHANGED <<couponUsed, wallet, coins>>, \A o \in OrderIds : SameOrder(o)
    PROVE  Effects'
<1>1. TablesOK /\ Effects
    BY DEF EffectsInv, Inv, TypeOK
<1>2. CouponUsesCounted' /\ BalancesMatchLedgers'
  <2>1. \A o \in OrderIds : Changes(o, 0, 0, 0, 0)
    BY <1>1, SameChangesNothing
  <2>2. QED
    BY <1>1, <2>1, TotalsStay DEF Effects
<1>3. Blank'
    BY <1>1 DEF Effects, Blank, SameOrder
<1>4. Owned' /\ NotPlacing'
    BY OthersOwned DEF SameOrder
<1>5. QED
    BY <1>2, <1>3, <1>4 DEF Effects

LEMMA CommitEffects ==
    ASSUME OrdersAssumption, EffectsInv, NEW r \in Requests, Rest(r), pc'[r] \in {"notify", "done"}, Notified',
           NEW o \in OrderIds, \A p \in OrderIds \ {o} : SameOrder(p),
           orders[o].status # "NONE" => orders'[o].user = orders[o].user,
           orders'[o].status # "NONE",
           NEW v, NEW x \in Int, NEW y \in Int, NEW k \in Int, Changes(o, v, x, y, k), Books(v, x, y, k)
    PROVE  Effects'
<1>1. TablesOK /\ Effects
    BY DEF EffectsInv, Inv, TypeOK
<1>2. CouponUsesCounted' /\ BalancesMatchLedgers'
  <2>1. \A p \in OrderIds \ {o} : Changes(p, v, 0, 0, 0)
    BY <1>1, SameChangesNothing
  <2>2. QED
    BY <1>1, <2>1, TotalsFollow DEF Effects
<1>3. Blank'
    BY <1>1 DEF Effects, Blank, SameOrder
<1>4. Owned' /\ NotPlacing'
  <2>1. OwnedBy(r)' /\ NotPlacingBy(r)'
    BY DEF OwnedBy, NotPlacingBy
  <2>2. QED
    BY <2>1, OthersOwned DEF SameOrder
<1>5. QED
    BY <1>2, <1>3, <1>4 DEF Effects

-----------------------------------------------------------------------------
(* One lemma per group of actions *)

LEMMA PlaceImmediateEffects ==
    ASSUME OrdersAssumption, EffectsInv, NEW r \in Requests, PlaceCommitImmediate(r)
    PROVE  Effects'
<1> DEFINE row == local[r].row
           rupees == IF row.method = "WALLET" THEN row.total ELSE 0
           k == IF row.coupon THEN 1 ELSE 0
<1>0. /\ TablesOK /\ RequestsOK /\ Effects /\ row \in OrderRow /\ row.status = "PLACED"
      /\ pc[r] = "placeCommit" /\ UNCHANGED notices
    BY DEF EffectsInv, Inv, TypeOK, RequestsOK, LocalRow, Shape, Drafts, PlaceCommitImmediate
<1>1. PICK o \in OrderIds :
        /\ orders[o].status = "NONE"
        /\ orders' = [orders EXCEPT ![o] = row]
        /\ wallet' = [wallet EXCEPT ![row.user] = @ - rupees]
        /\ Post(o, rupees, 0, row.coins, 0)
        /\ Release(o, row)
        /\ Continue(r, "notify", [local[r] EXCEPT !.order = o])
    BY DEF PlaceCommitImmediate
<1>2. row.user \in Users /\ row.coins \in Nat /\ row.coupon \in BOOLEAN /\ rupees \in Nat
    BY <1>0 DEF OrderRow
<1>3. /\ pc'[r] = "notify" /\ local'[r].order = o /\ Rest(r)
    <2>1. local[r] \in LocalRow
        BY <1>0 DEF RequestsOK
    <2>2. [local[r] EXCEPT !.order = o].order = o
        BY <2>1 DEF LocalRow
    <2>3. pc'[r] = "notify" /\ local'[r] = [local[r] EXCEPT !.order = o] /\ Rest(r)
        BY <1>0, <1>1, ContinueMoves DEF Rest
    <2>4. QED
        BY <2>2, <2>3
<1>4. events[o]["PLACED"] = 0 /\ books[o].debited = 0 /\ books[o].refunded = 0 /\ books[o].spent = 0 /\ books[o].returned = 0
    BY <1>0, <1>1 DEF Effects, Blank
<1> HIDE DEF row, rupees
<1>5. orders'[o] = row /\ \A p \in OrderIds \ {o} : orders'[p] = orders[p]
    BY <1>0, <1>1 DEF TablesOK
<1>6. /\ books'[o].debited = rupees /\ books'[o].refunded = 0 /\ books'[o].spent = row.coins /\ books'[o].returned = 0
      /\ \A p \in OrderIds \ {o} : books'[p] = books[p]
    BY <1>0, <1>1, <1>2, <1>4, PostFields
<1>7. events'[o]["PLACED"] = 1 /\ \A p \in OrderIds \ {o} : events'[p] = events[p]
    BY <1>0, <1>1, <1>4, EventFields DEF Release, Statuses
<1>8. \A p \in OrderIds \ {o} : SameOrder(p)
    BY <1>5, <1>6, <1>7 DEF SameOrder
<1>9. k \in Int /\ -rupees \in Int /\ -row.coins \in Int
    BY <1>2
<1>10. Changes(o, row.user, -rupees, -row.coins, k)
    <2>1. CouponUses(o) = 0 /\ CouponUses(o)' = k
        BY <1>4, <1>5, <1>7 DEF CouponUses
    <2>2. \A u : RupeesOf(o, u) = 0 /\ CoinsOf(o, u) = 0
        BY <1>1 DEF RupeesOf, CoinsOf, IsOf
    <2>3. \A u : /\ RupeesOf(o, u)' = IF u = row.user THEN 0 - rupees ELSE 0
                 /\ CoinsOf(o, u)' = IF u = row.user THEN 0 - row.coins ELSE 0
        BY <1>0, <1>5, <1>6 DEF RupeesOf, CoinsOf, IsOf
    <2> HIDE DEF k
    <2>4. QED
        BY <1>2, <1>9, <2>1, <2>2, <2>3 DEF Changes
<1>11. Books(row.user, -rupees, -row.coins, k)
    <2>1. couponUsed' = couponUsed + k /\ coins' = [coins EXCEPT ![row.user] = @ - row.coins]
        BY <1>1 DEF Release
    <2>2. \A u \in Users : wallet[u] \in Int /\ coins[u] \in Int
        BY <1>0 DEF TablesOK
    <2> HIDE DEF k
    <2>3. QED
        BY <1>0, <1>1, <1>2, <2>1, <2>2 DEF Books, TablesOK
<1>12. Notified'
    BY <1>0, <1>3, <1>4, <1>7, NotifiedRelease DEF Effects
<1> HIDE DEF k
<1>13. QED
    BY <1>0, <1>1, <1>3, <1>5, <1>8, <1>9, <1>10, <1>11, <1>12, CommitEffects

LEMMA ConfirmEffects ==
    ASSUME OrdersAssumption, EffectsInv, NEW r \in Requests, ConfirmCommit(r)
    PROVE  Effects'
<1>a. PICK o : o = local[r].order
    OBVIOUS
<1>b. PICK row : row = orders[o]
    OBVIOUS
<1> DEFINE k == IF row.coupon THEN 1 ELSE 0
<1>0. /\ TablesOK /\ RequestsOK /\ Effects /\ o \in OrderIds /\ row.status # "NONE"
      /\ pc[r] = "confirm" /\ UNCHANGED <<notices, wallet>>
    BY <1>a, <1>b DEF EffectsInv, Inv, TypeOK, RequestsOK, Shape, Known, HoldsOrder, ConfirmCommit
<1>1. /\ WriteOrder(o, "PLACED", "PAID")
      /\ Post(o, 0, 0, row.coins, 0)
      /\ Release(o, row)
      /\ Continue(r, "notify", local[r])
    BY <1>a, <1>b DEF ConfirmCommit
<1>2. row.user \in Users /\ row.coins \in Nat /\ row.coupon \in BOOLEAN
    BY <1>0, <1>b DEF TablesOK, OrderRow
<1>3. pc'[r] = "notify" /\ local'[r].order = o /\ Rest(r)
    BY <1>0, <1>1, <1>a, ContinueMoves DEF Rest
<1>4. /\ books[o].debited \in Int /\ books[o].refunded \in Int /\ books[o].spent \in Int
      /\ books[o].returned \in Int /\ events[o]["PLACED"] \in Int
    BY <1>0 DEF TablesOK, BookRow, Statuses
<1>5. /\ orders'[o].status = "PLACED" /\ orders'[o].user = row.user /\ orders'[o].coupon = row.coupon
      /\ \A p \in OrderIds \ {o} : orders'[p] = orders[p]
    BY <1>0, <1>1, <1>b, WriteOrderAll DEF Statuses, PaymentStatuses
<1>6. /\ books'[o].debited = books[o].debited /\ books'[o].refunded = books[o].refunded
      /\ books'[o].spent = books[o].spent + row.coins /\ books'[o].returned = books[o].returned
      /\ \A p \in OrderIds \ {o} : books'[p] = books[p]
    BY <1>0, <1>1, <1>2, <1>4, PostFields
<1>7. events'[o]["PLACED"] = events[o]["PLACED"] + 1 /\ \A p \in OrderIds \ {o} : events'[p] = events[p]
    BY <1>0, <1>1, EventFields DEF Release, Statuses
<1>8. \A p \in OrderIds \ {o} : SameOrder(p)
    BY <1>5, <1>6, <1>7 DEF SameOrder
<1>9. k \in Int /\ -row.coins \in Int
    BY <1>2
<1>10. Changes(o, row.user, 0, -row.coins, k)
    <2>1. CouponUses(o)' = CouponUses(o) + k
        BY <1>4, <1>5, <1>7, <1>b DEF CouponUses
    <2>2. \A u : /\ RupeesOf(o, u)' = RupeesOf(o, u)
                 /\ CoinsOf(o, u)' = IF u = row.user THEN CoinsOf(o, u) - row.coins ELSE CoinsOf(o, u)
        BY <1>0, <1>2, <1>4, <1>5, <1>6, <1>b DEF RupeesOf, CoinsOf, IsOf
    <2>3. \A u : RupeesOf(o, u) \in Int /\ CoinsOf(o, u) \in Int
        BY <1>0, EntriesAreInts
    <2> HIDE DEF k
    <2>4. QED
        BY <1>2, <2>1, <2>2, <2>3 DEF Changes
<1>11. Books(row.user, 0, -row.coins, k)
    <2>1. couponUsed' = couponUsed + k /\ coins' = [coins EXCEPT ![row.user] = @ - row.coins]
        BY <1>1 DEF Release
    <2>2. \A u \in Users : wallet[u] \in Int /\ coins[u] \in Int
        BY <1>0 DEF TablesOK
    <2> HIDE DEF k
    <2>3. QED
        BY <1>0, <1>2, <2>1, <2>2 DEF Books, TablesOK
<1>12. Notified'
    BY <1>0, <1>3, <1>7, NotifiedRelease DEF Effects
<1>13. orders'[o].user = orders[o].user /\ orders'[o].status # "NONE"
    BY <1>5, <1>b
<1> HIDE DEF k
<1>14. QED
    BY <1>0, <1>3, <1>8, <1>9, <1>10, <1>11, <1>12, <1>13, CommitEffects

LEMMA CancelEffects ==
    ASSUME OrdersAssumption, EffectsInv, NEW r \in Requests, pc[r] \in {"cancel", "advanceCommit"},
           CancelOrder(local[r].order, local[r].row), Finish(r), UNCHANGED <<couponUsed, notices>>
    PROVE  Effects'
<1>a. PICK o : o = local[r].order
    OBVIOUS
<1>b. PICK seen : seen = local[r].row
    OBVIOUS
<1> DEFINE pay == IF seen.pay = "PAID" THEN "REFUNDED" ELSE orders[o].pay
           rupees == IF seen.method = "WALLET" /\ seen.pay = "PAID" THEN seen.total ELSE 0
           back == IF seen.status # "PENDING_PAYMENT" THEN seen.coins ELSE 0
<1>0. /\ TablesOK /\ RequestsOK /\ Effects /\ o \in OrderIds /\ orders[o].status # "NONE" /\ seen \in OrderRow
    BY <1>a, <1>b DEF EffectsInv, Inv, TypeOK, RequestsOK, Shape, Known, HoldsOrder, LocalRow
<1>1. /\ WriteOrder(o, "CANCELLED", pay) /\ RecordEvent(o, "CANCELLED")
      /\ wallet' = [wallet EXCEPT ![seen.user] = @ + rupees]
      /\ coins' = [coins EXCEPT ![seen.user] = @ + back]
      /\ Post(o, 0, rupees, 0, back)
    BY <1>a, <1>b DEF CancelOrder, SettleCancellation
<1>2. seen.user \in Users /\ rupees \in Nat /\ back \in Nat /\ pay \in PaymentStatuses
    BY <1>0 DEF OrderRow, TablesOK, PaymentStatuses
<1>3. seen.user = orders[o].user
    BY <1>0, <1>a, <1>b DEF Effects, Owned
<1>4. pc'[r] = "done" /\ Rest(r)
    BY <1>0, FinishMoves DEF Rest
<1> HIDE DEF pay, rupees, back
<1>5. /\ books[o].debited \in Int /\ books[o].refunded \in Int /\ books[o].spent \in Int /\ books[o].returned \in Int
    BY <1>0 DEF TablesOK, BookRow
<1>6. /\ orders'[o].status = "CANCELLED" /\ orders'[o].user = orders[o].user /\ orders'[o].coupon = orders[o].coupon
      /\ \A p \in OrderIds \ {o} : orders'[p] = orders[p]
    BY <1>0, <1>1, <1>2, WriteOrderAll DEF Statuses
<1>7. /\ books'[o].debited = books[o].debited /\ books'[o].refunded = books[o].refunded + rupees
      /\ books'[o].spent = books[o].spent /\ books'[o].returned = books[o].returned + back
      /\ \A p \in OrderIds \ {o} : books'[p] = books[p]
    BY <1>0, <1>1, <1>2, <1>5, PostFields
<1>8. /\ events'[o]["PLACED"] = events[o]["PLACED"] /\ \A p \in OrderIds \ {o} : events'[p] = events[p]
    BY <1>0, <1>1, EventFields DEF Statuses
<1>9. \A p \in OrderIds \ {o} : SameOrder(p)
    BY <1>6, <1>7, <1>8 DEF SameOrder
<1>10. Changes(o, seen.user, rupees, back, 0)
    <2>1. CouponUses(o)' = CouponUses(o)
        BY <1>6, <1>8 DEF CouponUses
    <2>2. \A u : /\ RupeesOf(o, u)' = IF u = seen.user THEN RupeesOf(o, u) + rupees ELSE RupeesOf(o, u)
                 /\ CoinsOf(o, u)' = IF u = seen.user THEN CoinsOf(o, u) + back ELSE CoinsOf(o, u)
        BY <1>0, <1>2, <1>3, <1>5, <1>6, <1>7 DEF RupeesOf, CoinsOf, IsOf
    <2>3. CouponUses(o) \in Int /\ \A u : RupeesOf(o, u) \in Int /\ CoinsOf(o, u) \in Int
        BY <1>0, EntriesAreInts
    <2>4. QED
        BY <1>2, <2>1, <2>2, <2>3 DEF Changes
<1>11. Books(seen.user, rupees, back, 0)
    <2>1. couponUsed \in Int /\ \A u \in Users : wallet[u] \in Int /\ coins[u] \in Int
        BY <1>0 DEF TablesOK
    <2>2. QED
        BY <1>0, <1>1, <1>2, <2>1 DEF Books, TablesOK
<1>12. Notified'
    <2>1. \A p \in OrderIds : events'[p]["PLACED"] = events[p]["PLACED"]
        BY <1>8
    <2>2. QED
        BY <1>0, <1>4, <2>1, NotifiedSame DEF Effects
<1>13. QED
    BY <1>0, <1>2, <1>4, <1>6, <1>9, <1>10, <1>11, <1>12, CommitEffects

(* A commit that changes only an order's status or its payment. *)
LEMMA WriteEffects ==
    ASSUME OrdersAssumption, EffectsInv, NEW r \in Requests, HoldsOrder(r), Finish(r),
           NEW status \in Statuses, NEW pay \in PaymentStatuses, WriteOrder(local[r].order, status, pay),
           UNCHANGED <<wallet, coins, books, couponUsed, notices>>,
           \A p \in OrderIds : events'[p]["PLACED"] = events[p]["PLACED"]
    PROVE  Effects'
<1> DEFINE o == local[r].order
<1>0. /\ TablesOK /\ RequestsOK /\ Effects /\ o \in OrderIds /\ orders[o].status # "NONE"
    BY DEF EffectsInv, Inv, TypeOK, RequestsOK, Shape, Known
<1>1. pc'[r] = "done" /\ Rest(r)
    BY <1>0, FinishMoves DEF Rest
<1>2. /\ orders'[o].status = status /\ orders'[o].user = orders[o].user /\ orders'[o].coupon = orders[o].coupon
      /\ \A p \in OrderIds : p # o => orders'[p] = orders[p]
    BY <1>0, WriteOrderAll
<1>3. \A p \in OrderIds : SameOrder(p)
    BY <1>0, <1>2 DEF SameOrder, Statuses
<1>4. OwnedBy(r)' /\ NotPlacingBy(r)'
    BY <1>1 DEF OwnedBy, NotPlacingBy
<1>5. Notified'
    BY <1>0, <1>1, NotifiedSame DEF Effects, HoldsOrder
<1>6. QED
    BY <1>1, <1>3, <1>4, <1>5, QuietEffects

(* A step that only reads. *)
LEMMA ReadEffects ==
    ASSUME OrdersAssumption, EffectsInv, NEW r \in Requests, UNCHANGED db, Rest(r),
           OwnedBy(r)', NotPlacingBy(r)', pc[r] # "notify", pc'[r] # "notify"
    PROVE  Effects'
<1>1. /\ \A o \in OrderIds : SameOrder(o)
      /\ UNCHANGED <<couponUsed, wallet, coins, notices>>
      /\ \A o \in OrderIds : events'[o]["PLACED"] = events[o]["PLACED"]
    BY DEF SameOrder, db
<1>2. Notified'
    BY <1>1, NotifiedSame DEF EffectsInv, Effects
<1>3. QED
    BY <1>1, <1>2, QuietEffects

(* A gateway order is created waiting, and changes nothing yet. *)
LEMMA PlacePendingEffects ==
    ASSUME OrdersAssumption, EffectsInv, NEW r \in Requests, PlaceCommitPending(r)
    PROVE  Effects'
<1> DEFINE row == local[r].row
<1>0. /\ TablesOK /\ RequestsOK /\ Effects /\ row \in OrderRow /\ row.status = "PENDING_PAYMENT"
      /\ pc[r] = "placeCommit" /\ UNCHANGED <<events, wallet, coins, books, couponUsed, notices>>
    BY DEF EffectsInv, Inv, TypeOK, RequestsOK, LocalRow, Shape, Drafts, PlaceCommitPending
<1>1. PICK o \in OrderIds : orders[o].status = "NONE" /\ orders' = [orders EXCEPT ![o] = row]
    BY DEF PlaceCommitPending
<1>2. pc'[r] = "done" /\ Rest(r)
    BY <1>0, FinishMoves DEF Rest, PlaceCommitPending
<1>3. events[o]["PLACED"] = 0 /\ books[o].debited = 0 /\ books[o].refunded = 0 /\ books[o].spent = 0 /\ books[o].returned = 0
    BY <1>0, <1>1 DEF Effects, Blank
<1> HIDE DEF row
<1>4. orders'[o] = row /\ \A p \in OrderIds \ {o} : orders'[p] = orders[p]
    BY <1>0, <1>1 DEF TablesOK
<1>5. \A p \in OrderIds \ {o} : SameOrder(p)
    BY <1>0, <1>4 DEF SameOrder
<1>6. Changes(o, row.user, 0, 0, 0)
    <2>1. CouponUses(o) = 0 /\ CouponUses(o)' = 0
        BY <1>0, <1>3, <1>4 DEF CouponUses
    <2>2. \A u : RupeesOf(o, u) = 0 /\ CoinsOf(o, u) = 0
        BY <1>1 DEF RupeesOf, CoinsOf, IsOf
    <2>3. \A u : RupeesOf(o, u)' = 0 /\ CoinsOf(o, u)' = 0
        BY <1>0, <1>3, <1>4 DEF RupeesOf, CoinsOf, IsOf
    <2>4. QED
        BY <2>1, <2>2, <2>3 DEF Changes
<1>7. Books(row.user, 0, 0, 0)
    <2>1. couponUsed \in Int /\ \A u \in Users : wallet[u] \in Int /\ coins[u] \in Int
        BY <1>0 DEF TablesOK
    <2>2. QED
        BY <1>0, <2>1 DEF Books
<1>8. Notified'
    BY <1>0, <1>2, NotifiedSame DEF Effects
<1>9. QED
    BY <1>0, <1>1, <1>2, <1>4, <1>5, <1>6, <1>7, <1>8, CommitEffects

LEMMA PlaceEffects ==
    ASSUME OrdersAssumption, EffectsInv, NEW r \in Requests, Place(r)
    PROVE  Effects'
<1>0. RequestsOK /\ Rest(r)
    BY OthersRest DEF EffectsInv, Inv, TypeOK
<1>1. CASE \E step, seen : step \in {"place", "placeDebit", "placeCommit"} /\ Continue(r, step, seen)
           /\ UNCHANGED db /\ pc[r] # "notify"
  <2>1. pc'[r] \in {"place", "placeDebit", "placeCommit"}
    BY <1>0, <1>1, ContinueMoves
  <2>2. QED
    BY <1>0, <1>1, <2>1, ReadEffects DEF OwnedBy, NotPlacingBy
<1>2. CASE Finish(r) /\ UNCHANGED db /\ pc[r] # "notify"
  <2>1. pc'[r] = "done"
    BY <1>0, <1>2, FinishMoves
  <2>2. QED
    BY <1>0, <1>2, <2>1, ReadEffects DEF OwnedBy, NotPlacingBy
<1>3. CASE NotifyKitchen(r)
  <2>1. /\ pc[r] = "notify" /\ pc'[r] = "done" /\ local[r].order \in OrderIds
        /\ notices' = [notices EXCEPT ![local[r].order] = @ + 1]
        /\ UNCHANGED <<orders, events, wallet, coins, books, couponUsed>>
        /\ TablesOK /\ Effects
    BY <1>0, <1>3, FinishMoves DEF NotifyKitchen, RequestsOK, EffectsInv, Inv, TypeOK
  <2>2. Notified'
    BY <1>0, <2>1, NotifiedLeaves DEF TablesOK, Effects
  <2>3. \A o \in OrderIds : SameOrder(o)
    BY <2>1 DEF SameOrder
  <2>4. QED
    BY <1>0, <2>1, <2>2, <2>3, QuietEffects DEF OwnedBy, NotPlacingBy
<1>4. QED
    BY <1>1, <1>2, <1>3, PlaceImmediateEffects, PlacePendingEffects
    DEF Place, PlaceReadItems, PlaceEvaluate, PlaceDebitCheck, PlaceConflict

LEMMA ReadOrderEffects ==
    ASSUME OrdersAssumption, EffectsInv, NEW r \in Requests, NEW o \in OrderIds, NEW next,
           NEW step \in {"confirm", "fail", "cancel", "advance"}, step = "advance" => next # "PLACED",
           ReadOrder(r, o, step, next), Rest(r)
    PROVE  Effects'
<1>1. /\ pc[r] # "notify" /\ pc'[r] = step /\ local'[r] = [order |-> o, row |-> orders[o], next |-> next]
      /\ UNCHANGED db
    BY ContinueMoves DEF ReadOrder, EffectsInv, Inv, TypeOK
<1>2. OwnedBy(r)' /\ NotPlacingBy(r)'
    BY <1>1 DEF OwnedBy, NotPlacingBy, db
<1>3. QED
    BY <1>1, <1>2, ReadEffects

LEMMA PayEffects ==
    ASSUME OrdersAssumption, EffectsInv, NEW r \in Requests, Pay(r)
    PROVE  Effects'
<1>0. RequestsOK /\ Rest(r)
    BY OthersRest DEF EffectsInv, Inv, TypeOK
<1>1. CASE ConfirmRead(r)
    BY <1>0, <1>1, ReadOrderEffects DEF ConfirmRead
<1>2. CASE ConfirmCommit(r)
    BY <1>2, ConfirmEffects
<1>3. CASE ConfirmConflict(r)
  <2>1. pc'[r] = "done" /\ pc[r] # "notify"
    BY <1>0, <1>3, FinishMoves DEF ConfirmConflict
  <2>2. QED
    BY <1>0, <1>3, <2>1, ReadEffects DEF ConfirmConflict, OwnedBy, NotPlacingBy
<1>4. CASE FailRead(r)
    BY <1>0, <1>4, ReadOrderEffects DEF FailRead
<1>5. CASE FailCommit(r)
  <2>1. HoldsOrder(r) /\ local[r].order \in OrderIds /\ orders[local[r].order].status \in Statuses
    BY <1>5 DEF FailCommit, HoldsOrder, EffectsInv, Inv, TypeOK, RequestsOK, TablesOK, OrderRow, Shape, Known
  <2>2. QED
    BY <1>5, <2>1, WriteEffects DEF FailCommit, PaymentStatuses
<1>6. QED
    BY <1>1, <1>2, <1>3, <1>4, <1>5 DEF Pay

LEMMA MoveEffects ==
    ASSUME OrdersAssumption, "PLACED" \notin Simulatable, EffectsInv, NEW r \in Requests, Move(r)
    PROVE  Effects'
<1>0. RequestsOK /\ Rest(r) /\ Effects /\ TablesOK
    BY OthersRest DEF EffectsInv, Inv, TypeOK
<1>1. CASE CancelRead(r)
    BY <1>0, <1>1, ReadOrderEffects DEF CancelRead
<1>2. CASE CancelCommit(r)
    BY <1>2, CancelEffects DEF CancelCommit
<1>3. CASE KitchenRead(r)
    BY <1>0, <1>3, ReadOrderEffects DEF KitchenRead, KITCHEN_SETTABLE
<1>4. CASE SimulateRead(r)
    BY <1>0, <1>4, ReadOrderEffects DEF SimulateRead
<1>5. CASE AdvanceRead(r)
  <2>1. pc[r] = "advance" /\ UNCHANGED db /\ local[r] \in LocalRow /\ local[r].next # "PLACED"
    BY <1>0, <1>5 DEF AdvanceRead, RequestsOK, Effects, NotPlacing
  <2>2. CASE Finish(r)
    BY <1>0, <2>1, <2>2, FinishMoves, ReadEffects DEF OwnedBy, NotPlacingBy
  <2>3. CASE Continue(r, "advanceCommit", [local[r] EXCEPT !.row = orders[local[r].order]])
    <3>1. /\ pc'[r] = "advanceCommit" /\ local'[r].order = local[r].order /\ local'[r].next = local[r].next
          /\ local'[r].row = orders[local[r].order]
      BY <1>0, <2>1, <2>3, ContinueMoves DEF LocalRow
    <3>2. OwnedBy(r)' /\ NotPlacingBy(r)'
      BY <2>1, <3>1 DEF OwnedBy, NotPlacingBy, db
    <3>3. QED
      BY <1>0, <2>1, <3>1, <3>2, ReadEffects
  <2>4. QED
    BY <1>5, <2>2, <2>3 DEF AdvanceRead
<1>6. CASE AdvanceCommit(r)
  <2> DEFINE o == local[r].order
             next == local[r].next
             pay == IF next = "DELIVERED" THEN "PAID" ELSE orders[o].pay
  <2>1. /\ HoldsOrder(r) /\ o \in OrderIds /\ next \in Statuses /\ next # "PLACED" /\ pay \in PaymentStatuses
    BY <1>0, <1>6 DEF AdvanceCommit, HoldsOrder, RequestsOK, LocalRow, Effects, NotPlacing, TablesOK, OrderRow, PaymentStatuses
  <2>2. /\ WriteOrder(o, next, pay) /\ RecordEvent(o, next) /\ Finish(r)
        /\ UNCHANGED <<wallet, coins, books, couponUsed, notices>>
    BY <1>6 DEF AdvanceCommit
  <2>3. \A p \in OrderIds : events'[p]["PLACED"] = events[p]["PLACED"]
    BY <1>0, <2>1, <2>2, EventFields DEF Statuses
  <2> HIDE DEF next, pay
  <2>4. QED
    BY <2>1, <2>2, <2>3, WriteEffects
<1>7. CASE AdvanceCommitCancel(r)
    BY <1>7, CancelEffects DEF AdvanceCommitCancel
<1>8. QED
    BY <1>1, <1>2, <1>3, <1>4, <1>5, <1>6, <1>7 DEF Move

LEMMA StepEffects ==
    ASSUME OrdersAssumption, "PLACED" \notin Simulatable, EffectsInv, [Next]_vars
    PROVE  EffectsInv'
<1>1. Inv' /\ Shape'
    BY StepInv, StepShape DEF EffectsInv
<1>2. CASE UNCHANGED <<orders, events, books, wallet, coins, couponUsed, notices, pc, local>>
  <2>1. Effects'
    BY <1>2 DEF EffectsInv, Effects, Blank, Owned, NotPlacing, Notified, Telling, CouponUsesCounted, CouponUses,
                BalancesMatchLedgers, RupeesOf, CoinsOf, IsOf
  <2>2. QED
    BY <1>1, <2>1 DEF EffectsInv
<1>3. ASSUME NEW r \in Requests, Abort(r) PROVE Effects'
  <2>0. RequestsOK /\ Rest(r) /\ TablesOK /\ Effects /\ pc'[r] = "done" /\ UNCHANGED db
    BY <1>3, OthersRest, FinishMoves DEF EffectsInv, Inv, TypeOK, Abort
  <2>1. CASE pc[r] # "notify"
    BY <2>0, <2>1, ReadEffects DEF OwnedBy, NotPlacingBy
  <2>2. CASE pc[r] = "notify"
    <3>1. local[r].order \in OrderIds
      BY <2>0, <2>2 DEF RequestsOK
    <3>2. Notified'
      BY <2>0, <2>2, <3>1, NotifiedLeaves DEF Effects, db
    <3>3. \A o \in OrderIds : SameOrder(o)
      BY <2>0 DEF SameOrder, db
    <3>4. QED
      BY <2>0, <3>2, <3>3, QuietEffects DEF OwnedBy, NotPlacingBy, db
  <2>3. QED
    BY <2>1, <2>2
<1>4. QED
    BY <1>1, <1>2, <1>3, PlaceEffects, PayEffects, MoveEffects DEF Next, FillCart, EffectsInv, vars

LEMMA InitEffects == ASSUME OrdersAssumption, Init PROVE EffectsInv
<1>1. Blank /\ Owned /\ NotPlacing
    BY DEF Init, Blank, Owned, NotPlacing, Statuses
<1>2. Notified
  <2>1. \A o \in OrderIds : Telling(o) = {} /\ notices[o] = 0 /\ events[o]["PLACED"] = 0
    BY DEF Init, Telling, Statuses
  <2>2. IsFiniteSet({}) /\ Cardinality({}) = 0
    BY FS_EmptySet
  <2>3. \A o \in OrderIds : IsFiniteSet(Telling(o)) /\ Cardinality(Telling(o)) = 0
    BY <2>1, <2>2
  <2>4. 0 + 0 <= 0
    OBVIOUS
  <2>5. QED
    BY <2>1, <2>3, <2>4 DEF Notified
<1>3. IsFiniteSet(OrderIds)
    BY DEF OrdersAssumption
<1>4. CouponUsesCounted
  <2> DEFINE f == [o \in OrderIds |-> CouponUses(o)]
  <2>1. \A o \in OrderIds : f[o] = 0
    BY DEF Init, CouponUses, Statuses
  <2>2. DOMAIN f = OrderIds
    OBVIOUS
  <2> HIDE DEF f
  <2>3. SumFunction(f) = 0
    BY <1>3, <2>1, <2>2, SumZero DEF SumFunction
  <2>4. QED
    BY <2>3 DEF Init, CouponUsesCounted, f
<1>5. BalancesMatchLedgers
  <2> SUFFICES ASSUME NEW u \in Users
               PROVE  /\ wallet[u] = InitialWallet + SumFunction([o \in OrderIds |-> RupeesOf(o, u)])
                      /\ coins[u] = InitialCoins + SumFunction([o \in OrderIds |-> CoinsOf(o, u)])
    BY DEF BalancesMatchLedgers
  <2> DEFINE f == [o \in OrderIds |-> RupeesOf(o, u)]
             g == [o \in OrderIds |-> CoinsOf(o, u)]
  <2>1. \A o \in OrderIds : f[o] = 0 /\ g[o] = 0
    BY DEF Init, RupeesOf, CoinsOf, IsOf, NoOrder
  <2>2. DOMAIN f = OrderIds /\ DOMAIN g = OrderIds
    OBVIOUS
  <2> HIDE DEF f, g
  <2>3. SumFunction(f) = 0 /\ SumFunction(g) = 0
    BY <1>3, <2>1, <2>2, SumZero DEF SumFunction
  <2>4. wallet[u] = InitialWallet + SumFunction(f) /\ coins[u] = InitialCoins + SumFunction(g)
    BY <2>3 DEF Init, OrdersAssumption
  <2>5. QED
    BY <2>4 DEF f, g
<1>6. QED
    BY <1>1, <1>2, <1>4, <1>5, InitInv, InitShape DEF EffectsInv, Effects

(* The kitchen hears of no order before its release and of each release at most  *)
(* once, the coupon's count is the number of releases that carry it, and both    *)
(* balances are what the ledger rows add up to, whatever requests overlap and    *)
(* die: with the simulator's PENDING_PAYMENT -> PLACED left out.                *)
THEOREM EffectsAreAccounted ==
    ASSUME "PLACED" \notin Simulatable
    PROVE  Spec => []EffectsMatchHistory
<1>1. Init => EffectsInv
    BY InitEffects, OrdersAssumption
<1>2. EffectsInv /\ [Next]_vars => EffectsInv'
    BY StepEffects, OrdersAssumption
<1>3. ASSUME EffectsInv PROVE EffectsMatchHistory
  <2>1. ASSUME NEW o \in OrderIds PROVE notices[o] <= events[o]["PLACED"]
    <3>1. IsFiniteSet(Telling(o)) /\ notices[o] + Cardinality(Telling(o)) <= events[o]["PLACED"]
      BY <1>3 DEF EffectsInv, Effects, Notified
    <3>2. Cardinality(Telling(o)) \in Nat
      BY <3>1, FS_CardinalityType
    <3>3. notices[o] \in Nat /\ events[o]["PLACED"] \in Nat
      BY <1>3 DEF EffectsInv, Inv, TypeOK, TablesOK, Statuses
    <3>4. QED
      BY <3>1, <3>2, <3>3
  <2>2. QED
    BY <1>3, <2>1 DEF EffectsInv, Effects, EffectsMatchHistory, NoticesFollowRelease
<1>4. QED
    BY <1>1, <1>2, <1>3, PTL DEF Spec

-----------------------------------------------------------------------------
(* A refund or a return of coins commits with the event that cancels the order:  *)
(* no other step of any request moves money back.                              *)
THEOREM RefundsCancel == Spec => RefundsCommitWithCancellation
<1> DEFINE Moves == \A o \in OrderIds :
                       \/ books'[o].refunded # books[o].refunded
                       \/ books'[o].returned # books[o].returned
                       => /\ orders'[o].status = "CANCELLED"
                          /\ events'[o]["CANCELLED"] = events[o]["CANCELLED"] + 1
<1>1. ASSUME Inv, Next PROVE Moves
  <2>0. TablesOK /\ RequestsOK
    BY <1>1 DEF Inv, TypeOK
  <2>1. ASSUME NEW o \in OrderIds, NEW debit \in Nat, NEW spend \in Nat, Post(o, debit, 0, spend, 0) PROVE Moves
    <3>1. \A p \in OrderIds : books[p].refunded \in Nat /\ books[p].returned \in Nat
      BY <2>0 DEF TablesOK, BookRow
    <3>2. \A p \in OrderIds : books'[p].refunded = books[p].refunded /\ books'[p].returned = books[p].returned
      <4>1. 0 \in Nat
        OBVIOUS
      <4>2. TablesOK
        BY <2>0
      <4>3. /\ books'[o].refunded = books[o].refunded + 0 /\ books'[o].returned = books[o].returned + 0
            /\ \A p \in OrderIds : p # o => books'[p] = books[p]
        BY ONLY <2>1, <4>1, <4>2, PostFields
      <4>4. QED
        BY <3>1, <4>3
    <3>3. QED
      BY <3>2
  <2>2. ASSUME NEW r \in Requests, PlaceCommitImmediate(r) PROVE Moves
    <3>1. PICK o \in OrderIds :
             Post(o, IF local[r].row.method = "WALLET" THEN local[r].row.total ELSE 0, 0, local[r].row.coins, 0)
      BY <2>2 DEF PlaceCommitImmediate
    <3>2. local[r].row.total \in Nat /\ local[r].row.coins \in Nat
      BY <2>0 DEF RequestsOK, LocalRow, OrderRow
    <3>3. QED
      BY <2>1, <3>1, <3>2
  <2>3. ASSUME NEW r \in Requests, ConfirmCommit(r) PROVE Moves
    <3>1. local[r].order \in OrderIds /\ orders[local[r].order].coins \in Nat
      BY <2>0, <2>3 DEF ConfirmCommit, RequestsOK, HoldsOrder, TablesOK, OrderRow
    <3>2. QED
      BY <2>1, <2>3, <3>1 DEF ConfirmCommit
  <2>4. ASSUME NEW r \in Requests, HoldsOrder(r), CancelOrder(local[r].order, local[r].row) PROVE Moves
    <3> DEFINE o == local[r].order
               seen == local[r].row
               pay == IF seen.pay = "PAID" THEN "REFUNDED" ELSE orders[o].pay
               rupees == IF seen.method = "WALLET" /\ seen.pay = "PAID" THEN seen.total ELSE 0
               back == IF seen.status # "PENDING_PAYMENT" THEN seen.coins ELSE 0
    <3>1. o \in OrderIds /\ seen \in OrderRow
      BY <2>0, <2>4 DEF RequestsOK, LocalRow
    <3>2. rupees \in Nat /\ back \in Nat /\ pay \in PaymentStatuses
      BY <2>0, <3>1 DEF OrderRow, TablesOK, PaymentStatuses
    <3>3. WriteOrder(o, "CANCELLED", pay) /\ RecordEvent(o, "CANCELLED") /\ Post(o, 0, rupees, 0, back)
      BY <2>4 DEF CancelOrder, SettleCancellation
    <3> HIDE DEF o, seen, pay, rupees, back
    <3>4. orders'[o].status = "CANCELLED"
      BY <2>0, <3>1, <3>2, <3>3, WriteOrderAll DEF Statuses
    <3>5. events'[o]["CANCELLED"] = events[o]["CANCELLED"] + 1
      BY <2>0, <3>1, <3>3, EventFields DEF Statuses
    <3>6. \A p \in OrderIds : p # o => books'[p] = books[p]
      BY <2>0, <3>1, <3>2, <3>3, PostFields
    <3>7. QED
      BY <3>4, <3>5, <3>6
  <2>5. CASE UNCHANGED books
    BY <2>5
  <2>6. ASSUME NEW r \in Requests, CancelCommit(r) \/ AdvanceCommitCancel(r) PROVE Moves
    BY <2>4, <2>6 DEF CancelCommit, AdvanceCommitCancel, HoldsOrder
  <2> HIDE DEF Moves
  <2>7. QED
    BY <1>1, <2>2, <2>3, <2>5, <2>6
    DEF Next, FillCart, Place, Pay, Move, Abort, PlaceReadItems, PlaceEvaluate, PlaceDebitCheck,
        PlaceCommitPending, PlaceConflict, NotifyKitchen, ConfirmRead, ConfirmConflict, FailRead, FailCommit,
        CancelRead, KitchenRead, SimulateRead, AdvanceRead, AdvanceCommit, ReadOrder, db
<1>2. Inv /\ [Next]_vars => [Moves]_vars
    BY <1>1
<1>3. QED
    BY <1>2, InitInv, StepInv, PTL DEF Spec, RefundsCommitWithCancellation

-----------------------------------------------------------------------------
(* When no two requests work on one order at once, the order pipeline          *)
(* implements OrderLifecycle and keeps its books balanced.  The two exceptions *)
(* that TLC finds are assumed away by name: overlapping requests, by           *)
(* LockedSpec, and the simulator's PENDING_PAYMENT -> PLACED, by Simulatable.  *)

(* What a request has read of its order is still so. *)
Ready(r) ==
    LET row == orders[local[r].order]
    IN  /\ pc[r] \in {"confirm", "fail"} => row.status = "PENDING_PAYMENT"
        /\ pc[r] = "cancel" => local[r].row = row /\ row.status \in CUSTOMER_CANCELLABLE
        /\ pc[r] \in {"advance", "advanceCommit"} => local[r].next # "PLACED"
        /\ pc[r] = "advanceCommit" =>
              local[r].row = row /\ row.status \in Statuses /\ local[r].next \in ALLOWED_TRANSITIONS[row.status]

Held == \A r \in Requests : Ready(r)

(* A wallet order is born paid, and stays so while it lives. *)
PaidDrafts ==
    \A r \in Requests :
        pc[r] \in {"placeDebit", "placeCommit"} /\ local[r].row.method = "WALLET" => local[r].row.pay = "PAID"

PaidOrders ==
    \A o \in OrderIds : orders[o].method = "WALLET" /\ orders[o].status \in Released => orders[o].pay = "PAID"

Locked == OneRequestPerOrder /\ Held /\ PaidDrafts /\ PaidOrders /\ BooksBalance

(* The rupees and the coins an order holds. *)
Rupees(o) == books[o].debited - books[o].refunded

Coins(o) == books[o].spent - books[o].returned

-----------------------------------------------------------------------------
(* What the helpers of the commits write *)

LEMMA PostAll ==
    ASSUME TablesOK, NEW o \in OrderIds, NEW debit \in Nat, NEW refund \in Nat,
           NEW spend \in Nat, NEW return \in Nat, Post(o, debit, refund, spend, return)
    PROVE  /\ Rupees(o)' = Rupees(o) + debit - refund
           /\ Coins(o)' = Coins(o) + spend - return
           /\ \A p \in OrderIds : p # o => books'[p] = books[p]
<1>1. /\ books'[o] = [debited |-> books[o].debited + debit, refunded |-> books[o].refunded + refund,
                      spent |-> books[o].spent + spend, returned |-> books[o].returned + return]
      /\ \A p \in OrderIds : p # o => books'[p] = books[p]
    BY DEF Post, TablesOK
<1>2. books[o] \in BookRow
    BY DEF TablesOK
<1>3. QED
    BY <1>1, <1>2 DEF Rupees, Coins, BookRow

(* The rows an order's status leads to, one per status. *)
LEMMA Successors ==
    ASSUME NEW s \in Statuses, NEW next \in ALLOWED_TRANSITIONS[s]
    PROVE  /\ next \in Statuses
           /\ next = "PLACED" => s = "PENDING_PAYMENT"
           /\ next = "CANCELLED" => s \in {"PENDING_PAYMENT", "PLACED", "ACCEPTED", "PREPARING"}
           /\ next \notin {"PLACED", "CANCELLED"} => s \in Released /\ next \in Released
BY SMTT(30) DEF ALLOWED_TRANSITIONS, Statuses, Released

LEMMA Cancellables ==
    \A s \in {"PENDING_PAYMENT", "PLACED", "ACCEPTED", "PREPARING"} :
        s \in Statuses /\ "CANCELLED" \in ALLOWED_TRANSITIONS[s] /\ (s # "PENDING_PAYMENT" => s \in Released)
BY SMTT(30) DEF ALLOWED_TRANSITIONS, Statuses, Released

(* What an order holds, from the balance of its books. *)
LEMMA Holdings ==
    ASSUME BooksBalance, NEW o \in OrderIds
    PROVE  /\ Rupees(o) = IF orders[o].status \in Released /\ orders[o].method = "WALLET"
                          THEN orders[o].total ELSE 0
           /\ Coins(o) = IF orders[o].status \in Released THEN orders[o].coins ELSE 0
BY DEF BooksBalance, Rupees, Coins

(* One order is as the balance asks. *)
Balanced(o) ==
    /\ Rupees(o) = IF orders[o].status \in Released /\ orders[o].method = "WALLET"
                   THEN orders[o].total ELSE 0
    /\ Coins(o) = IF orders[o].status \in Released THEN orders[o].coins ELSE 0
    /\ orders[o].method = "GATEWAY" /\ orders[o].status \in Released => orders[o].pay = "PAID"
    /\ orders[o].method = "WALLET" /\ orders[o].status \in Released => orders[o].pay = "PAID"
    /\ orders[o].status = "CANCELLED" => orders[o].pay # "PAID"

LEMMA AllBalanced == (\A o \in OrderIds : Balanced(o)) <=> BooksBalance /\ PaidOrders
BY DEF Balanced, BooksBalance, PaidOrders, Rupees, Coins

-----------------------------------------------------------------------------
(* The steps of OrderLifecycle *)

Bar(o) == <<orders[o].status, Rupees(o), Coins(o)>>

LEMMA BarStutters ==
    ASSUME \A o \in OrderIds : Bar(o)' = Bar(o)
    PROVE  UNCHANGED Lifecycle!vars
<1>1. \A o \in OrderIds : /\ orders'[o].status = orders[o].status
                          /\ books'[o].debited - books'[o].refunded = books[o].debited - books[o].refunded
                          /\ books'[o].spent - books'[o].returned = books[o].spent - books[o].returned
    BY DEF Bar, Rupees, Coins
<1>2. QED
    BY <1>1 DEF Lifecycle!vars

LEMMA BarAwait ==
    ASSUME NEW o \in OrderIds, orders[o].status = "NONE", orders'[o].status = "PENDING_PAYMENT",
           Rupees(o)' = Rupees(o), Coins(o)' = Coins(o),
           \A p \in OrderIds : p # o => Bar(p)' = Bar(p)
    PROVE  Lifecycle!Await(o)
BY DEF Bar, Rupees, Coins, Lifecycle!Await

LEMMA BarPlace ==
    ASSUME NEW o \in OrderIds, orders[o].status = "NONE", orders'[o].status = "PLACED",
           Rupees(o)' \in Nat, Coins(o)' \in Nat,
           \A p \in OrderIds : p # o => Bar(p)' = Bar(p)
    PROVE  Lifecycle!Place(o)
BY DEF Bar, Rupees, Coins, Lifecycle!Place, Lifecycle!TakesAny

LEMMA BarConfirm ==
    ASSUME NEW o \in OrderIds, orders[o].status = "PENDING_PAYMENT", orders'[o].status = "PLACED",
           Rupees(o)' = Rupees(o), Coins(o)' \in Nat,
           \A p \in OrderIds : p # o => Bar(p)' = Bar(p)
    PROVE  Lifecycle!Confirm(o)
BY DEF Bar, Rupees, Coins, Lifecycle!Confirm, Lifecycle!TakesAny

LEMMA SameTransitions == Lifecycle!Statuses = Statuses /\ Lifecycle!ALLOWED_TRANSITIONS = ALLOWED_TRANSITIONS
BY DEF Lifecycle!Statuses, Statuses, Lifecycle!ALLOWED_TRANSITIONS, ALLOWED_TRANSITIONS

LEMMA BarAdvance ==
    ASSUME NEW o \in OrderIds, orders[o].status \in Statuses \ {"PENDING_PAYMENT"},
           orders'[o].status \in ALLOWED_TRANSITIONS[orders[o].status] \ {"CANCELLED"},
           Rupees(o)' = Rupees(o), Coins(o)' = Coins(o),
           \A p \in OrderIds : p # o => Bar(p)' = Bar(p)
    PROVE  Lifecycle!Advance(o)
BY SameTransitions DEF Bar, Rupees, Coins, Lifecycle!Advance

LEMMA BarCancel ==
    ASSUME NEW o \in OrderIds, orders[o].status \in Statuses,
           "CANCELLED" \in ALLOWED_TRANSITIONS[orders[o].status], orders'[o].status = "CANCELLED",
           Rupees(o)' = 0, Coins(o)' = 0,
           \A p \in OrderIds : p # o => Bar(p)' = Bar(p)
    PROVE  Lifecycle!Cancel(o)
BY SameTransitions DEF Bar, Rupees, Coins, Lifecycle!Cancel

-----------------------------------------------------------------------------
(* What every step of a request keeps, and does to the lifecycle *)

Kept == Held /\ PaidDrafts /\ PaidOrders /\ BooksBalance

Refines == Lifecycle!Next \/ UNCHANGED Lifecycle!vars

(* What a request at a step is to know when it has just come there. *)
Arrives(r) ==
    /\ Ready(r)
    /\ pc[r] \in {"placeDebit", "placeCommit"} /\ local[r].row.method = "WALLET" => local[r].row.pay = "PAID"

LEMMA ReadStep ==
    ASSUME Locked, NEW r \in Requests, UNCHANGED db, Arrives(r)',
           \A q \in Requests : q # r => pc'[q] = pc[q] /\ local'[q] = local[q]
    PROVE  Kept' /\ Refines
<1>1. UNCHANGED <<orders, books>>
    BY DEF db
<1>2. Held'
    BY <1>1 DEF Locked, Held, Ready, Arrives
<1>3. PaidDrafts'
    BY DEF Locked, PaidDrafts, Arrives
<1>4. PaidOrders' /\ BooksBalance'
    BY <1>1 DEF Locked, PaidOrders, BooksBalance
<1>5. UNCHANGED Lifecycle!vars
    BY <1>1 DEF Lifecycle!vars
<1>6. QED
    BY <1>2, <1>3, <1>4, <1>5 DEF Kept, Refines

(* A commit writes one order, which no other request works on. *)
LEMMA CommitStep ==
    ASSUME Locked, NEW r \in Requests, NEW o \in OrderIds,
           \A q \in Requests : q # r /\ HoldsOrder(q) => local[q].order \in OrderIds /\ local[q].order # o,
           \A p \in OrderIds : p # o => orders'[p] = orders[p] /\ books'[p] = books[p],
           \A q \in Requests : q # r => pc'[q] = pc[q] /\ local'[q] = local[q],
           pc'[r] \in {"notify", "done"},
           Balanced(o)'
    PROVE  Kept' /\ \A p \in OrderIds : p # o => Bar(p)' = Bar(p)
<1>1. Held'
    <2> SUFFICES ASSUME NEW q \in Requests PROVE Ready(q)'
        BY DEF Held
    <2>1. CASE q = r
        BY <2>1 DEF Ready
    <2>2. CASE q # r /\ ~HoldsOrder(q)
        BY <2>2 DEF Ready, HoldsOrder
    <2>3. CASE q # r /\ HoldsOrder(q)
        <3>1. orders'[local[q].order] = orders[local[q].order] /\ pc'[q] = pc[q] /\ local'[q] = local[q]
            BY <2>3
        <3>2. Ready(q)
            BY DEF Locked, Held
        <3>3. QED
            BY <3>1, <3>2 DEF Ready
    <2>4. QED
        BY <2>1, <2>2, <2>3
<1>2. PaidDrafts'
    BY DEF Locked, PaidDrafts
<1>3. \A p \in OrderIds : Balanced(p)
    BY AllBalanced DEF Locked
<1>4. \A p \in OrderIds : Balanced(p)'
    BY <1>3 DEF Balanced, Rupees, Coins
<1>5. (\A p \in OrderIds : Balanced(p)') <=> BooksBalance' /\ PaidOrders'
    BY DEF Balanced, BooksBalance, PaidOrders, Rupees, Coins
<1>6. \A p \in OrderIds : p # o => Bar(p)' = Bar(p)
    BY DEF Bar, Rupees, Coins
<1>7. QED
    BY <1>1, <1>2, <1>4, <1>5, <1>6 DEF Kept

(* A request that works on an order is the only one. *)
LEMMA Owns ==
    ASSUME Inv, Shape, Locked, NEW r \in Requests, HoldsOrder(r)
    PROVE  /\ local[r].order \in OrderIds
           /\ orders[local[r].order] \in OrderRow
           /\ orders[local[r].order].status \in Statuses
           /\ \A q \in Requests : q # r /\ HoldsOrder(q)
                                 => local[q].order \in OrderIds /\ local[q].order # local[r].order
<1>1. \A q \in Requests : HoldsOrder(q) => local[q].order \in OrderIds
    BY DEF Inv, TypeOK, RequestsOK
<1>2. orders[local[r].order] \in OrderRow /\ orders[local[r].order].status # "NONE"
    BY <1>1 DEF Inv, TypeOK, TablesOK, Shape, Known
<1>3. QED
    BY <1>1, <1>2 DEF OrderRow, Locked, OneRequestPerOrder

(* A cancellation gives back what the order holds, whoever makes it. *)
LEMMA CancelRefines ==
    ASSUME Inv, Shape, Locked, NEW r \in Requests, HoldsOrder(r),
           NEW o \in OrderIds, local[r].order = o, local[r].row = orders[o],
           orders[o].status \in {"PENDING_PAYMENT", "PLACED", "ACCEPTED", "PREPARING"},
           CancelOrder(o, orders[o]), Finish(r)
    PROVE  Kept' /\ Refines
<1> DEFINE pay == IF orders[o].pay = "PAID" THEN "REFUNDED" ELSE orders[o].pay
           rupees == IF orders[o].method = "WALLET" /\ orders[o].pay = "PAID" THEN orders[o].total ELSE 0
           back == IF orders[o].status # "PENDING_PAYMENT" THEN orders[o].coins ELSE 0
<1>1. o \in OrderIds /\ orders[o] \in OrderRow /\ TablesOK
    BY Owns DEF Inv, TypeOK
<1>2. /\ pay \in PaymentStatuses /\ pay # "PAID"
      /\ rupees \in Nat /\ back \in Nat
    BY <1>1 DEF OrderRow, PaymentStatuses
<1>3. WriteOrder(o, "CANCELLED", pay) /\ Post(o, 0, rupees, 0, back)
    BY DEF CancelOrder, SettleCancellation
<1>4. Balanced(o)
    BY <1>1, AllBalanced DEF Locked
<1>5. rupees = Rupees(o) /\ back = Coins(o)
    <2>1. orders[o].status # "PENDING_PAYMENT" => orders[o].status \in Released
        BY DEF Released
    <2>2. orders[o].method = "WALLET" => orders[o].status # "PENDING_PAYMENT"
        BY <1>1 DEF Shape, WalletOrdersPaidUpFront
    <2>3. "PENDING_PAYMENT" \notin Released
        BY DEF Released
    <2>4. QED
        BY <1>4, <2>1, <2>2, <2>3 DEF Balanced
<1>6. /\ pc'[r] = "done"
      /\ \A q \in Requests : q # r => pc'[q] = pc[q] /\ local'[q] = local[q]
    BY FinishMoves DEF Inv, TypeOK
<1>7. /\ \A q \in Requests : q # r /\ HoldsOrder(q) => local[q].order \in OrderIds /\ local[q].order # o
      /\ orders[o].status \in Statuses /\ "CANCELLED" \in ALLOWED_TRANSITIONS[orders[o].status]
    BY Owns, Cancellables
<1> HIDE DEF pay, rupees, back
<1>8. /\ orders'[o].status = "CANCELLED" /\ orders'[o].pay = pay
      /\ \A p \in OrderIds : p # o => orders'[p] = orders[p]
    BY <1>1, <1>2, <1>3, WriteOrderAll DEF Statuses
<1>9. /\ Rupees(o)' = 0 /\ Coins(o)' = 0
      /\ \A p \in OrderIds : p # o => books'[p] = books[p]
    BY <1>1, <1>2, <1>3, <1>5, PostAll
<1>10. Balanced(o)'
    BY <1>2, <1>8, <1>9 DEF Balanced, Released
<1>11. Kept' /\ \A p \in OrderIds : p # o => Bar(p)' = Bar(p)
    BY <1>1, <1>6, <1>7, <1>8, <1>9, <1>10, CommitStep
<1>12. Lifecycle!Cancel(o)
    BY <1>1, <1>7, <1>8, <1>9, <1>11, BarCancel
<1>13. QED
    BY <1>1, <1>11, <1>12 DEF Refines, Lifecycle!Next

LEMMA ConfirmRefines ==
    ASSUME Inv, Shape, Locked, NEW r \in Requests, ConfirmCommit(r),
           NEW o \in OrderIds, local[r].order = o
    PROVE  Kept' /\ Refines
<1>1. o \in OrderIds /\ orders[o] \in OrderRow /\ TablesOK /\ RequestsOK
    BY Owns DEF ConfirmCommit, HoldsOrder, Inv, TypeOK
<1>2. orders[o].status = "PENDING_PAYMENT"
    BY DEF ConfirmCommit, Locked, Held, Ready
<1>3. WriteOrder(o, "PLACED", "PAID") /\ Post(o, 0, 0, orders[o].coins, 0) /\ Continue(r, "notify", local[r])
    BY DEF ConfirmCommit
<1>4. \A q \in Requests : q # r /\ HoldsOrder(q) => local[q].order \in OrderIds /\ local[q].order # o
    BY Owns DEF ConfirmCommit, HoldsOrder
<1>5. /\ pc'[r] = "notify"
      /\ \A q \in Requests : q # r => pc'[q] = pc[q] /\ local'[q] = local[q]
    BY <1>1, <1>3, ContinueMoves
<1>6. orders[o].method # "WALLET" /\ orders[o].coins \in Nat
    BY <1>1, <1>2 DEF Shape, WalletOrdersPaidUpFront, OrderRow
<1>7. Rupees(o) = 0 /\ Coins(o) = 0
    BY <1>1, <1>2, <1>6, Holdings DEF Locked, Released
<1>8. /\ orders'[o].status = "PLACED" /\ orders'[o].pay = "PAID" /\ orders'[o].method = orders[o].method
      /\ orders'[o].coins = orders[o].coins
      /\ \A p \in OrderIds : p # o => orders'[p] = orders[p]
    BY <1>1, <1>3, WriteOrderAll DEF Statuses, PaymentStatuses
<1>9. /\ Rupees(o)' = 0 /\ Coins(o)' = orders[o].coins
      /\ \A p \in OrderIds : p # o => books'[p] = books[p]
    BY <1>1, <1>3, <1>6, <1>7, PostAll
<1>10. Balanced(o)'
    BY <1>6, <1>8, <1>9 DEF Balanced, Released
<1>11. Kept' /\ \A p \in OrderIds : p # o => Bar(p)' = Bar(p)
    BY <1>1, <1>4, <1>5, <1>8, <1>9, <1>10, CommitStep
<1>12. Lifecycle!Confirm(o)
    BY <1>1, <1>2, <1>6, <1>7, <1>8, <1>9, <1>11, BarConfirm
<1>13. QED
    BY <1>1, <1>11, <1>12 DEF Refines, Lifecycle!Next

LEMMA FailRefines ==
    ASSUME Inv, Shape, Locked, NEW r \in Requests, FailCommit(r),
           NEW o \in OrderIds, local[r].order = o
    PROVE  Kept' /\ Refines
<1>1. orders[o] \in OrderRow /\ TablesOK /\ RequestsOK
    BY Owns DEF FailCommit, HoldsOrder, Inv, TypeOK
<1>2. orders[o].status = "PENDING_PAYMENT"
    BY DEF FailCommit, Locked, Held, Ready
<1>3. WriteOrder(o, "PENDING_PAYMENT", "FAILED") /\ Finish(r) /\ UNCHANGED books
    BY <1>2 DEF FailCommit
<1>4. \A q \in Requests : q # r /\ HoldsOrder(q) => local[q].order \in OrderIds /\ local[q].order # o
    BY Owns DEF FailCommit, HoldsOrder
<1>5. /\ pc'[r] = "done"
      /\ \A q \in Requests : q # r => pc'[q] = pc[q] /\ local'[q] = local[q]
    BY <1>1, <1>3, FinishMoves
<1>6. Rupees(o) = 0 /\ Coins(o) = 0
    BY <1>2, Holdings DEF Locked, Released
<1>7. orders'[o].status = "PENDING_PAYMENT" /\ \A p \in OrderIds : p # o => orders'[p] = orders[p]
    BY <1>1, <1>3, WriteOrderAll DEF Statuses, PaymentStatuses
<1>8. Rupees(o)' = 0 /\ Coins(o)' = 0 /\ \A p \in OrderIds : p # o => books'[p] = books[p]
    BY <1>3, <1>6 DEF Rupees, Coins
<1>9. Balanced(o)'
    BY <1>7, <1>8 DEF Balanced, Released
<1>10. Kept' /\ \A p \in OrderIds : p # o => Bar(p)' = Bar(p)
    BY <1>4, <1>5, <1>7, <1>8, <1>9, CommitStep
<1>11. Bar(o)' = Bar(o)
    BY <1>2, <1>6, <1>7, <1>8 DEF Bar
<1>12. QED
    BY <1>10, <1>11, BarStutters DEF Refines

LEMMA AdvanceRefines ==
    ASSUME Inv, Shape, Locked, NEW r \in Requests, AdvanceCommit(r),
           NEW o \in OrderIds, local[r].order = o
    PROVE  Kept' /\ Refines
<1> DEFINE next == local[r].next
           pay == IF next = "DELIVERED" THEN "PAID" ELSE orders[o].pay
<1>1. orders[o] \in OrderRow /\ TablesOK /\ RequestsOK /\ orders[o].status \in Statuses
    BY Owns DEF AdvanceCommit, HoldsOrder, Inv, TypeOK
<1>2. next \in ALLOWED_TRANSITIONS[orders[o].status] /\ next \notin {"PLACED", "CANCELLED"}
    BY DEF AdvanceCommit, Locked, Held, Ready
<1>3. next \in Statuses /\ orders[o].status \in Released /\ next \in Released
    BY <1>1, <1>2, Successors
<1>4. pay \in PaymentStatuses /\ (orders[o].pay = "PAID" => pay = "PAID")
    BY <1>1 DEF OrderRow, PaymentStatuses
<1>5. WriteOrder(o, next, pay) /\ Finish(r) /\ UNCHANGED books
    BY DEF AdvanceCommit
<1>6. \A q \in Requests : q # r /\ HoldsOrder(q) => local[q].order \in OrderIds /\ local[q].order # o
    BY Owns DEF AdvanceCommit, HoldsOrder
<1>7. /\ pc'[r] = "done"
      /\ \A q \in Requests : q # r => pc'[q] = pc[q] /\ local'[q] = local[q]
    BY <1>1, <1>5, FinishMoves
<1>8. Balanced(o)
    BY AllBalanced DEF Locked
<1> HIDE DEF next, pay
<1>9. /\ orders'[o].status = next /\ orders'[o].pay = pay /\ orders'[o].method = orders[o].method
      /\ orders'[o].total = orders[o].total /\ orders'[o].coins = orders[o].coins
      /\ \A p \in OrderIds : p # o => orders'[p] = orders[p]
    BY <1>1, <1>3, <1>4, <1>5, WriteOrderAll
<1>10. Rupees(o)' = Rupees(o) /\ Coins(o)' = Coins(o) /\ \A p \in OrderIds : p # o => books'[p] = books[p]
    BY <1>5 DEF Rupees, Coins
<1>11. Balanced(o)'
    <2>1. next # "CANCELLED"
        BY <1>2
    <2>2. QED
        BY <1>3, <1>4, <1>8, <1>9, <1>10, <2>1 DEF Balanced
<1>12. Kept' /\ \A p \in OrderIds : p # o => Bar(p)' = Bar(p)
    BY <1>6, <1>7, <1>9, <1>10, <1>11, CommitStep
<1>13. Lifecycle!Advance(o)
    <2>1. orders[o].status # "PENDING_PAYMENT"
        BY <1>3 DEF Released
    <2>2. QED
        BY <1>1, <1>2, <1>9, <1>10, <1>12, <2>1, BarAdvance
<1>14. QED
    BY <1>12, <1>13 DEF Refines, Lifecycle!Next

(* An id that is drawn now is not the one another request works on. *)
LEMMA Fresh ==
    ASSUME Inv, Shape, NEW o \in OrderIds, orders[o].status = "NONE"
    PROVE  \A q \in Requests : HoldsOrder(q) => local[q].order \in OrderIds /\ local[q].order # o
BY DEF Inv, TypeOK, RequestsOK, Shape, Known

LEMMA PlaceImmediateRefines ==
    ASSUME Inv, Shape, Locked, NEW r \in Requests, PlaceCommitImmediate(r)
    PROVE  Kept' /\ Refines
<1> DEFINE row == local[r].row
           rupees == IF row.method = "WALLET" THEN row.total ELSE 0
<1>1. PICK o \in OrderIds :
        /\ orders[o].status = "NONE"
        /\ orders' = [orders EXCEPT ![o] = row]
        /\ Post(o, rupees, 0, row.coins, 0)
        /\ Continue(r, "notify", [local[r] EXCEPT !.order = o])
    BY DEF PlaceCommitImmediate
<1>2. /\ row \in OrderRow /\ row.status = "PLACED" /\ row.method \in {"COD", "WALLET"}
      /\ TablesOK /\ RequestsOK
    BY DEF Inv, TypeOK, RequestsOK, LocalRow, Shape, Drafts, PlaceCommitImmediate, IsImmediate
<1>3. rupees \in Nat /\ row.coins \in Nat /\ (row.method = "WALLET" => row.pay = "PAID")
    BY <1>2 DEF OrderRow, Locked, PaidDrafts, PlaceCommitImmediate
<1>4. rupees = IF row.method = "WALLET" THEN row.total ELSE 0
    OBVIOUS
<1> HIDE DEF row, rupees
<1>5. /\ pc'[r] = "notify"
      /\ \A q \in Requests : q # r => pc'[q] = pc[q] /\ local'[q] = local[q]
    BY <1>1, <1>2, ContinueMoves
<1>6. orders'[o] = row /\ \A p \in OrderIds : p # o => orders'[p] = orders[p]
    BY <1>1, <1>2 DEF TablesOK
<1>7. Rupees(o) = 0 /\ Coins(o) = 0
    BY <1>1, Holdings DEF Locked, Released
<1>8. Rupees(o)' = rupees /\ Coins(o)' = row.coins /\ \A p \in OrderIds : p # o => books'[p] = books[p]
    BY <1>1, <1>2, <1>3, <1>7, PostAll
<1>9. Balanced(o)'
    BY <1>2, <1>3, <1>4, <1>6, <1>8 DEF Balanced, Released
<1>10. Kept' /\ \A p \in OrderIds : p # o => Bar(p)' = Bar(p)
    BY <1>1, <1>5, <1>6, <1>8, <1>9, Fresh, CommitStep
<1>11. Lifecycle!Place(o)
    BY <1>1, <1>2, <1>3, <1>6, <1>8, <1>10, BarPlace
<1>12. QED
    BY <1>10, <1>11 DEF Refines, Lifecycle!Next

LEMMA PlacePendingRefines ==
    ASSUME Inv, Shape, Locked, NEW r \in Requests, PlaceCommitPending(r)
    PROVE  Kept' /\ Refines
<1> DEFINE row == local[r].row
<1>1. PICK o \in OrderIds : orders[o].status = "NONE" /\ orders' = [orders EXCEPT ![o] = row]
    BY DEF PlaceCommitPending
<1>2. row.status = "PENDING_PAYMENT" /\ TablesOK /\ RequestsOK /\ row \in OrderRow
    BY DEF Inv, TypeOK, RequestsOK, LocalRow, Shape, Drafts, PlaceCommitPending
<1> HIDE DEF row
<1>3. /\ pc'[r] = "done"
      /\ \A q \in Requests : q # r => pc'[q] = pc[q] /\ local'[q] = local[q]
    BY <1>2, FinishMoves DEF PlaceCommitPending
<1>4. orders'[o] = row /\ \A p \in OrderIds : p # o => orders'[p] = orders[p]
    BY <1>1, <1>2 DEF TablesOK
<1>5. Rupees(o) = 0 /\ Coins(o) = 0
    BY <1>1, Holdings DEF Locked, Released
<1>6. Rupees(o)' = 0 /\ Coins(o)' = 0 /\ UNCHANGED books
    BY <1>5 DEF PlaceCommitPending, Rupees, Coins
<1>7. Balanced(o)'
    BY <1>2, <1>4, <1>6 DEF Balanced, Released
<1>8. Kept' /\ \A p \in OrderIds : p # o => Bar(p)' = Bar(p)
    BY <1>1, <1>3, <1>4, <1>6, <1>7, Fresh, CommitStep
<1>9. Lifecycle!Await(o)
    BY <1>1, <1>2, <1>4, <1>5, <1>6, <1>8, BarAwait
<1>10. QED
    BY <1>8, <1>9 DEF Refines, Lifecycle!Next

-----------------------------------------------------------------------------
(* The reads *)

LEMMA FinishStep ==
    ASSUME Inv, Locked, NEW r \in Requests, Finish(r), UNCHANGED db
    PROVE  Kept' /\ Refines
<1>1. /\ pc'[r] = "done"
      /\ \A q \in Requests : q # r => pc'[q] = pc[q] /\ local'[q] = local[q]
    BY FinishMoves DEF Inv, TypeOK
<1>2. Arrives(r)'
    BY <1>1 DEF Arrives, Ready
<1>3. QED
    BY <1>1, <1>2, ReadStep

LEMMA ReadOrderStep ==
    ASSUME Inv, Locked, NEW r \in Requests, NEW o \in OrderIds, NEW next,
           NEW step \in {"confirm", "fail", "cancel", "advance"}, ReadOrder(r, o, step, next),
           step \in {"confirm", "fail"} => orders[o].status = "PENDING_PAYMENT",
           step = "cancel" => orders[o].status \in CUSTOMER_CANCELLABLE,
           step = "advance" => next # "PLACED"
    PROVE  Kept' /\ Refines
<1>1. /\ pc'[r] = step /\ local'[r].order = o /\ local'[r].row = orders[o] /\ local'[r].next = next
      /\ \A q \in Requests : q # r => pc'[q] = pc[q] /\ local'[q] = local[q]
      /\ UNCHANGED db
    BY ContinueMoves DEF ReadOrder, Inv, TypeOK
<1>2. UNCHANGED orders
    BY <1>1 DEF db
<1>3. Arrives(r)'
    BY <1>1, <1>2 DEF Arrives, Ready
<1>4. QED
    BY <1>1, <1>3, ReadStep

LEMMA PlaceRefines ==
    ASSUME Inv, Shape, Locked, NEW r \in Requests, Place(r)
    PROVE  Kept' /\ Refines
<1>0. RequestsOK /\ local[r] \in LocalRow
    BY DEF Inv, TypeOK, RequestsOK
<1>1. CASE PlaceReadItems(r)
    <2>1. /\ pc'[r] = "place" /\ UNCHANGED db
          /\ \A q \in Requests : q # r => pc'[q] = pc[q] /\ local'[q] = local[q]
        BY <1>0, <1>1, ContinueMoves DEF PlaceReadItems
    <2>2. Arrives(r)'
        BY <2>1 DEF Arrives, Ready
    <2>3. QED
        BY <2>1, <2>2, ReadStep
<1>2. CASE PlaceEvaluate(r)
    <2> DEFINE m == local[r].row.method
               step == IF m = "WALLET" THEN "placeDebit" ELSE "placeCommit"
    <2>1. PICK new :
            new = [user |-> local[r].row.user, method |-> m,
                   status |-> IF IsImmediate(m) THEN "PLACED" ELSE "PENDING_PAYMENT",
                   pay |-> CASE m = "WALLET" -> "PAID"
                             [] m = "COD" -> "PENDING"
                             [] OTHER -> "PROCESSING",
                   total |-> PriceOf(cart[local[r].row.user].coupon /\ CouponValid(local[r].row.user),
                                     Min2(cart[local[r].row.user].coins, Redeemable(local[r].row.user))),
                   coins |-> Min2(cart[local[r].row.user].coins, Redeemable(local[r].row.user)),
                   coupon |-> cart[local[r].row.user].coupon /\ CouponValid(local[r].row.user)]
        OBVIOUS
    <2>2. Continue(r, step, [local[r] EXCEPT !.row = new])
        BY <1>2, <2>1 DEF PlaceEvaluate
    <2>3. /\ pc'[r] = step /\ local'[r].row.method = m
          /\ m = "WALLET" => local'[r].row.pay = "PAID"
        <3>1. new.method = m /\ (m = "WALLET" => new.pay = "PAID")
            BY <2>1
        <3>2. pc'[r] = step /\ local'[r] = [local[r] EXCEPT !.row = new]
            BY <1>0, <2>2, ContinueMoves
        <3>3. QED
            BY <1>0, <3>1, <3>2 DEF LocalRow
    <2>4. \A q \in Requests : q # r => pc'[q] = pc[q] /\ local'[q] = local[q]
        BY <1>0, <2>2, ContinueMoves
    <2>5. Arrives(r)'
        BY <2>3 DEF Arrives, Ready
    <2>6. QED
        BY <1>2, <2>4, <2>5, ReadStep DEF PlaceEvaluate
<1>3. CASE PlaceDebitCheck(r)
    <2>1. CASE Finish(r)
        BY <1>3, <2>1, FinishStep DEF PlaceDebitCheck
    <2>2. CASE Continue(r, "placeCommit", local[r])
        <3>1. /\ pc[r] = "placeDebit" /\ pc'[r] = "placeCommit" /\ local'[r] = local[r] /\ UNCHANGED db
              /\ \A q \in Requests : q # r => pc'[q] = pc[q] /\ local'[q] = local[q]
            BY <1>0, <1>3, <2>2, ContinueMoves DEF PlaceDebitCheck
        <3>2. Arrives(r)'
            BY <3>1 DEF Arrives, Ready, Locked, PaidDrafts
        <3>3. QED
            BY <3>1, <3>2, ReadStep
    <2>3. QED
        BY <1>3, <2>1, <2>2 DEF PlaceDebitCheck
<1>4. CASE PlaceCommitImmediate(r)
    BY <1>4, PlaceImmediateRefines
<1>5. CASE PlaceCommitPending(r)
    BY <1>5, PlacePendingRefines
<1>6. CASE PlaceConflict(r)
    BY <1>6, FinishStep DEF PlaceConflict
<1>7. CASE NotifyKitchen(r)
    <2>1. /\ pc'[r] = "done" /\ UNCHANGED <<orders, books>>
          /\ \A q \in Requests : q # r => pc'[q] = pc[q] /\ local'[q] = local[q]
        BY <1>0, <1>7, FinishMoves DEF NotifyKitchen
    <2>2. Kept'
        BY <2>1 DEF Locked, Kept, Held, Ready, PaidDrafts, PaidOrders, BooksBalance
    <2>3. UNCHANGED Lifecycle!vars
        BY <2>1 DEF Lifecycle!vars
    <2>4. QED
        BY <2>2, <2>3 DEF Refines
<1>8. QED
    BY <1>1, <1>2, <1>3, <1>4, <1>5, <1>6, <1>7, Place(r) DEF Place

LEMMA PayRefines ==
    ASSUME Inv, Shape, Locked, NEW r \in Requests, Pay(r)
    PROVE  Kept' /\ Refines
<1>1. CASE ConfirmRead(r)
    BY <1>1, ReadOrderStep DEF ConfirmRead
<1>2. CASE ConfirmCommit(r)
    BY <1>2, Owns, ConfirmRefines DEF ConfirmCommit, HoldsOrder
<1>3. CASE ConfirmConflict(r)
    BY <1>3, FinishStep DEF ConfirmConflict
<1>4. CASE FailRead(r)
    BY <1>4, ReadOrderStep DEF FailRead
<1>5. CASE FailCommit(r)
    BY <1>5, Owns, FailRefines DEF FailCommit, HoldsOrder
<1>6. QED
    BY <1>1, <1>2, <1>3, <1>4, <1>5, Pay(r) DEF Pay

LEMMA MoveRefines ==
    ASSUME "PLACED" \notin Simulatable, Inv, Shape, Locked, NEW r \in Requests, Move(r)
    PROVE  Kept' /\ Refines
<1>1. CASE CancelRead(r)
    BY <1>1, ReadOrderStep DEF CancelRead
<1>2. CASE CancelCommit(r)
    <2>1. HoldsOrder(r) /\ Ready(r) /\ pc[r] = "cancel"
        BY <1>2 DEF CancelCommit, HoldsOrder, Locked, Held
    <2>2. local[r].row = orders[local[r].order] /\ orders[local[r].order].status \in CUSTOMER_CANCELLABLE
        BY <2>1 DEF Ready
    <2>3. CancelOrder(local[r].order, orders[local[r].order]) /\ Finish(r)
        BY <1>2, <2>2 DEF CancelCommit
    <2>4. local[r].order \in OrderIds
        BY <2>1, Owns
    <2>5. QED
        BY <2>1, <2>2, <2>3, <2>4, CancelRefines DEF CUSTOMER_CANCELLABLE
<1>3. CASE KitchenRead(r)
    <2>1. PICK o \in OrderIds, next \in KITCHEN_SETTABLE : ReadOrder(r, o, "advance", next)
        BY <1>3 DEF KitchenRead
    <2>2. next # "PLACED"
        BY DEF KITCHEN_SETTABLE
    <2>3. QED
        BY <2>1, <2>2, ReadOrderStep
<1>4. CASE SimulateRead(r)
    BY <1>4, ReadOrderStep DEF SimulateRead
<1>5. CASE AdvanceRead(r)
    <2>1. CASE Finish(r)
        BY <1>5, <2>1, FinishStep DEF AdvanceRead
    <2>2. CASE ~Finish(r)
        <3>1. /\ local[r].next \in ALLOWED_TRANSITIONS[orders[local[r].order].status]
              /\ Continue(r, "advanceCommit", [local[r] EXCEPT !.row = orders[local[r].order]])
              /\ UNCHANGED db /\ pc[r] = "advance"
            BY <1>5, <2>2 DEF AdvanceRead
        <3>2. RequestsOK /\ local[r] \in LocalRow
            BY DEF Inv, TypeOK, RequestsOK
        <3>3. /\ pc'[r] = "advanceCommit" /\ local'[r].order = local[r].order
              /\ local'[r].row = orders[local[r].order] /\ local'[r].next = local[r].next
              /\ \A q \in Requests : q # r => pc'[q] = pc[q] /\ local'[q] = local[q]
            BY <3>1, <3>2, ContinueMoves DEF LocalRow
        <3>4. orders' = orders /\ orders[local[r].order].status \in Statuses /\ local[r].next # "PLACED"
            BY <3>1, Owns DEF db, HoldsOrder, Locked, Held, Ready
        <3>5. Arrives(r)'
            BY <3>1, <3>3, <3>4 DEF Arrives, Ready
        <3>6. QED
            BY <3>1, <3>3, <3>5, ReadStep
    <2>3. QED
        BY <2>1, <2>2
<1>6. CASE AdvanceCommit(r)
    BY <1>6, Owns, AdvanceRefines DEF AdvanceCommit, HoldsOrder
<1>7. CASE AdvanceCommitCancel(r)
    <2>1. HoldsOrder(r) /\ Ready(r) /\ pc[r] = "advanceCommit" /\ local[r].next = "CANCELLED"
        BY <1>7 DEF AdvanceCommitCancel, HoldsOrder, Locked, Held
    <2>2. /\ local[r].row = orders[local[r].order] /\ orders[local[r].order].status \in Statuses
          /\ "CANCELLED" \in ALLOWED_TRANSITIONS[orders[local[r].order].status]
        BY <2>1 DEF Ready
    <2>3. CancelOrder(local[r].order, orders[local[r].order]) /\ Finish(r)
        BY <1>7, <2>2 DEF AdvanceCommitCancel
    <2>4. local[r].order \in OrderIds
        BY <2>1, Owns
    <2>5. QED
        BY <2>1, <2>2, <2>3, <2>4, Successors, CancelRefines
<1>8. QED
    BY <1>1, <1>2, <1>3, <1>4, <1>5, <1>6, <1>7, Move(r) DEF Move

-----------------------------------------------------------------------------
LEMMA InitLocked == Init => Locked /\ Lifecycle!Init
<1> SUFFICES ASSUME Init PROVE Locked /\ Lifecycle!Init
    OBVIOUS
<1>1. \A r \in Requests : pc[r] = "new"
    BY DEF Init
<1>2. \A o \in OrderIds : /\ orders[o].status = "NONE"
                          /\ books[o] = [debited |-> 0, refunded |-> 0, spent |-> 0, returned |-> 0]
    BY DEF Init, NoOrder
<1>3. OneRequestPerOrder /\ Held /\ PaidDrafts
    BY <1>1 DEF OneRequestPerOrder, HoldsOrder, Held, Ready, PaidDrafts
<1>4. PaidOrders /\ BooksBalance
    BY <1>2 DEF PaidOrders, BooksBalance, Released
<1>5. Lifecycle!Init
    BY <1>2 DEF Lifecycle!Init
<1>6. QED
    BY <1>3, <1>4, <1>5 DEF Locked

LEMMA NextLocked ==
    ASSUME "PLACED" \notin Simulatable, Inv, Shape, Locked, [LockedNext]_vars
    PROVE  Locked' /\ [Lifecycle!Next]_(Lifecycle!vars)
<1>1. CASE LockedNext
    <2>1. ASSUME NEW u \in Users, FillCart(u)
          PROVE  Kept' /\ Refines
        <3>1. UNCHANGED <<orders, books, pc, local>>
            BY <2>1 DEF FillCart
        <3>2. Kept'
            BY <3>1 DEF Locked, Kept, Held, Ready, PaidDrafts, PaidOrders, BooksBalance
        <3>3. UNCHANGED Lifecycle!vars
            BY <3>1 DEF Lifecycle!vars
        <3>4. QED
            BY <3>2, <3>3 DEF Refines
    <2>2. ASSUME NEW r \in Requests, Abort(r)
          PROVE  Kept' /\ Refines
        BY <2>2, FinishStep DEF Abort
    <2>3. Kept' /\ Refines
        BY <1>1, <2>1, <2>2, PlaceRefines, PayRefines, MoveRefines DEF LockedNext, Next
    <2>4. QED
        BY <1>1, <2>3 DEF Kept, Refines, Locked, LockedNext
<1>2. CASE UNCHANGED vars
    <2>1. UNCHANGED <<orders, books, pc, local>>
        BY <1>2 DEF vars
    <2>2. Locked'
        BY <2>1 DEF Locked, OneRequestPerOrder, HoldsOrder, Held, Ready, PaidDrafts, PaidOrders, BooksBalance
    <2>3. UNCHANGED Lifecycle!vars
        BY <2>1 DEF Lifecycle!vars
    <2>4. QED
        BY <2>2, <2>3
<1>3. QED
    BY <1>1, <1>2

LEMMA LockedSteps == [LockedNext]_vars => [Next]_vars
BY DEF LockedNext

(* settleCancellation and the commits: when requests on one order do not overlap,  *)
(* a live order holds exactly its price and its coins, every other order nothing,   *)
(* and a kitchen sees only orders that are paid, or cash.                           *)
THEOREM BooksAreBalanced ==
    ASSUME "PLACED" \notin Simulatable
    PROVE  LockedSpec => []BooksBalance
<1>1. Init => Inv /\ Shape /\ Locked
    BY InitInv, InitShape, InitLocked
<1>2. Inv /\ Shape /\ Locked /\ [LockedNext]_vars => (Inv /\ Shape /\ Locked)'
    BY LockedSteps, StepInv, StepShape, NextLocked
<1>3. Inv /\ Shape /\ Locked => BooksBalance
    BY DEF Locked
<1>4. QED
    BY <1>1, <1>2, <1>3, PTL DEF LockedSpec

(* The handlers, each read and commit of them, implement the atomic lifecycle.      *)
THEOREM LifecycleIsImplemented ==
    ASSUME "PLACED" \notin Simulatable
    PROVE  LockedSpec => ImplementsLifecycle
<1>1. Init => Inv /\ Shape /\ Locked /\ Lifecycle!Init
    BY InitInv, InitShape, InitLocked
<1>2. Inv /\ Shape /\ Locked /\ [LockedNext]_vars => (Inv /\ Shape /\ Locked)'
    BY LockedSteps, StepInv, StepShape, NextLocked
<1>3. Inv /\ Shape /\ Locked /\ [LockedNext]_vars => [Lifecycle!Next]_(Lifecycle!vars)
    BY NextLocked
<1>4. QED
    BY <1>1, <1>2, <1>3, PTL DEF LockedSpec, ImplementsLifecycle, Lifecycle!Spec

=============================================================================
