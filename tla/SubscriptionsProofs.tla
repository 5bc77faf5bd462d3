------------------------ MODULE SubscriptionsProofs ------------------------
(***************************************************************************)
(* What is proved about module Subscriptions for any subscriptions,        *)
(* requests, prices and bounds.  Inv holds in every interleaving; Alone is  *)
(* what each request has read, and holds as long as no two requests about   *)
(* one subscription have overlapped.                                        *)
(***************************************************************************)
EXTENDS Subscriptions, TLAPS

Statuses == {"NONE", "PENDING", "ACTIVE", "PAUSED", "REJECTED", "CANCELLED"}

Row == [status : Statuses, wallet : BOOLEAN, start : Nat, coins : 0..MaxCoins, pausedUntil : Int]

Planned == [status : {"SCHEDULED", "DISPATCHED", "SKIPPED"}, swapped : BOOLEAN]

DeliveryCalls == {"dispatch", "skip", "swap"}

Steps == {"idle", "approve", "reject", "kitchenPause", "pause", "kitchenResume", "resume", "cancel",
          "rejectStatus", "deliveries", "billing", "settle"} \cup DeliveryCalls

TypeInv ==
    /\ subs \in [Subs -> Row]
    /\ bills \in [Subs -> [Cycles -> Nat]]
    /\ deliveries \in [Subs -> [Days -> Planned \cup {NoDelivery}]]
    /\ refunds \in [Subs -> Nat]
    /\ day \in 0..MaxDay
    /\ pc \in [Requests -> Steps]
    /\ target \in [Requests -> [sub : Subs, date : Days]]

(* The subscription, or the delivery, a request in flight is about is there. *)
Begun ==
    \A r \in Requests :
        IF pc[r] \in DeliveryCalls
        THEN deliveries[target[r].sub][target[r].date] # NoDelivery
        ELSE pc[r] # "idle" => subs[target[r].sub].status # "NONE"

Unborn ==
    \A s \in Subs :
        subs[s].status = "NONE" => ~subs[s].wallet /\ \A c \in Cycles : bills[s][c] = 0

(* A rejection past its first commit has refunded. *)
Reversed ==
    \A r \in Requests :
        pc[r] = "rejectStatus" /\ subs[target[r].sub].wallet => refunds[target[r].sub] > 0

Inv ==
    /\ TypeInv
    /\ Begun
    /\ Unborn
    /\ Reversed
    /\ FirstCycleKeepsItsPrice
    /\ BillsFollowCycles
    /\ RejectedIsRefunded

(* The statuses a request at a step has read, or written. *)
Expected(step) ==
    CASE step \in {"approve", "reject", "rejectStatus"}      -> {"PENDING"}
      [] step \in {"kitchenPause", "pause"}                  -> {"ACTIVE"}
      [] step \in {"kitchenResume", "resume", "settle"}      -> {"PAUSED"}
      [] step = "cancel"                                     -> {"PENDING", "ACTIVE", "PAUSED"}
      [] step \in {"deliveries", "billing"}                  -> {"ACTIVE"}
      [] OTHER                                               -> Statuses

Current == \A r \in Requests : subs[target[r].sub].status \in Expected(pc[r])

Alone == OneRequestPerSub /\ Current

(* Request r writes the row it is about and goes on to a step, or ends. *)
Writes(r, status, until, step) ==
    /\ pc[r] \notin DeliveryCalls \cup {"idle"}
    /\ Update(target[r].sub, status, until)
    /\ IF step = "idle" THEN Finish(r) ELSE Goto(r, step)
    /\ UNCHANGED <<bills, deliveries, refunds, day>>

Verdict(r, status, step) ==
    /\ status \in {"ACTIVE", "PAUSED", "REJECTED", "CANCELLED"}
    /\ status = "REJECTED" => pc[r] = "rejectStatus"
    /\ step = "idle" \/ (step = "deliveries" /\ status = "ACTIVE")

-----------------------------------------------------------------------------
(* What the helpers of the actions do *)

LEMMA ConstantsOK ==
    /\ MaxDay \in Nat /\ WindowDays \in Nat \ {0} /\ CycleDays \in Nat \ {0} /\ CycleGuard \in Nat \ {0}
    /\ MaxCoins \in Nat /\ PricePerCycle \in Nat /\ PricePerCycle > MaxCoins
    /\ StartDays \subseteq Nat /\ PauseDays \subseteq Nat \ {0}
    /\ 0 \in Days /\ 0 \in Cycles
    /\ NoTarget \in [sub : Subs, date : Days]
<1>1. /\ MaxDay \in Nat /\ WindowDays \in Nat \ {0} /\ CycleDays \in Nat \ {0} /\ CycleGuard \in Nat \ {0}
      /\ MaxCoins \in Nat /\ PricePerCycle \in Nat /\ PricePerCycle > MaxCoins
      /\ StartDays \subseteq Nat /\ PauseDays \subseteq Nat \ {0} /\ Subs # {}
    BY SubscriptionsAssumption
<1>2. 0 \in Days /\ 0 \in Cycles
    BY <1>1 DEF Days, Cycles
<1>3. (CHOOSE s \in Subs : TRUE) \in Subs
    BY <1>1
<1>4. QED
    BY <1>1, <1>2, <1>3 DEF NoTarget

LEMMA FinishOK ==
    ASSUME TypeInv, NEW r \in Requests, Finish(r)
    PROVE  /\ pc' \in [Requests -> Steps] /\ target' \in [Requests -> [sub : Subs, date : Days]]
           /\ pc'[r] = "idle"
           /\ \A q \in Requests \ {r} : pc'[q] = pc[q] /\ target'[q] = target[q]
BY ConstantsOK DEF TypeInv, Finish, Steps

LEMMA GotoOK ==
    ASSUME TypeInv, NEW r \in Requests, NEW step \in Steps, Goto(r, step)
    PROVE  /\ pc' \in [Requests -> Steps] /\ target' = target
           /\ pc'[r] = step
           /\ \A q \in Requests \ {r} : pc'[q] = pc[q]
BY DEF TypeInv, Goto

LEMMA UpdateOK ==
    ASSUME TypeInv, NEW s \in Subs, NEW status \in Statuses, NEW until \in Int, Update(s, status, until)
    PROVE  /\ subs' \in [Subs -> Row]
           /\ subs'[s].status = status /\ subs'[s].wallet = subs[s].wallet
           /\ subs'[s].start = subs[s].start /\ subs'[s].coins = subs[s].coins
           /\ \A t \in Subs \ {s} : subs'[t] = subs[t]
<1>1. subs[s] \in Row /\ subs \in [Subs -> Row]
    BY DEF TypeInv
<1> DEFINE row == [subs[s] EXCEPT !.status = status, !.pausedUntil = until]
<1>2. row \in Row /\ row.status = status /\ row.wallet = subs[s].wallet
      /\ row.start = subs[s].start /\ row.coins = subs[s].coins
    BY <1>1 DEF Row
<1>3. subs' = [subs EXCEPT ![s] = row]
    BY DEF Update
<1> HIDE DEF row
<1>4. QED
    BY <1>1, <1>2, <1>3

LEMMA WritesOK ==
    ASSUME TypeInv, NEW r \in Requests, NEW status, NEW until \in Int, NEW step,
           Writes(r, status, until, step), Verdict(r, status, step)
    PROVE  /\ target[r].sub \in Subs
           /\ subs' \in [Subs -> Row]
           /\ subs'[target[r].sub].status = status
           /\ subs'[target[r].sub].wallet = subs[target[r].sub].wallet
           /\ subs'[target[r].sub].start = subs[target[r].sub].start
           /\ subs'[target[r].sub].coins = subs[target[r].sub].coins
           /\ \A t \in Subs \ {target[r].sub} : subs'[t] = subs[t]
           /\ pc' \in [Requests -> Steps] /\ target' \in [Requests -> [sub : Subs, date : Days]]
           /\ pc'[r] = step
           /\ step # "idle" => target'[r] = target[r]
           /\ \A q \in Requests \ {r} : pc'[q] = pc[q] /\ target'[q] = target[q]
           /\ UNCHANGED <<bills, deliveries, refunds, day>>
<1>1. target[r].sub \in Subs /\ target \in [Requests -> [sub : Subs, date : Days]]
    BY DEF TypeInv
<1>2. status \in Statuses /\ step \in Steps
    BY DEF Verdict, Statuses, Steps
<1>3. Update(target[r].sub, status, until) /\ UNCHANGED <<bills, deliveries, refunds, day>>
    BY DEF Writes
<1>4. CASE step = "idle"
    <2>1. Finish(r)
        BY <1>4 DEF Writes
    <2>2. QED
        BY <1>1, <1>2, <1>3, <1>4, <2>1, FinishOK, UpdateOK
<1>5. CASE step # "idle"
    <2>1. Goto(r, step)
        BY <1>5 DEF Writes
    <2>2. QED
        BY <1>1, <1>2, <1>3, <1>5, <2>1, GotoOK, UpdateOK
<1>6. QED
    BY <1>4, <1>5

(* Eight handlers end in one such write. *)
RowAction(r) ==
    \/ Approve(r) \/ RejectStatus(r) \/ KitchenPause(r) \/ Pause(r)
    \/ KitchenResume(r) \/ Resume(r) \/ Cancel(r) \/ SettlePause(r)

LEMMA RowActionsWrite ==
    ASSUME TypeInv, NEW r \in Requests, RowAction(r)
    PROVE  \E status, step : \E until \in Int :
              /\ Writes(r, status, until, step) /\ Verdict(r, status, step)
              /\ \A old \in Expected(pc[r]) :
                    <<old, status>> \in {<<"PENDING", "ACTIVE">>, <<"PENDING", "REJECTED">>,
                       <<"PENDING", "CANCELLED">>, <<"ACTIVE", "PAUSED">>, <<"ACTIVE", "CANCELLED">>,
                       <<"PAUSED", "ACTIVE">>, <<"PAUSED", "CANCELLED">>}
<1> DEFINE until == subs[target[r].sub].pausedUntil
           Legal(status) ==
              \A old \in Expected(pc[r]) :
                    <<old, status>> \in {<<"PENDING", "ACTIVE">>, <<"PENDING", "REJECTED">>,
                       <<"PENDING", "CANCELLED">>, <<"ACTIVE", "PAUSED">>, <<"ACTIVE", "CANCELLED">>,
                       <<"PAUSED", "ACTIVE">>, <<"PAUSED", "CANCELLED">>}
<1>1. until \in Int /\ Never \in Int
    BY DEF TypeInv, Row, Never
<1>2. CASE Approve(r)
    <2>1. Writes(r, "ACTIVE", until, "deliveries") /\ Verdict(r, "ACTIVE", "deliveries") /\ Legal("ACTIVE")
        BY <1>2 DEF Approve, Writes, Verdict, Expected, DeliveryCalls
    <2>2. QED
        BY <1>1, <2>1
<1>3. CASE RejectStatus(r)
    <2>1. Writes(r, "REJECTED", until, "idle") /\ Verdict(r, "REJECTED", "idle") /\ Legal("REJECTED")
        BY <1>3 DEF RejectStatus, Writes, Verdict, Expected, DeliveryCalls
    <2>2. QED
        BY <1>1, <2>1
<1>4. CASE KitchenPause(r)
    <2>1. Writes(r, "PAUSED", until, "idle") /\ Verdict(r, "PAUSED", "idle") /\ Legal("PAUSED")
        BY <1>4 DEF KitchenPause, Writes, Verdict, Expected, DeliveryCalls
    <2>2. QED
        BY <1>1, <2>1
<1>5. CASE Pause(r)
    <2>1. PICK u \in {target[r].date + n : n \in PauseDays} \cup {Never} : Update(target[r].sub, "PAUSED", u)
        BY <1>5 DEF Pause
    <2>2. u \in Int
        BY <1>1, ConstantsOK DEF TypeInv, Days
    <2>3. Writes(r, "PAUSED", u, "idle") /\ Verdict(r, "PAUSED", "idle") /\ Legal("PAUSED")
        BY <1>5, <2>1 DEF Pause, Writes, Verdict, Expected, DeliveryCalls
    <2>4. QED
        BY <2>2, <2>3
<1>6. CASE KitchenResume(r)
    <2>1. Writes(r, "ACTIVE", until, "deliveries") /\ Verdict(r, "ACTIVE", "deliveries") /\ Legal("ACTIVE")
        BY <1>6 DEF KitchenResume, Writes, Verdict, Expected, DeliveryCalls
    <2>2. QED
        BY <1>1, <2>1
<1>7. CASE Resume(r)
    <2>1. Writes(r, "ACTIVE", Never, "deliveries") /\ Verdict(r, "ACTIVE", "deliveries") /\ Legal("ACTIVE")
        BY <1>7 DEF Resume, Writes, Verdict, Expected, DeliveryCalls
    <2>2. QED
        BY <1>1, <2>1
<1>8. CASE Cancel(r)
    <2>1. Writes(r, "CANCELLED", until, "idle") /\ Verdict(r, "CANCELLED", "idle") /\ Legal("CANCELLED")
        BY <1>8 DEF Cancel, Writes, Verdict, Expected, DeliveryCalls
    <2>2. QED
        BY <1>1, <2>1
<1>9. CASE SettlePause(r)
    <2>1. Writes(r, "ACTIVE", Never, "deliveries") /\ Verdict(r, "ACTIVE", "deliveries") /\ Legal("ACTIVE")
        BY <1>9 DEF SettlePause, Writes, Verdict, Expected, DeliveryCalls
    <2>2. QED
        BY <1>1, <2>1
<1>10. QED
    BY <1>2, <1>3, <1>4, <1>5, <1>6, <1>7, <1>8, <1>9 DEF RowAction

-----------------------------------------------------------------------------
(* Every interleaving *)

LEMMA InitInv == Init => Inv
<1> SUFFICES ASSUME Init PROVE Inv
    OBVIOUS
<1>1. NoSub \in Row /\ NoSub.status = "NONE" /\ NoSub.wallet = FALSE
    BY ConstantsOK DEF NoSub, Row, Statuses, Never
<1>2. \A s \in Subs : subs[s] = NoSub /\ \A c \in Cycles : bills[s][c] = 0
    BY DEF Init
<1>3. \A r \in Requests : pc[r] = "idle"
    BY DEF Init
<1>4. TypeInv
    <2>1. subs \in [Subs -> Row] /\ deliveries \in [Subs -> [Days -> Planned \cup {NoDelivery}]]
        BY <1>1 DEF Init
    <2>2. bills \in [Subs -> [Cycles -> Nat]] /\ refunds \in [Subs -> Nat] /\ day \in 0..MaxDay
        BY ConstantsOK DEF Init
    <2>3. pc \in [Requests -> Steps] /\ target \in [Requests -> [sub : Subs, date : Days]]
        BY ConstantsOK DEF Init, Steps
    <2>4. QED
        BY <2>1, <2>2, <2>3 DEF TypeInv
<1>5. Begun /\ Reversed
    BY <1>3 DEF Begun, Reversed, DeliveryCalls
<1>6. Unborn /\ FirstCycleKeepsItsPrice /\ BillsFollowCycles /\ RejectedIsRefunded
    BY <1>1, <1>2 DEF Unborn, FirstCycleKeepsItsPrice, BillsFollowCycles, RejectedIsRefunded
<1>7. QED
    BY <1>4, <1>5, <1>6 DEF Inv

LEMMA WritesInv ==
    ASSUME Inv, NEW r \in Requests, NEW status, NEW until \in Int, NEW step,
           Writes(r, status, until, step), Verdict(r, status, step)
    PROVE  Inv'
<1> DEFINE t == target[r].sub
<1>1. TypeInv /\ t \in Subs /\ pc[r] \notin DeliveryCalls \cup {"idle"}
    BY DEF Inv, TypeInv, Writes
<1>2. subs[t].status # "NONE"
    BY <1>1 DEF Inv, Begun
<1>3. /\ step \notin DeliveryCalls /\ step # "rejectStatus"
      /\ status # "NONE"
      /\ status = "REJECTED" => pc[r] = "rejectStatus"
    BY DEF Verdict, DeliveryCalls
<1>4. TypeInv'
    BY <1>1, WritesOK DEF TypeInv
<1>5. \A s \in Subs : /\ subs'[s].wallet = subs[s].wallet /\ subs'[s].start = subs[s].start
                      /\ subs'[s].coins = subs[s].coins
                      /\ s # t => subs'[s].status = subs[s].status
    BY <1>1, WritesOK
<1>6. subs'[t].status = status /\ UNCHANGED <<bills, deliveries, refunds, day>>
    BY <1>1, WritesOK
<1>7. /\ pc'[r] = step /\ (step # "idle" => target'[r] = target[r])
      /\ \A q \in Requests \ {r} : pc'[q] = pc[q] /\ target'[q] = target[q]
      /\ target[r].sub = t /\ \A q \in Requests : target[q].sub \in Subs
    BY <1>1, WritesOK DEF TypeInv
<1> HIDE DEF t
<1>8. Begun'
    <2> SUFFICES ASSUME NEW q \in Requests
                 PROVE  IF pc'[q] \in DeliveryCalls
                        THEN deliveries'[target'[q].sub][target'[q].date] # NoDelivery
                        ELSE pc'[q] # "idle" => subs'[target'[q].sub].status # "NONE"
        BY DEF Begun
    <2>1. CASE q = r
        BY <2>1, <1>3, <1>6, <1>7
    <2>2. CASE q # r
        <3>1. pc'[q] = pc[q] /\ target'[q] = target[q] /\ target[q].sub \in Subs
            BY <2>2, <1>7
        <3>2. subs[target[q].sub].status # "NONE" => subs'[target[q].sub].status # "NONE"
            BY <3>1, <1>3, <1>5, <1>6
        <3>3. QED
            BY <3>1, <3>2, <1>6 DEF Inv, Begun
    <2>3. QED
        BY <2>1, <2>2
<1>9. Unborn'
    BY <1>3, <1>5, <1>6 DEF Inv, Unborn
<1>10. Reversed'
    <2> SUFFICES ASSUME NEW q \in Requests, pc'[q] = "rejectStatus", subs'[target'[q].sub].wallet
                 PROVE  refunds'[target'[q].sub] > 0
        BY DEF Reversed
    <2>1. q # r
        BY <1>3, <1>7
    <2>2. pc[q] = "rejectStatus" /\ target'[q] = target[q] /\ subs[target[q].sub].wallet
        BY <2>1, <1>5, <1>7
    <2>3. QED
        BY <2>2, <1>6 DEF Inv, Reversed
<1>11. FirstCycleKeepsItsPrice'
    BY <1>2, <1>5, <1>6 DEF Inv, FirstCycleKeepsItsPrice, FirstCycleAmount
<1>12. BillsFollowCycles'
    BY <1>5, <1>6 DEF Inv, BillsFollowCycles, CycleStart
<1>13. RejectedIsRefunded'
    BY <1>3, <1>5, <1>6, <1>7 DEF Inv, RejectedIsRefunded, Reversed
<1>14. QED
    BY <1>4, <1>8, <1>9, <1>10, <1>11, <1>12, <1>13 DEF Inv

(* A step that only moves a request, or loses it, disturbs none of the tables. *)
LEMMA MovesInv ==
    ASSUME Inv, NEW r \in Requests, NEW step \in Steps \ {"rejectStatus"}, NEW s \in Subs, NEW d \in Days,
           UNCHANGED <<db, day>>,
           pc' = [pc EXCEPT ![r] = step], target' = [target EXCEPT ![r] = [sub |-> s, date |-> d]],
           IF step \in DeliveryCalls THEN deliveries[s][d] # NoDelivery
           ELSE step # "idle" => subs[s].status # "NONE"
    PROVE  Inv'
<1>1. TypeInv /\ UNCHANGED <<subs, bills, deliveries, refunds, day>>
    BY DEF Inv, db
<1>2. /\ pc' \in [Requests -> Steps] /\ target' \in [Requests -> [sub : Subs, date : Days]]
      /\ pc'[r] = step /\ target'[r].sub = s /\ target'[r].date = d
      /\ \A q \in Requests \ {r} : pc'[q] = pc[q] /\ target'[q] = target[q]
    BY <1>1 DEF TypeInv
<1>3. TypeInv'
    BY <1>1, <1>2 DEF TypeInv
<1>4. Begun'
    BY <1>1, <1>2 DEF Inv, Begun
<1>5. Reversed'
    BY <1>1, <1>2 DEF Inv, Reversed
<1>6. Unborn' /\ FirstCycleKeepsItsPrice' /\ BillsFollowCycles' /\ RejectedIsRefunded'
    BY <1>1 DEF Inv, Unborn, FirstCycleKeepsItsPrice, FirstCycleAmount, BillsFollowCycles, CycleStart,
                RejectedIsRefunded
<1>7. QED
    BY <1>3, <1>4, <1>5, <1>6 DEF Inv

LEMMA CycleOrder ==
    ASSUME TypeInv, NEW s \in Subs, NEW c \in Cycles \ {0}
    PROVE  /\ c - 1 \in Cycles
           /\ CycleStart(s, c) \in Nat /\ CycleStart(s, c - 1) \in Nat
           /\ CycleStart(s, c - 1) <= CycleStart(s, c)
<1>1. subs[s].start \in Nat /\ CycleDays \in Nat /\ CycleGuard \in Nat
    BY ConstantsOK DEF TypeInv, Row
<1>2. c \in Nat /\ c - 1 \in Nat /\ c - 1 \in Cycles
    BY <1>1 DEF Cycles
<1>3. c * CycleDays = (c - 1) * CycleDays + CycleDays
    BY <1>1, <1>2
<1>4. c * CycleDays \in Nat /\ (c - 1) * CycleDays \in Nat
    BY <1>1, <1>2
<1>5. QED
    BY <1>1, <1>2, <1>3, <1>4 DEF CycleStart

LEMMA CreateInv ==
    ASSUME Inv, NEW s \in Subs, Create(s)
    PROVE  Inv'
<1>1. PICK start \in StartDays, wallet \in BOOLEAN, coins \in 0..MaxCoins :
         /\ ~wallet => coins = 0
         /\ subs' = [subs EXCEPT ![s] = [status |-> "PENDING", wallet |-> wallet, start |-> start,
                                          coins |-> coins, pausedUntil |-> Never]]
         /\ bills' = IF wallet THEN [bills EXCEPT ![s][0] = PricePerCycle - coins] ELSE bills
    BY DEF Create
<1>2. TypeInv /\ subs[s].status = "NONE" /\ UNCHANGED <<deliveries, refunds, day, pc, target>>
    BY DEF Create, Inv
<1> DEFINE row == [status |-> "PENDING", wallet |-> wallet, start |-> start,
                   coins |-> coins, pausedUntil |-> Never]
           amount == PricePerCycle - coins
<1>3. row \in Row /\ amount \in Nat /\ amount # 0
    BY ConstantsOK DEF Row, Statuses, Never
<1>4. /\ subs'[s] = row /\ subs' \in [Subs -> Row]
      /\ \A t \in Subs \ {s} : subs'[t] = subs[t]
    BY <1>1, <1>2, <1>3 DEF TypeInv
<1>5. /\ bills' \in [Subs -> [Cycles -> Nat]]
      /\ bills'[s][0] = IF wallet THEN amount ELSE bills[s][0]
      /\ \A c \in Cycles \ {0} : bills'[s][c] = bills[s][c]
      /\ \A t \in Subs \ {s} : bills'[t] = bills[t]
    BY <1>1, <1>2, <1>3, ConstantsOK DEF TypeInv
<1>6. \A c \in Cycles : bills[s][c] = 0
    BY <1>2 DEF Inv, Unborn
<1>7. row.status = "PENDING" /\ row.wallet = wallet /\ row.coins = coins
    OBVIOUS
<1> HIDE DEF row
<1>8. \A r \in Requests : pc[r] \notin DeliveryCalls \cup {"idle"} => target[r].sub # s /\ target[r].sub \in Subs
    BY <1>2 DEF Inv, Begun, TypeInv
<1>9. TypeInv'
    BY <1>2, <1>4, <1>5 DEF TypeInv
<1>10. Begun'
    BY <1>2, <1>4, <1>8 DEF Inv, Begun
<1>11. Reversed'
    <2> SUFFICES ASSUME NEW r \in Requests, pc[r] = "rejectStatus", subs'[target[r].sub].wallet
                 PROVE  refunds[target[r].sub] > 0
        BY <1>2 DEF Reversed
    <2>1. target[r].sub # s /\ target[r].sub \in Subs
        BY <1>8 DEF DeliveryCalls
    <2>2. QED
        BY <1>4, <2>1 DEF Inv, Reversed
<1>12. Unborn'
    BY <1>4, <1>5, <1>7 DEF Inv, Unborn
<1>13. FirstCycleKeepsItsPrice'
    BY <1>4, <1>5, <1>7 DEF Inv, FirstCycleKeepsItsPrice, FirstCycleAmount
<1>14. BillsFollowCycles'
    <2> SUFFICES ASSUME NEW t \in Subs, NEW c \in Cycles \ {0}, bills'[t][c] # 0
                 PROVE  CycleStart(t, c)' <= day' /\ bills'[t][c - 1] # 0
        BY DEF BillsFollowCycles
    <2>1. t # s
        BY <1>5, <1>6
    <2>2. bills'[t] = bills[t] /\ subs'[t] = subs[t] /\ day' = day
        BY <2>1, <1>2, <1>4, <1>5
    <2>3. QED
        BY <2>2 DEF Inv, BillsFollowCycles, CycleStart
<1>15. RejectedIsRefunded'
    BY <1>2, <1>4, <1>7 DEF Inv, RejectedIsRefunded
<1>16. QED
    BY <1>9, <1>10, <1>11, <1>12, <1>13, <1>14, <1>15 DEF Inv

LEMMA PauseAllInv ==
    ASSUME Inv, NEW n \in PauseDays, PauseAll(n)
    PROVE  Inv'
<1>1. TypeInv /\ UNCHANGED <<bills, deliveries, refunds, day, pc, target>>
    BY DEF PauseAll, Inv
<1>2. day + n \in Int
    BY <1>1, ConstantsOK DEF TypeInv
<1>3. ASSUME NEW s \in Subs
      PROVE  /\ subs'[s] \in Row /\ subs'[s].wallet = subs[s].wallet
             /\ subs'[s].start = subs[s].start /\ subs'[s].coins = subs[s].coins
             /\ subs'[s].status = IF subs[s].status = "ACTIVE" THEN "PAUSED" ELSE subs[s].status
    <2>1. subs'[s] = IF subs[s].status = "ACTIVE"
                     THEN [subs[s] EXCEPT !.status = "PAUSED", !.pausedUntil = day + n]
                     ELSE subs[s]
        BY DEF PauseAll
    <2>2. subs[s] \in Row
        BY <1>1 DEF TypeInv
    <2>3. QED
        BY <1>2, <2>1, <2>2 DEF Row, Statuses
<1>4. TypeInv'
    <2>1. subs' = [s \in Subs |-> subs'[s]]
        BY DEF PauseAll
    <2>2. subs' \in [Subs -> Row]
        BY <1>3, <2>1
    <2>3. QED
        BY <1>1, <2>2 DEF TypeInv
<1>5. \A r \in Requests : target[r].sub \in Subs
    BY <1>1 DEF TypeInv
<1>6. Begun' /\ Reversed'
    BY <1>1, <1>3, <1>5 DEF Inv, Begun, Reversed
<1>7. Unborn'
    BY <1>1, <1>3 DEF Inv, Unborn
<1>8. FirstCycleKeepsItsPrice' /\ RejectedIsRefunded'
    BY <1>1, <1>3 DEF Inv, FirstCycleKeepsItsPrice, FirstCycleAmount, RejectedIsRefunded
<1>9. BillsFollowCycles'
    BY <1>1, <1>3 DEF Inv, BillsFollowCycles, CycleStart
<1>10. QED
    BY <1>4, <1>6, <1>7, <1>8, <1>9 DEF Inv

LEMMA BackfillDeliveriesInv ==
    ASSUME Inv, NEW r \in Requests, BackfillDeliveries(r)
    PROVE  Inv'
<1> DEFINE t == target[r].sub
<1>1. /\ TypeInv /\ t \in Subs /\ pc[r] = "deliveries"
      /\ Goto(r, "billing") /\ UNCHANGED <<subs, bills, refunds, day>>
    BY DEF BackfillDeliveries, Inv, TypeInv
<1>2. "billing" \in Steps
    BY DEF Steps
<1>3. /\ pc' \in [Requests -> Steps] /\ target' = target /\ pc'[r] = "billing"
      /\ \A q \in Requests \ {r} : pc'[q] = pc[q]
    BY <1>1, <1>2, GotoOK
<1>4. /\ deliveries' \in [Subs -> [Days -> Planned \cup {NoDelivery}]]
      /\ \A s \in Subs, d \in Days : deliveries[s][d] # NoDelivery => deliveries'[s][d] = deliveries[s][d]
    <2> DEFINE filled == [d \in Days |->
                 IF d \in day..(day + WindowDays - 1) \ OffDays /\ deliveries[t][d].status = "NONE"
                 THEN Scheduled ELSE deliveries[t][d]]
    <2>1. \A d \in Days : deliveries[t][d] \in Planned \cup {NoDelivery}
        BY <1>1 DEF TypeInv
    <2>2. Scheduled \in Planned /\ \A x \in Planned : x.status # "NONE"
        BY DEF Scheduled, Planned
    <2>3. deliveries' = [deliveries EXCEPT ![t] = filled]
        BY <1>1 DEF BackfillDeliveries
    <2>4. filled \in [Days -> Planned \cup {NoDelivery}]
        BY <2>1, <2>2
    <2>5. \A d \in Days : deliveries[t][d] # NoDelivery => filled[d] = deliveries[t][d]
        BY <2>1, <2>2
    <2> HIDE DEF filled
    <2>6. QED
        BY <1>1, <2>3, <2>4, <2>5 DEF TypeInv
<1>5. TypeInv'
    BY <1>1, <1>3, <1>4 DEF TypeInv
<1>6. \A q \in Requests : target[q].sub \in Subs /\ target[q].date \in Days
    BY <1>1 DEF TypeInv
<1>7. Begun'
    <2> SUFFICES ASSUME NEW q \in Requests
                 PROVE  IF pc'[q] \in DeliveryCalls
                        THEN deliveries'[target[q].sub][target[q].date] # NoDelivery
                        ELSE pc'[q] # "idle" => subs[target[q].sub].status # "NONE"
        BY <1>1, <1>3 DEF Begun
    <2>1. CASE q = r
        BY <2>1, <1>1, <1>3 DEF Inv, Begun, DeliveryCalls
    <2>2. CASE q # r
        BY <2>2, <1>3, <1>4, <1>6 DEF Inv, Begun
    <2>3. QED
        BY <2>1, <2>2
<1>8. Reversed'
    BY <1>1, <1>3 DEF Inv, Reversed
<1>9. Unborn' /\ FirstCycleKeepsItsPrice' /\ BillsFollowCycles' /\ RejectedIsRefunded'
    BY <1>1 DEF Inv, Unborn, FirstCycleKeepsItsPrice, FirstCycleAmount, BillsFollowCycles, CycleStart,
                RejectedIsRefunded
<1>10. QED
    BY <1>5, <1>7, <1>8, <1>9 DEF Inv

LEMMA BackfillBillingInv ==
    ASSUME Inv, NEW r \in Requests, BackfillBilling(r)
    PROVE  Inv'
<1> DEFINE t == target[r].sub
<1>1. /\ TypeInv /\ t \in Subs /\ pc[r] = "billing"
      /\ Finish(r) /\ UNCHANGED <<subs, deliveries, refunds, day>>
    BY DEF BackfillBilling, Inv, TypeInv
<1>2. /\ pc' \in [Requests -> Steps] /\ target' \in [Requests -> [sub : Subs, date : Days]]
      /\ pc'[r] = "idle"
      /\ \A q \in Requests \ {r} : pc'[q] = pc[q] /\ target'[q] = target[q]
    BY <1>1, FinishOK
<1>3. PricePerCycle \in Nat \ {0}
    BY ConstantsOK
<1>4. /\ bills' \in [Subs -> [Cycles -> Nat]]
      /\ \A c \in Cycles : bills'[t][c] = IF CycleStart(t, c) <= day /\ bills[t][c] = 0
                                           THEN PricePerCycle ELSE bills[t][c]
      /\ \A s \in Subs \ {t} : bills'[s] = bills[s]
    <2> DEFINE filled == [c \in Cycles |-> IF CycleStart(t, c) <= day /\ bills[t][c] = 0
                                           THEN PricePerCycle ELSE bills[t][c]]
    <2>1. bills' = [bills EXCEPT ![t] = filled]
        BY <1>1 DEF BackfillBilling
    <2>2. filled \in [Cycles -> Nat]
        BY <1>1, <1>3 DEF TypeInv
    <2>3. QED
        BY <1>1, <2>1, <2>2 DEF TypeInv
<1>5. TypeInv'
    BY <1>1, <1>2, <1>4 DEF TypeInv
<1>6. Begun' /\ Reversed'
    BY <1>1, <1>2 DEF Inv, Begun, Reversed, DeliveryCalls
<1>7. subs[t].status # "NONE"
    BY <1>1 DEF Inv, Begun, DeliveryCalls
<1>8. Unborn'
    BY <1>1, <1>4, <1>7 DEF Inv, Unborn
<1>9. FirstCycleKeepsItsPrice'
    <2> SUFFICES ASSUME NEW s \in Subs, subs[s].status # "NONE", subs[s].wallet
                 PROVE  bills'[s][0] = FirstCycleAmount(s)
        BY <1>1 DEF FirstCycleKeepsItsPrice, FirstCycleAmount
    <2>1. bills[s][0] = FirstCycleAmount(s) /\ subs[s].coins \in 0..MaxCoins
        BY <1>1 DEF Inv, FirstCycleKeepsItsPrice, TypeInv, Row
    <2>2. bills[s][0] # 0
        BY <2>1, ConstantsOK DEF FirstCycleAmount
    <2>3. QED
        BY <2>1, <2>2, <1>4, ConstantsOK
<1>10. BillsFollowCycles'
    <2> SUFFICES ASSUME NEW s \in Subs, NEW c \in Cycles \ {0}, bills'[s][c] # 0
                 PROVE  CycleStart(s, c) <= day /\ bills'[s][c - 1] # 0
        BY <1>1 DEF BillsFollowCycles, CycleStart
    <2>1. CASE s # t
        BY <2>1, <1>4 DEF Inv, BillsFollowCycles
    <2>2. CASE s = t
        <3>1. CycleStart(t, c) <= day
            BY <2>2, <1>4 DEF Inv, BillsFollowCycles
        <3>2. CycleStart(t, c - 1) <= day /\ c - 1 \in Cycles
            BY <3>1, <1>1, CycleOrder DEF TypeInv
        <3>3. QED
            BY <2>2, <3>1, <3>2, <1>3, <1>4
    <2>3. QED
        BY <2>1, <2>2
<1>11. RejectedIsRefunded'
    BY <1>1 DEF Inv, RejectedIsRefunded
<1>12. QED
    BY <1>5, <1>6, <1>8, <1>9, <1>10, <1>11 DEF Inv

LEMMA RejectRefundInv ==
    ASSUME Inv, NEW r \in Requests, RejectRefund(r)
    PROVE  Inv'
<1> DEFINE t == target[r].sub
<1>1. /\ TypeInv /\ t \in Subs /\ pc[r] = "reject"
      /\ Goto(r, "rejectStatus") /\ UNCHANGED <<subs, bills, deliveries, day>>
    BY DEF RejectRefund, Inv, TypeInv
<1>2. "rejectStatus" \in Steps
    BY DEF Steps
<1>3. /\ pc' \in [Requests -> Steps] /\ target' = target /\ pc'[r] = "rejectStatus"
      /\ \A q \in Requests \ {r} : pc'[q] = pc[q]
    BY <1>1, <1>2, GotoOK
<1>4. /\ refunds' \in [Subs -> Nat]
      /\ \A s \in Subs : refunds'[s] >= refunds[s]
      /\ subs[t].wallet => refunds'[t] > 0
    <2>1. refunds \in [Subs -> Nat]
        BY <1>1 DEF TypeInv
    <2>2. CASE subs[t].wallet
        <3>1. refunds' = [refunds EXCEPT ![t] = refunds[t] + 1]
            BY <2>2 DEF RejectRefund
        <3>2. QED
            BY <1>1, <2>1, <3>1
    <2>3. CASE ~subs[t].wallet
        <3>1. refunds' = refunds
            BY <2>3 DEF RejectRefund
        <3>2. QED
            BY <2>1, <2>3, <3>1
    <2>4. QED
        BY <2>2, <2>3
<1>5. TypeInv'
    BY <1>1, <1>3, <1>4 DEF TypeInv
<1>6. \A q \in Requests : target[q].sub \in Subs
    BY <1>1 DEF TypeInv
<1>7. \A s \in Subs : refunds[s] > 0 => refunds'[s] > 0
    BY <1>1, <1>4 DEF TypeInv
<1>8. Begun'
    <2>1. subs[t].status # "NONE"
        BY <1>1 DEF Inv, Begun, DeliveryCalls
    <2>2. QED
        BY <2>1, <1>1, <1>3 DEF Inv, Begun, DeliveryCalls
<1>9. Reversed'
    BY <1>1, <1>3, <1>4, <1>6, <1>7 DEF Inv, Reversed
<1>10. Unborn' /\ FirstCycleKeepsItsPrice' /\ BillsFollowCycles'
    BY <1>1 DEF Inv, Unborn, FirstCycleKeepsItsPrice, FirstCycleAmount, BillsFollowCycles, CycleStart
<1>11. RejectedIsRefunded'
    BY <1>1, <1>7 DEF Inv, RejectedIsRefunded
<1>12. QED
    BY <1>5, <1>8, <1>9, <1>10, <1>11 DEF Inv

LEMMA DeliveryMoves ==
    ASSUME NEW row \in Planned
    PROVE  /\ [row EXCEPT !.status = "DISPATCHED"] \in Planned \ {Scheduled}
           /\ [row EXCEPT !.status = "SKIPPED"] \in Planned \ {Scheduled}
           /\ [row EXCEPT !.swapped = TRUE] \in Planned \ {Scheduled}
<1>1. [row EXCEPT !.status = "DISPATCHED"] \in Planned /\ [row EXCEPT !.status = "DISPATCHED"].status # "SCHEDULED"
    BY DEF Planned
<1>2. [row EXCEPT !.status = "SKIPPED"] \in Planned /\ [row EXCEPT !.status = "SKIPPED"].status # "SCHEDULED"
    BY DEF Planned
<1>3. [row EXCEPT !.swapped = TRUE] \in Planned /\ [row EXCEPT !.swapped = TRUE].swapped = TRUE
    BY DEF Planned
<1>4. Scheduled.status = "SCHEDULED" /\ Scheduled.swapped = FALSE
    BY DEF Scheduled
<1>5. QED
    BY <1>1, <1>2, <1>3, <1>4

LEMMA WriteDeliveryOK ==
    ASSUME Inv, NEW r \in Requests, WriteDelivery(r)
    PROVE  /\ target[r].sub \in Subs /\ target[r].date \in Days
           /\ deliveries[target[r].sub][target[r].date] # NoDelivery
           /\ deliveries'[target[r].sub][target[r].date] \in Planned
           /\ deliveries'[target[r].sub][target[r].date] # Scheduled
           /\ deliveries' \in [Subs -> [Days -> Planned \cup {NoDelivery}]]
           /\ \A s \in Subs, d \in Days : s # target[r].sub \/ d # target[r].date
                                            => deliveries'[s][d] = deliveries[s][d]
<1> DEFINE t == target[r].sub
           e == target[r].date
           new == CASE pc[r] = "dispatch" -> [deliveries[t][e] EXCEPT !.status = "DISPATCHED"]
                    [] pc[r] = "skip"     -> [deliveries[t][e] EXCEPT !.status = "SKIPPED"]
                    [] OTHER              -> [deliveries[t][e] EXCEPT !.swapped = TRUE]
<1>1. TypeInv /\ t \in Subs /\ e \in Days /\ pc[r] \in DeliveryCalls
    BY DEF Inv, TypeInv, WriteDelivery, DeliveryCalls
<1>2. deliveries[t][e] # NoDelivery /\ deliveries[t][e] \in Planned
    BY <1>1 DEF Inv, Begun, TypeInv
<1>3. deliveries' = [deliveries EXCEPT ![t] = [deliveries[t] EXCEPT ![e] = new]]
    BY DEF WriteDelivery
<1>4. new \in Planned /\ new # Scheduled
    <2>1. CASE pc[r] = "dispatch"
        BY <2>1, <1>2, DeliveryMoves
    <2>2. CASE pc[r] = "skip"
        BY <2>2, <1>2, DeliveryMoves
    <2>3. CASE pc[r] = "swap"
        BY <2>3, <1>2, DeliveryMoves
    <2>4. QED
        BY <1>1, <2>1, <2>2, <2>3 DEF DeliveryCalls
<1> HIDE DEF new
<1>5. QED
    BY <1>1, <1>2, <1>3, <1>4 DEF TypeInv

LEMMA WriteDeliveryInv ==
    ASSUME Inv, NEW r \in Requests, WriteDelivery(r)
    PROVE  Inv'
<1>1. TypeInv /\ Finish(r) /\ UNCHANGED <<subs, bills, refunds, day>> /\ pc[r] \in DeliveryCalls
    BY DEF WriteDelivery, Inv, DeliveryCalls
<1>2. /\ pc' \in [Requests -> Steps] /\ target' \in [Requests -> [sub : Subs, date : Days]]
      /\ pc'[r] = "idle"
      /\ \A q \in Requests \ {r} : pc'[q] = pc[q] /\ target'[q] = target[q]
    BY <1>1, FinishOK
<1>3. TypeInv'
    BY <1>1, <1>2, WriteDeliveryOK DEF TypeInv
<1>4. \A s \in Subs, d \in Days : deliveries[s][d] # NoDelivery => deliveries'[s][d] # NoDelivery
    <2>1. NoDelivery \notin Planned
        BY DEF NoDelivery, Planned
    <2>2. QED
        BY <2>1, WriteDeliveryOK
<1>5. \A q \in Requests : target[q].sub \in Subs /\ target[q].date \in Days
    BY <1>1 DEF TypeInv
<1>6. Begun'
    <2> SUFFICES ASSUME NEW q \in Requests \ {r}
                 PROVE  IF pc[q] \in DeliveryCalls
                        THEN deliveries'[target[q].sub][target[q].date] # NoDelivery
                        ELSE pc[q] # "idle" => subs[target[q].sub].status # "NONE"
        BY <1>1, <1>2 DEF Begun, DeliveryCalls
    <2>1. QED
        BY <1>4, <1>5 DEF Inv, Begun
<1>7. Reversed'
    BY <1>1, <1>2 DEF Inv, Reversed
<1>8. Unborn' /\ FirstCycleKeepsItsPrice' /\ BillsFollowCycles' /\ RejectedIsRefunded'
    BY <1>1 DEF Inv, Unborn, FirstCycleKeepsItsPrice, FirstCycleAmount, BillsFollowCycles, CycleStart,
                RejectedIsRefunded
<1>9. QED
    BY <1>3, <1>6, <1>7, <1>8 DEF Inv

LEMMA NextDayInv ==
    ASSUME Inv, NextDay
    PROVE  Inv'
<1>1. /\ TypeInv /\ day < MaxDay /\ day' = day + 1
      /\ UNCHANGED <<subs, bills, deliveries, refunds, pc, target>>
    BY DEF NextDay, Inv, db
<1>2. TypeInv' /\ day \in Nat
    BY <1>1, ConstantsOK DEF TypeInv
<1>3. Begun' /\ Reversed' /\ Unborn' /\ FirstCycleKeepsItsPrice' /\ RejectedIsRefunded'
    BY <1>1 DEF Inv, Begun, Reversed, Unborn, FirstCycleKeepsItsPrice, FirstCycleAmount, RejectedIsRefunded
<1>4. BillsFollowCycles'
    <2> SUFFICES ASSUME NEW s \in Subs, NEW c \in Cycles \ {0}, bills[s][c] # 0
                 PROVE  CycleStart(s, c) <= day' /\ bills[s][c - 1] # 0
        BY <1>1 DEF BillsFollowCycles, CycleStart
    <2>1. CycleStart(s, c) <= day /\ bills[s][c - 1] # 0
        BY DEF Inv, BillsFollowCycles
    <2>2. QED
        BY <2>1, <1>1, <1>2, CycleOrder
<1>5. QED
    BY <1>2, <1>3, <1>4 DEF Inv

LEMMA AbortInv ==
    ASSUME Inv, NEW r \in Requests, Abort(r)
    PROVE  Inv'
<1>1. NoTarget = [sub |-> NoTarget.sub, date |-> 0] /\ NoTarget.sub \in Subs
    BY ConstantsOK DEF NoTarget
<1>2. pc' = [pc EXCEPT ![r] = "idle"] /\ target' = [target EXCEPT ![r] = [sub |-> NoTarget.sub, date |-> 0]]
    BY <1>1 DEF Abort, Finish
<1>3. UNCHANGED <<db, day>>
    BY DEF Abort
<1>4. "idle" \in Steps \ {"rejectStatus"} /\ "idle" \notin DeliveryCalls
    BY DEF Steps, DeliveryCalls
<1>5. QED
    BY <1>1, <1>2, <1>3, <1>4, ConstantsOK, MovesInv

LEMMA LoadOK ==
    ASSUME NEW r \in Requests, NEW s \in Subs, NEW call \in Calls, Load(r, s, call)
    PROVE  /\ call \in Steps \ (DeliveryCalls \cup {"rejectStatus"})
           /\ subs[s].status \in Expected(call) /\ subs[s].status # "NONE"
BY DEF Load, Admits, Steps, DeliveryCalls, Expected

LEMMA LoadInv ==
    ASSUME Inv, NEW r \in Requests, NEW s \in Subs, NEW call \in Calls, Load(r, s, call)
    PROVE  Inv'
<1> DEFINE d == IF call = "pause" THEN day ELSE 0
<1>1. pc' = [pc EXCEPT ![r] = call] /\ target' = [target EXCEPT ![r] = [sub |-> s, date |-> d]]
    BY DEF Load
<1>2. UNCHANGED <<db, day>>
    BY DEF Load
<1>3. d \in Days
    BY ConstantsOK DEF Inv, TypeInv, Days
<1> HIDE DEF d
<1>4. QED
    BY <1>1, <1>2, <1>3, LoadOK, MovesInv

LEMMA ReadInv ==
    ASSUME Inv, NEW r \in Requests, NEW s \in Subs, Read(r, s)
    PROVE  Inv'
<1> DEFINE step == IF PauseIsOver(s) THEN "settle" ELSE "deliveries"
<1>1. pc' = [pc EXCEPT ![r] = step] /\ target' = [target EXCEPT ![r] = [sub |-> s, date |-> 0]]
    BY DEF Read
<1>2. UNCHANGED <<db, day>> /\ subs[s].status # "NONE"
    BY DEF Read, PauseIsOver
<1>3. step \in Steps \ {"rejectStatus"} /\ step \notin DeliveryCalls
    BY DEF Steps, DeliveryCalls
<1> HIDE DEF step
<1>4. QED
    BY <1>1, <1>2, <1>3, ConstantsOK, MovesInv

LEMMA LoadDeliveryInv ==
    ASSUME Inv, NEW r \in Requests, NEW s \in Subs, NEW d \in Days, NEW call \in Calls,
           LoadDelivery(r, s, d, call)
    PROVE  Inv'
<1>1. pc' = [pc EXCEPT ![r] = call] /\ target' = [target EXCEPT ![r] = [sub |-> s, date |-> d]]
    BY DEF LoadDelivery
<1>2. UNCHANGED <<db, day>> /\ deliveries[s][d] # NoDelivery
    BY DEF LoadDelivery, NoDelivery
<1>3. call \in Steps \ {"rejectStatus"} /\ call \in DeliveryCalls
    BY DEF LoadDelivery, Steps, DeliveryCalls
<1>4. QED
    BY <1>1, <1>2, <1>3, MovesInv

LEMMA NextInv == Inv /\ [Next]_<<vars, overlapped>> => Inv'
<1> SUFFICES ASSUME Inv, [Next]_<<vars, overlapped>> PROVE Inv'
    OBVIOUS
<1>1. CASE Step
    <2>1. ASSUME NEW r \in Requests, Handle(r)
          PROVE  Inv'
        <3>1. CASE RowAction(r)
            BY <3>1, RowActionsWrite, WritesInv DEF Inv
        <3>2. CASE BackfillDeliveries(r) \/ BackfillBilling(r) \/ RejectRefund(r) \/ WriteDelivery(r)
            BY <3>2, BackfillDeliveriesInv, BackfillBillingInv, RejectRefundInv, WriteDeliveryInv
        <3>3. QED
            BY <2>1, <3>1, <3>2 DEF Handle, RowAction
    <2>2. QED
        BY <1>1, <2>1, NextDayInv, CreateInv, PauseAllInv, AbortInv, LoadInv, ReadInv, LoadDeliveryInv DEF Step
<1>2. CASE UNCHANGED <<vars, overlapped>>
    <2>1. UNCHANGED <<subs, bills, deliveries, refunds, day, pc, target>>
        BY <1>2 DEF vars
    <2>2. QED
        BY <2>1 DEF Inv, TypeInv, Begun, Unborn, Reversed, FirstCycleKeepsItsPrice, FirstCycleAmount,
                    BillsFollowCycles, CycleStart, RejectedIsRefunded
<1>3. QED
    BY <1>1, <1>2 DEF Next

(* createForCustomer and backfillBilling: whatever overlaps, the first cycle of a   *)
(* subscription paid by wallet keeps the discounted price it was charged.           *)
THEOREM FirstCycleIsKept == Spec => []FirstCycleKeepsItsPrice
<1>1. Inv => FirstCycleKeepsItsPrice
    BY DEF Inv
<1>2. QED
    BY <1>1, InitInv, NextInv, PTL DEF Spec

(* backfillBilling: whatever overlaps, and however long nobody looked, a cycle is   *)
(* billed only once it has begun, and never before the one that precedes it.        *)
THEOREM BillsAreInOrder == Spec => []BillsFollowCycles
<1>1. Inv => BillsFollowCycles
    BY DEF Inv
<1>2. QED
    BY <1>1, InitInv, NextInv, PTL DEF Spec

(* reject: wherever it dies, the charge of a rejected request was given back.       *)
THEOREM RejectionsRefund == Spec => []RejectedIsRefunded
<1>1. Inv => RejectedIsRefunded
    BY DEF Inv
<1>2. QED
    BY <1>1, InitInv, NextInv, PTL DEF Spec

-----------------------------------------------------------------------------
(* As long as no two requests about one subscription overlap *)

(* A bulk pause finds no request in flight. *)
Unwatched == \A n \in PauseDays, r \in Requests : PauseAll(n) => pc[r] = "idle"

LEMMA StillCurrent ==
    ASSUME Current, NEW r \in Requests, UNCHANGED subs,
           \A q \in Requests \ {r} : pc'[q] = pc[q] /\ target'[q] = target[q],
           subs[target'[r].sub].status \in Expected(pc'[r])
    PROVE  Current'
<1> SUFFICES ASSUME NEW q \in Requests PROVE subs[target'[q].sub].status \in Expected(pc'[q])
    BY DEF Current, Expected
<1>1. CASE q = r
    BY <1>1
<1>2. CASE q # r
    BY <1>2 DEF Current
<1>3. QED
    BY <1>1, <1>2

LEMMA AnyStatus ==
    ASSUME TypeInv
    PROVE  /\ \A s \in Subs : subs[s].status \in Statuses
           /\ Expected("idle") = Statuses
           /\ \A step \in DeliveryCalls : Expected(step) = Statuses
<1>1. \A s \in Subs : subs[s].status \in Statuses
    BY DEF TypeInv, Row
<1>2. Expected("idle") = Statuses
    BY DEF Expected
<1>3. \A step \in DeliveryCalls : Expected(step) = Statuses
    BY DEF Expected, DeliveryCalls
<1>4. QED
    BY <1>1, <1>2, <1>3

LEMMA WritesCurrent ==
    ASSUME Inv, Inv', Alone, NEW r \in Requests, NEW status, NEW until \in Int, NEW step,
           Writes(r, status, until, step), Verdict(r, status, step)
    PROVE  Current'
<1> SUFFICES ASSUME NEW q \in Requests PROVE subs'[target'[q].sub].status \in Expected(pc'[q])
    BY DEF Current, Expected
<1>1. TypeInv /\ TypeInv' /\ pc[r] # "idle"
    BY DEF Inv, Writes
<1>2. target'[q].sub \in Subs /\ target[q].sub \in Subs /\ pc[q] \in Steps
    BY <1>1 DEF TypeInv
<1>3. subs'[target'[q].sub].status \in Statuses
    BY <1>1, <1>2 DEF TypeInv, Row
<1>4. CASE q = r
    <2>1. CASE step = "idle"
        BY <1>1, <1>3, <1>4, <2>1, WritesOK, AnyStatus
    <2>2. CASE step # "idle"
        <3>1. step = "deliveries" /\ status = "ACTIVE"
            BY <2>2 DEF Verdict
        <3>2. "ACTIVE" \in Expected("deliveries")
            BY DEF Expected
        <3>3. target'[r] = target[r] /\ subs'[target[r].sub].status = status /\ pc'[r] = step
            BY <1>1, <2>2, WritesOK
        <3>4. QED
            BY <1>4, <3>1, <3>2, <3>3
    <2>3. QED
        BY <2>1, <2>2
<1>5. CASE q # r
    <2>1. pc'[q] = pc[q] /\ target'[q] = target[q]
        BY <1>1, <1>5, WritesOK
    <2>2. CASE pc[q] = "idle"
        BY <1>1, <1>3, <2>1, <2>2, AnyStatus
    <2>3. CASE pc[q] # "idle"
        <3>1. target[q].sub # target[r].sub
            BY <1>1, <1>5, <2>3 DEF Alone, OneRequestPerSub
        <3>2. subs'[target[q].sub] = subs[target[q].sub]
            BY <1>1, <1>2, <3>1, WritesOK
        <3>3. QED
            BY <2>1, <3>2 DEF Alone, Current
    <2>4. QED
        BY <2>2, <2>3
<1>6. QED
    BY <1>4, <1>5

LEMMA StepCurrent ==
    ASSUME Inv, Inv', Alone, Step, Unwatched
    PROVE  Current'
<1>1. TypeInv /\ TypeInv'
    BY DEF Inv
<1>2. \A q \in Requests : subs'[target'[q].sub].status \in Statuses /\ target[q].sub \in Subs
    BY <1>1 DEF TypeInv, Row
<1>3. CASE NextDay
    BY <1>3 DEF NextDay, db, Alone, Current
<1>4. ASSUME NEW s \in Subs, Create(s)
      PROVE  Current'
    <2> SUFFICES ASSUME NEW q \in Requests PROVE subs'[target[q].sub].status \in Expected(pc[q])
        BY <1>4 DEF Create, Current, Expected
    <2>1. CASE pc[q] \in DeliveryCalls \cup {"idle"}
        BY <2>1, <1>1, <1>2, <1>4, AnyStatus DEF Create
    <2>2. CASE pc[q] \notin DeliveryCalls \cup {"idle"}
        <3>1. target[q].sub # s
            BY <2>2, <1>4 DEF Inv, Begun, Create
        <3>2. subs'[target[q].sub] = subs[target[q].sub]
            BY <3>1, <1>1, <1>2, <1>4 DEF Create, TypeInv
        <3>3. QED
            BY <3>2 DEF Alone, Current
    <2>3. QED
        BY <2>1, <2>2
<1>5. ASSUME NEW n \in PauseDays, PauseAll(n)
      PROVE  Current'
    <2>1. \A q \in Requests : pc'[q] = "idle"
        BY <1>5 DEF Unwatched, PauseAll
    <2>2. QED
        BY <2>1, <1>1, <1>2, AnyStatus DEF Current, Expected
<1>6. ASSUME NEW r \in Requests, Handle(r)
      PROVE  Current'
    <2>1. CASE RowAction(r)
        BY <2>1, <1>1, RowActionsWrite, WritesCurrent
    <2>2. CASE BackfillDeliveries(r)
        <3>1. /\ pc[r] = "deliveries" /\ pc'[r] = "billing" /\ target' = target /\ UNCHANGED subs
              /\ \A q \in Requests \ {r} : pc'[q] = pc[q]
            BY <2>2, <1>1 DEF BackfillDeliveries, Goto, TypeInv
        <3>2. subs[target[r].sub].status \in Expected("billing")
            BY <3>1 DEF Alone, Current, Expected
        <3>3. QED
            BY <3>1, <3>2, StillCurrent DEF Alone
    <2>3. CASE RejectRefund(r)
        <3>1. /\ pc[r] = "reject" /\ pc'[r] = "rejectStatus" /\ target' = target /\ UNCHANGED subs
              /\ \A q \in Requests \ {r} : pc'[q] = pc[q]
            BY <2>3, <1>1 DEF RejectRefund, Goto, TypeInv
        <3>2. subs[target[r].sub].status \in Expected("rejectStatus")
            BY <3>1 DEF Alone, Current, Expected
        <3>3. QED
            BY <3>1, <3>2, StillCurrent DEF Alone
    <2>4. CASE BackfillBilling(r) \/ WriteDelivery(r)
        <3>1. Finish(r) /\ UNCHANGED subs
            BY <2>4 DEF BackfillBilling, WriteDelivery
        <3>2. /\ pc'[r] = "idle"
              /\ \A q \in Requests \ {r} : pc'[q] = pc[q] /\ target'[q] = target[q]
            BY <3>1, <1>1, FinishOK
        <3>3. subs[target'[r].sub].status \in Expected("idle")
            BY <3>1, <1>1, <1>2, AnyStatus
        <3>4. QED
            BY <3>1, <3>2, <3>3, StillCurrent DEF Alone
    <2>5. QED
        BY <1>6, <2>1, <2>2, <2>3, <2>4 DEF Handle, RowAction
<1>7. ASSUME NEW r \in Requests, Abort(r)
      PROVE  Current'
    <2>1. Finish(r) /\ UNCHANGED subs
        BY <1>7 DEF Abort, db
    <2>2. /\ pc'[r] = "idle"
          /\ \A q \in Requests \ {r} : pc'[q] = pc[q] /\ target'[q] = target[q]
        BY <2>1, <1>1, FinishOK
    <2>3. subs[target'[r].sub].status \in Expected("idle")
        BY <2>1, <1>1, <1>2, AnyStatus
    <2>4. QED
        BY <2>1, <2>2, <2>3, StillCurrent DEF Alone
<1>8. ASSUME NEW r \in Requests, NEW s \in Subs, NEW call \in Calls, Load(r, s, call)
      PROVE  Current'
    <2>1. /\ pc'[r] = call /\ target'[r].sub = s /\ UNCHANGED subs
          /\ \A q \in Requests \ {r} : pc'[q] = pc[q] /\ target'[q] = target[q]
        BY <1>1, <1>8 DEF Load, db, TypeInv
    <2>2. subs[s].status \in Expected(call)
        BY <1>8, LoadOK
    <2>3. QED
        BY <2>1, <2>2, StillCurrent DEF Alone
<1>9. ASSUME NEW r \in Requests, NEW s \in Subs, Read(r, s)
      PROVE  Current'
    <2> DEFINE step == IF PauseIsOver(s) THEN "settle" ELSE "deliveries"
    <2>1. /\ pc'[r] = step /\ target'[r].sub = s /\ UNCHANGED subs
          /\ \A q \in Requests \ {r} : pc'[q] = pc[q] /\ target'[q] = target[q]
        BY <1>1, <1>9 DEF Read, db, TypeInv
    <2>2. subs[s].status \in Expected(step)
        BY <1>9 DEF Read, PauseIsOver, Expected
    <2> HIDE DEF step
    <2>3. QED
        BY <2>1, <2>2, StillCurrent DEF Alone
<1>10. ASSUME NEW r \in Requests, NEW s \in Subs, NEW d \in Days, NEW call \in Calls,
              LoadDelivery(r, s, d, call)
       PROVE  Current'
    <2>1. /\ pc'[r] = call /\ target'[r].sub = s /\ UNCHANGED subs /\ call \in DeliveryCalls
          /\ \A q \in Requests \ {r} : pc'[q] = pc[q] /\ target'[q] = target[q]
        BY <1>1, <1>10 DEF LoadDelivery, db, TypeInv, DeliveryCalls
    <2>2. subs[s].status \in Expected(call)
        BY <2>1, <1>1, AnyStatus
    <2>3. QED
        BY <2>1, <2>2, StillCurrent DEF Alone
<1>11. QED
    BY <1>3, <1>4, <1>5, <1>6, <1>7, <1>8, <1>9, <1>10 DEF Step

Serial == Inv /\ (~overlapped => Alone)

LEMMA InitSerial == Init => Serial
<1> SUFFICES ASSUME Init PROVE Alone
    BY InitInv DEF Serial
<1>1. TypeInv
    BY InitInv DEF Inv
<1>2. \A r \in Requests : pc[r] = "idle" /\ target[r].sub \in Subs
    BY <1>1 DEF Init, TypeInv
<1>3. QED
    BY <1>1, <1>2, AnyStatus DEF Alone, OneRequestPerSub, Current

(* What Watch adds to a step after which nothing has overlapped. *)
LEMMA NotOverlapped ==
    ASSUME Next, ~overlapped'
    PROVE  Step /\ ~overlapped /\ OneRequestPerSub' /\ Unwatched
<1>1. Step /\ Watch
    BY DEF Next
<1>2. ~overlapped /\ OneRequestPerSub'
    BY <1>1 DEF Watch
<1>3. Unwatched
    BY <1>1 DEF Watch, Unwatched
<1>4. QED
    BY <1>1, <1>2, <1>3

LEMMA NextSerial == Serial /\ [Next]_<<vars, overlapped>> => Serial'
<1> SUFFICES ASSUME Serial, [Next]_<<vars, overlapped>>, ~overlapped' PROVE Alone'
    BY NextInv DEF Serial
<1>1. Inv /\ Inv'
    BY NextInv DEF Serial
<1>2. CASE Next
    BY <1>1, <1>2, NotOverlapped, StepCurrent DEF Serial, Alone
<1>3. CASE UNCHANGED <<vars, overlapped>>
    BY <1>3 DEF vars, Serial, Alone, OneRequestPerSub, Current, Expected
<1>4. QED
    BY <1>2, <1>3

Forward == \A s \in Subs : NoDeliveryRestarts(s) /\ LegalMove(s) /\ OnlyActiveIsBackfilled(s)

LEMMA RowActionForward ==
    ASSUME Serial, ~overlapped' => Alone, NEW r \in Requests, RowAction(r)
    PROVE  Forward
<1>1. TypeInv
    BY DEF Serial, Inv
<1>2. PICK status, step : \E until \in Int :
         /\ Writes(r, status, until, step) /\ Verdict(r, status, step)
         /\ \A old \in Expected(pc[r]) :
               <<old, status>> \in {<<"PENDING", "ACTIVE">>, <<"PENDING", "REJECTED">>,
                  <<"PENDING", "CANCELLED">>, <<"ACTIVE", "PAUSED">>, <<"ACTIVE", "CANCELLED">>,
                  <<"PAUSED", "ACTIVE">>, <<"PAUSED", "CANCELLED">>}
    BY <1>1, RowActionsWrite
<1>3. /\ subs'[target[r].sub].status = status
      /\ \A t \in Subs \ {target[r].sub} : subs'[t] = subs[t]
      /\ UNCHANGED <<bills, deliveries>>
    BY <1>1, <1>2, WritesOK
<1>4. \A s \in Subs : NoDeliveryRestarts(s) /\ OnlyActiveIsBackfilled(s)
    BY <1>3 DEF NoDeliveryRestarts, OnlyActiveIsBackfilled
<1>5. ASSUME NEW s \in Subs PROVE LegalMove(s)
    <2> SUFFICES ASSUME ~overlapped', subs'[s].status # subs[s].status PROVE LegalMove(s)
        BY DEF LegalMove
    <2>1. s = target[r].sub
        BY <1>3
    <2>2. subs[s].status \in Expected(pc[r])
        BY <2>1 DEF Alone, Current
    <2>3. QED
        BY <1>2, <1>3, <2>1, <2>2 DEF LegalMove
<1>6. QED
    BY <1>4, <1>5 DEF Forward

LEMMA StepForward ==
    ASSUME Serial, ~overlapped' => Alone, Step
    PROVE  Forward
<1>1. Inv /\ TypeInv
    BY DEF Serial, Inv
<1>2. ASSUME UNCHANGED <<subs, bills, deliveries>>
      PROVE  Forward
    BY <1>2 DEF Forward, NoDeliveryRestarts, LegalMove, OnlyActiveIsBackfilled
<1>3. CASE NextDay
    BY <1>2, <1>3 DEF NextDay, db
<1>4. ASSUME NEW s \in Subs, Create(s)
      PROVE  Forward
    <2>1. PICK start \in StartDays, wallet \in BOOLEAN, coins \in 0..MaxCoins :
             subs' = [subs EXCEPT ![s] = [status |-> "PENDING", wallet |-> wallet, start |-> start,
                                              coins |-> coins, pausedUntil |-> Never]]
        BY <1>4 DEF Create
    <2>2. subs[s].status = "NONE" /\ subs'[s].status = "PENDING" /\ deliveries' = deliveries
        BY <1>1, <1>4, <2>1 DEF Create, TypeInv
    <2>3. \A t \in Subs \ {s} : subs'[t] = subs[t] /\ bills'[t] = bills[t]
        BY <1>1, <1>4, <2>1 DEF Create, TypeInv
    <2>4. \A t \in Subs : LegalMove(t)
        BY <2>2, <2>3 DEF LegalMove
    <2>5. \A t \in Subs : NoDeliveryRestarts(t) /\ OnlyActiveIsBackfilled(t)
        BY <2>2, <2>3 DEF NoDeliveryRestarts, OnlyActiveIsBackfilled
    <2>6. QED
        BY <2>4, <2>5 DEF Forward
<1>5. ASSUME NEW n \in PauseDays, PauseAll(n)
      PROVE  Forward
    <2>1. ASSUME NEW s \in Subs
          PROVE  subs'[s].status = IF subs[s].status = "ACTIVE" THEN "PAUSED" ELSE subs[s].status
        <3>1. subs'[s] = IF subs[s].status = "ACTIVE"
                         THEN [subs[s] EXCEPT !.status = "PAUSED", !.pausedUntil = day + n]
                         ELSE subs[s]
            BY <1>5 DEF PauseAll
        <3>2. QED
            BY <3>1, <1>1 DEF TypeInv, Row
    <2>2. UNCHANGED <<bills, deliveries>>
        BY <1>5 DEF PauseAll
    <2>3. \A s \in Subs : LegalMove(s)
        BY <2>1 DEF LegalMove
    <2>4. \A s \in Subs : NoDeliveryRestarts(s) /\ OnlyActiveIsBackfilled(s)
        BY <2>2 DEF NoDeliveryRestarts, OnlyActiveIsBackfilled
    <2>5. QED
        BY <2>3, <2>4 DEF Forward
<1>6. ASSUME NEW r \in Requests, Handle(r)
      PROVE  Forward
    <2> DEFINE t == target[r].sub
    <2>1. CASE RowAction(r)
        BY <2>1, RowActionForward
    <2>2. CASE RejectRefund(r)
        BY <2>2, <1>2 DEF RejectRefund
    <2>3. CASE BackfillDeliveries(r)
        <3>1. UNCHANGED <<subs, bills>> /\ pc[r] = "deliveries"
            BY <2>3 DEF BackfillDeliveries
        <3>2. \A s \in Subs \ {t} : deliveries'[s] = deliveries[s]
            BY <2>3, <1>1 DEF BackfillDeliveries, TypeInv
        <3>3. \A d \in Days : deliveries[t][d] # NoDelivery => deliveries'[t][d] = deliveries[t][d]
            <4>1. deliveries'[t] = [d \in Days |->
                     IF d \in day..(day + WindowDays - 1) \ OffDays /\ deliveries[t][d].status = "NONE"
                     THEN Scheduled ELSE deliveries[t][d]]
                BY <2>3, <1>1 DEF BackfillDeliveries, TypeInv
            <4>2. \A d \in Days : deliveries[t][d] # NoDelivery => deliveries[t][d].status # "NONE"
                BY <1>1 DEF TypeInv, Planned
            <4>3. QED
                BY <4>1, <4>2
        <3>4. \A s \in Subs : NoDeliveryRestarts(s) /\ LegalMove(s)
            BY <3>1, <3>2, <3>3 DEF NoDeliveryRestarts, LegalMove
        <3>5. ~overlapped' => subs[t].status = "ACTIVE"
            BY <3>1 DEF Alone, Current, Expected
        <3>6. \A s \in Subs : OnlyActiveIsBackfilled(s)
            BY <3>1, <3>2, <3>5 DEF OnlyActiveIsBackfilled
        <3>7. QED
            BY <3>4, <3>6 DEF Forward
    <2>4. CASE BackfillBilling(r)
        <3>1. UNCHANGED <<subs, deliveries>> /\ pc[r] = "billing"
            BY <2>4 DEF BackfillBilling
        <3>2. \A s \in Subs \ {t} : bills'[s] = bills[s]
            BY <2>4, <1>1 DEF BackfillBilling, TypeInv
        <3>3. ~overlapped' => subs[t].status = "ACTIVE"
            BY <3>1 DEF Alone, Current, Expected
        <3>4. \A s \in Subs : OnlyActiveIsBackfilled(s)
            BY <3>1, <3>2, <3>3 DEF OnlyActiveIsBackfilled
        <3>5. \A s \in Subs : NoDeliveryRestarts(s) /\ LegalMove(s)
            BY <3>1 DEF NoDeliveryRestarts, LegalMove
        <3>6. QED
            BY <3>4, <3>5 DEF Forward
    <2>5. CASE WriteDelivery(r)
        <3>1. UNCHANGED <<subs, bills>>
            BY <2>5 DEF WriteDelivery
        <3>2. \A s \in Subs, d \in Days :
                 deliveries'[s][d] # deliveries[s][d]
                 => deliveries[s][d] # NoDelivery /\ deliveries'[s][d] \in Planned \ {Scheduled}
            BY <2>5, <1>1, WriteDeliveryOK
        <3>3. NoDelivery \notin Planned
            BY DEF NoDelivery, Planned
        <3>4. \A s \in Subs : NoDeliveryRestarts(s)
            BY <3>2, <3>3 DEF NoDeliveryRestarts
        <3>5. \A s \in Subs : LegalMove(s) /\ OnlyActiveIsBackfilled(s)
            BY <3>1, <3>2 DEF LegalMove, OnlyActiveIsBackfilled
        <3>6. QED
            BY <3>4, <3>5 DEF Forward
    <2>6. QED
        BY <1>6, <2>1, <2>2, <2>3, <2>4, <2>5 DEF Handle, RowAction
<1>7. ASSUME NEW r \in Requests,
             \/ Abort(r)
             \/ \E s \in Subs, call \in Calls : Load(r, s, call)
             \/ \E s \in Subs : Read(r, s)
             \/ \E s \in Subs, d \in Days, call \in Calls : LoadDelivery(r, s, d, call)
      PROVE  Forward
    <2>1. UNCHANGED db
        BY <1>7 DEF Abort, Load, Read, LoadDelivery
    <2>2. QED
        BY <2>1, <1>2 DEF db
<1>8. QED
    BY <1>3, <1>4, <1>5, <1>6, <1>7 DEF Step

(* The handlers: nothing takes a delivery back; and as long as no two requests about *)
(* one subscription overlap, none moves it off its lifecycle, or plans or bills for   *)
(* one that is not active.                                                            *)
THEOREM LifecycleHolds == Spec => LifecycleIsKept
<1>1. Serial /\ [Next]_<<vars, overlapped>> => [Forward]_vars
    <2> SUFFICES ASSUME Serial, [Next]_<<vars, overlapped>>, vars' # vars PROVE Forward
        OBVIOUS
    <2>1. Next
        BY DEF vars
    <2>2. ~overlapped' => Alone
        BY <2>1, NotOverlapped DEF Serial
    <2>3. QED
        BY <2>1, <2>2, StepForward DEF Next
<1>2. [Forward]_vars => [\A s \in Subs : NoDeliveryRestarts(s) /\ LegalMove(s) /\ OnlyActiveIsBackfilled(s)]_vars
    BY DEF Forward
<1>3. QED
    BY <1>1, <1>2, InitSerial, NextSerial, PTL DEF Spec, LifecycleIsKept
=============================================================================
