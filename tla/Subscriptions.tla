--------------------------- MODULE Subscriptions ---------------------------
(***************************************************************************)
(* Meal subscriptions: kitchen-subscriptions.service.ts, called by the     *)
(* customer's and by the kitchen's controllers.                            *)
(*                                                                         *)
(* Nothing runs on a schedule: a timed pause ends, and delivery and billing *)
(* rows appear, when somebody reads the subscription.  A request reads the  *)
(* row, checks it, and updates it in a later step; the two backfills that   *)
(* follow are steps of their own, because no transaction joins them.        *)
(***************************************************************************)
EXTENDS Integers

CONSTANTS
    Subs, Requests,
    Calls,            \* the endpoints the clients of an instance call
    MaxDay,           \* bound: the last calendar day
    StartDays,        \* start dates customers ask for
    PauseDays,        \* lengths of timed pauses
    CycleDays,        \* days in a billing cycle, 7 or 28
    CycleGuard,       \* backfillBilling's guard, 500
    WindowDays,       \* DELIVERY_WINDOW_DAYS, 7
    OffDays,          \* days of the horizon the plan does not deliver on
    PricePerCycle,
    MaxCoins,         \* most coins a first cycle redeems
    MaxRefunds        \* bound: refunds of one request

AllCalls == {"approve", "reject", "kitchenPause", "pause", "kitchenResume", "resume",
             "cancel", "read", "dispatch", "skip", "swap", "pauseAll"}

ASSUME SubscriptionsAssumption ==
    /\ Calls \subseteq AllCalls
    /\ {MaxDay, MaxRefunds, MaxCoins} \subseteq Nat
    /\ {CycleDays, CycleGuard, WindowDays} \subseteq Nat \ {0}
    /\ StartDays \subseteq Nat
    /\ PauseDays \subseteq Nat \ {0}
    /\ Subs # {}
    /\ PricePerCycle \in Nat /\ PricePerCycle > MaxCoins

VARIABLES
    subs,        \* subscriptions table
    bills,       \* subscription_billing_events: amount of each cycle, 0 for no row
    deliveries,  \* subscription_deliveries: the row of each day
    refunds,     \* REFUND ledger rows written for the subscription
    day,         \* getIstCalendarDate()
    pc,          \* where each request is
    target,      \* the subscription, and the date, each request is about
    overlapped   \* history: two requests about one subscription have overlapped

db == <<subs, bills, deliveries, refunds>>
vars == <<subs, bills, deliveries, refunds, day, pc, target>>

-----------------------------------------------------------------------------
Days == 0..(MaxDay + WindowDays)

Cycles == 0..(CycleGuard - 1)

Never == -1

NoSub == [status |-> "NONE", wallet |-> FALSE, start |-> 0, coins |-> 0, pausedUntil |-> Never]

NoDelivery == [status |-> "NONE", swapped |-> FALSE]

Scheduled == [status |-> "SCHEDULED", swapped |-> FALSE]

NoTarget == [sub |-> CHOOSE s \in Subs : TRUE, date |-> 0]

CycleStart(s, c) == subs[s].start + c * CycleDays

(* What the customer pays for the first cycle. *)
FirstCycleAmount(s) == PricePerCycle - subs[s].coins

Init ==
    /\ subs = [s \in Subs |-> NoSub]
    /\ bills = [s \in Subs |-> [c \in Cycles |-> 0]]
    /\ deliveries = [s \in Subs |-> [d \in Days |-> NoDelivery]]
    /\ refunds = [s \in Subs |-> 0]
    /\ day = 0
    /\ pc = [r \in Requests |-> "idle"]
    /\ target = [r \in Requests |-> NoTarget]
    /\ overlapped = FALSE

(* Request r moves on, or ends and forgets what it was about. *)
Goto(r, step) == pc' = [pc EXCEPT ![r] = step] /\ UNCHANGED target

Finish(r) ==
    /\ pc' = [pc EXCEPT ![r] = "idle"]
    /\ target' = [target EXCEPT ![r] = NoTarget]

Update(s, status, until) ==
    subs' = [subs EXCEPT ![s] = [@ EXCEPT !.status = status, !.pausedUntil = until]]

-----------------------------------------------------------------------------
(* createForCustomer, one transaction.  A wallet request is charged at once,   *)
(* and its first cycle is billed at the discounted price; too little in the    *)
(* wallet, or a changed coin balance, leaves nothing behind.                   *)
Create(s) ==
    /\ subs[s].status = "NONE"
    /\ \E start \in StartDays, wallet \in BOOLEAN, coins \in 0..MaxCoins :
          /\ ~wallet => coins = 0
          /\ subs' = [subs EXCEPT ![s] = [status |-> "PENDING", wallet |-> wallet, start |-> start,
                                          coins |-> coins, pausedUntil |-> Never]]
          /\ bills' = IF wallet THEN [bills EXCEPT ![s][0] = PricePerCycle - coins] ELSE bills
    /\ UNCHANGED <<deliveries, refunds, day, pc, target>>

(* Faulty: any subscription may be approved. *)
AdmitsAny(call, status) == status # "NONE"

(* The check each handler makes on the row it has read. *)
Admits(call, status) ==
    CASE call \in {"approve", "reject"}         -> status = "PENDING"
      [] call \in {"kitchenPause", "pause"}     -> status = "ACTIVE"
      [] call \in {"kitchenResume", "resume"}   -> status = "PAUSED"
      [] call = "cancel"                        -> status \in {"PENDING", "ACTIVE", "PAUSED"}
      [] OTHER                                  -> FALSE

(* requireOwned, and the check; a customer's pause takes the date with it. *)
Load(r, s, call) ==
    /\ call \in Calls
    /\ pc[r] = "idle"
    /\ Admits(call, subs[s].status)
    /\ pc' = [pc EXCEPT ![r] = call]
    /\ target' = [target EXCEPT ![r] = [sub |-> s, date |-> IF call = "pause" THEN day ELSE 0]]
    /\ UNCHANGED <<db, day>>

-----------------------------------------------------------------------------
(* approve, and its two backfills *)
Approve(r) ==
    /\ pc[r] = "approve"
    /\ Update(target[r].sub, "ACTIVE", subs[target[r].sub].pausedUntil)
    /\ Goto(r, "deliveries")
    /\ UNCHANGED <<bills, deliveries, refunds, day>>

(* backfillDeliveries: createMany with skipDuplicates over today..+6. *)
BackfillDeliveries(r) ==
    LET s == target[r].sub
    IN  /\ pc[r] = "deliveries"
        /\ deliveries' = [deliveries EXCEPT ![s] =
              [d \in Days |-> IF d \in day..(day + WindowDays - 1) \ OffDays /\ @[d].status = "NONE"
                              THEN Scheduled ELSE @[d]]]
        /\ Goto(r, "billing")
        /\ UNCHANGED <<subs, bills, refunds, day>>

(* Faulty: a cycle is billed again at the full price. *)
BackfillBillingOverwrites(r) ==
    LET s == target[r].sub
    IN  /\ pc[r] = "billing"
        /\ bills' = [bills EXCEPT ![s] =
              [c \in Cycles |-> IF CycleStart(s, c) <= day THEN PricePerCycle ELSE @[c]]]
        /\ Finish(r)
        /\ UNCHANGED <<subs, deliveries, refunds, day>>

(* Faulty: the cycle about to begin is billed too. *)
BackfillBillingAhead(r) ==
    LET s == target[r].sub
    IN  /\ pc[r] = "billing"
        /\ bills' = [bills EXCEPT ![s] =
              [c \in Cycles |-> IF CycleStart(s, c) <= day + 1 /\ @[c] = 0 THEN PricePerCycle ELSE @[c]]]
        /\ Finish(r)
        /\ UNCHANGED <<subs, deliveries, refunds, day>>

(* Faulty: only the cycle that begins today is billed. *)
BackfillBillingTodayOnly(r) ==
    LET s == target[r].sub
    IN  /\ pc[r] = "billing"
        /\ bills' = [bills EXCEPT ![s] =
              [c \in Cycles |-> IF CycleStart(s, c) = day /\ @[c] = 0 THEN PricePerCycle ELSE @[c]]]
        /\ Finish(r)
        /\ UNCHANGED <<subs, deliveries, refunds, day>>

(* backfillBilling: every cycle boundary that has passed, skipDuplicates. *)
BackfillBilling(r) ==
    LET s == target[r].sub
    IN  /\ pc[r] = "billing"
        /\ bills' = [bills EXCEPT ![s] =
              [c \in Cycles |-> IF CycleStart(s, c) <= day /\ @[c] = 0 THEN PricePerCycle ELSE @[c]]]
        /\ Finish(r)
        /\ UNCHANGED <<subs, deliveries, refunds, day>>

-----------------------------------------------------------------------------
(* Faulty: the charge is kept. *)
RejectRefundSkipped(r) ==
    /\ pc[r] = "reject"
    /\ Goto(r, "rejectStatus")
    /\ UNCHANGED <<db, day>>

(* reject: the refund commits in a transaction of its own ... *)
RejectRefund(r) ==
    LET s == target[r].sub
    IN  /\ pc[r] = "reject"
        /\ IF subs[s].wallet
           THEN /\ refunds[s] < MaxRefunds
                /\ refunds' = [refunds EXCEPT ![s] = @ + 1]
           ELSE UNCHANGED refunds
        /\ Goto(r, "rejectStatus")
        /\ UNCHANGED <<subs, bills, deliveries, day>>

(* ... and the status is updated after it. *)
RejectStatus(r) ==
    LET s == target[r].sub
    IN  /\ pc[r] = "rejectStatus"
        /\ Update(s, "REJECTED", subs[s].pausedUntil)
        /\ Finish(r)
        /\ UNCHANGED <<bills, deliveries, refunds, day>>

-----------------------------------------------------------------------------
(* The kitchen's pause leaves pausedUntil as it finds it. *)
KitchenPause(r) ==
    LET s == target[r].sub
    IN  /\ pc[r] = "kitchenPause"
        /\ Update(s, "PAUSED", subs[s].pausedUntil)
        /\ Finish(r)
        /\ UNCHANGED <<bills, deliveries, refunds, day>>

(* pauseForCustomer: for some days from the one it was called on, or until     *)
(* resumed.                                                                    *)
Pause(r) ==
    /\ pc[r] = "pause"
    /\ \E until \in {target[r].date + n : n \in PauseDays} \cup {Never} :
          Update(target[r].sub, "PAUSED", until)
    /\ Finish(r)
    /\ UNCHANGED <<bills, deliveries, refunds, day>>

(* bulkPauseForCustomer: one conditional updateMany, nothing read before it. *)
PauseAll(n) ==
    /\ "pauseAll" \in Calls
    /\ \E s \in Subs : subs[s].status = "ACTIVE"
    /\ subs' = [s \in Subs |->
                  IF subs[s].status = "ACTIVE"
                  THEN [subs[s] EXCEPT !.status = "PAUSED", !.pausedUntil = day + n]
                  ELSE subs[s]]
    /\ UNCHANGED <<bills, deliveries, refunds, day, pc, target>>

KitchenResume(r) ==
    LET s == target[r].sub
    IN  /\ pc[r] = "kitchenResume"
        /\ Update(s, "ACTIVE", subs[s].pausedUntil)
        /\ Goto(r, "deliveries")
        /\ UNCHANGED <<bills, deliveries, refunds, day>>

Resume(r) ==
    /\ pc[r] = "resume"
    /\ Update(target[r].sub, "ACTIVE", Never)
    /\ Goto(r, "deliveries")
    /\ UNCHANGED <<bills, deliveries, refunds, day>>

(* A charge taken for a request still PENDING stays with the kitchen. *)
Cancel(r) ==
    LET s == target[r].sub
    IN  /\ pc[r] = "cancel"
        /\ Update(s, "CANCELLED", subs[s].pausedUntil)
        /\ Finish(r)
        /\ UNCHANGED <<bills, deliveries, refunds, day>>

-----------------------------------------------------------------------------
(* Faulty: a pause is over the day after its last day. *)
PauseIsOverLate(s) ==
    /\ subs[s].status = "PAUSED"
    /\ subs[s].pausedUntil # Never
    /\ subs[s].pausedUntil < day

(* settlePauseIfNeeded's two early returns. *)
PauseIsOver(s) ==
    /\ subs[s].status = "PAUSED"
    /\ subs[s].pausedUntil # Never
    /\ subs[s].pausedUntil <= day

(* findOne, findOneForCustomer: a pause that is over is settled, an active      *)
(* subscription is backfilled.  (After settling, findOne backfills once more,  *)
(* which is what a second read does.)                                          *)
Read(r, s) ==
    /\ "read" \in Calls
    /\ pc[r] = "idle"
    /\ PauseIsOver(s) \/ subs[s].status = "ACTIVE"
    /\ target' = [target EXCEPT ![r] = [sub |-> s, date |-> 0]]
    /\ pc' = [pc EXCEPT ![r] = IF PauseIsOver(s) THEN "settle" ELSE "deliveries"]
    /\ UNCHANGED <<db, day>>

(* The settling update, also made by list and listForCustomer. *)
SettlePause(r) ==
    /\ pc[r] = "settle"
    /\ Update(target[r].sub, "ACTIVE", Never)
    /\ Goto(r, "deliveries")
    /\ UNCHANGED <<bills, deliveries, refunds, day>>

-----------------------------------------------------------------------------
(* dispatchDelivery, skipDelivery (today's row) and swapDeliveryMeal (any row): *)
(* the row is read and must be SCHEDULED, the subscription may be in any status *)
LoadDelivery(r, s, d, call) ==
    /\ call \in Calls \cap {"dispatch", "skip", "swap"}
    /\ pc[r] = "idle"
    /\ deliveries[s][d].status = "SCHEDULED"
    /\ call # "swap" => d = day
    /\ pc' = [pc EXCEPT ![r] = call]
    /\ target' = [target EXCEPT ![r] = [sub |-> s, date |-> d]]
    /\ UNCHANGED <<db, day>>

WriteDelivery(r) ==
    LET s == target[r].sub
        d == target[r].date
    IN  /\ pc[r] \in {"dispatch", "skip", "swap"}
        /\ deliveries' = [deliveries EXCEPT ![s][d] =
              CASE pc[r] = "dispatch" -> [@ EXCEPT !.status = "DISPATCHED"]
                [] pc[r] = "skip"     -> [@ EXCEPT !.status = "SKIPPED"]
                [] OTHER              -> [@ EXCEPT !.swapped = TRUE]]
        /\ Finish(r)
        /\ UNCHANGED <<subs, bills, refunds, day>>

-----------------------------------------------------------------------------
(* The function is killed between two of its statements. *)
Abort(r) ==
    /\ pc[r] # "idle"
    /\ Finish(r)
    /\ UNCHANGED <<db, day>>

NextDay ==
    /\ day < MaxDay
    /\ day' = day + 1
    /\ UNCHANGED <<db, pc, target>>

Handle(r) ==
    \/ Approve(r) \/ BackfillDeliveries(r) \/ BackfillBilling(r)
    \/ RejectRefund(r) \/ RejectStatus(r)
    \/ KitchenPause(r) \/ Pause(r) \/ KitchenResume(r) \/ Resume(r) \/ Cancel(r)
    \/ SettlePause(r) \/ WriteDelivery(r)

Step ==
    \/ NextDay
    \/ \E s \in Subs : Create(s)
    \/ \E n \in PauseDays : PauseAll(n)
    \/ \E r \in Requests :
          \/ Handle(r) \/ Abort(r)
          \/ \E s \in Subs, call \in Calls : Load(r, s, call)
          \/ \E s \in Subs : Read(r, s)
          \/ \E s \in Subs, d \in Days, call \in Calls : LoadDelivery(r, s, d, call)

(* At most one request about each subscription is in flight. *)
OneRequestPerSub ==
    \A q, r \in Requests :
        pc[q] # "idle" /\ pc[r] # "idle" /\ target[q].sub = target[r].sub => q = r

(* Set by the first step after which two requests about one subscription are   *)
(* in flight at once; pauseAll, a single statement, overlaps any of them.       *)
Watch ==
    overlapped' =
        \/ overlapped
        \/ ~OneRequestPerSub'
        \/ \E n \in PauseDays, r \in Requests : PauseAll(n) /\ pc[r] # "idle"

Next == Step /\ Watch

Spec == Init /\ [][Next]_<<vars, overlapped>>

(* What liveness rests on: a function that is not killed every time finishes,  *)
(* and somebody comes back to look at every subscription.                      *)
FairSpec ==
    /\ Spec
    /\ \A r \in Requests : WF_vars(Handle(r)) /\ SF_vars(SettlePause(r))
    /\ \A r \in Requests : SF_vars(BackfillDeliveries(r)) /\ SF_vars(BackfillBilling(r))
    /\ \A s \in Subs : SF_vars(\E r \in Requests : Read(r, s))

-----------------------------------------------------------------------------
(* Properties of every interleaving *)

(* createForCustomer plants the first cycle's discounted bill, and no backfill *)
(* ever touches it again, whoever runs it and however often.                   *)
FirstCycleKeepsItsPrice ==
    \A s \in Subs :
        subs[s].status # "NONE" /\ subs[s].wallet => bills[s][0] = FirstCycleAmount(s)

(* backfillBilling bills the cycles that have begun and no other, whatever the *)
(* customer paid in advance, and leaves none of them out, however long nobody  *)
(* looked.                                                                     *)
BillsFollowCycles ==
    \A s \in Subs, c \in Cycles \ {0} :
        bills[s][c] # 0 => CycleStart(s, c) <= day /\ bills[s][c - 1] # 0

(* A delivery that was dispatched, skipped or given a chosen dish is never     *)
(* planned again from nothing by a later backfill.                             *)
NoDeliveryRestarts(s) ==
    \A d \in Days :
       deliveries[s][d] \notin {NoDelivery, Scheduled}
       => deliveries'[s][d] \notin {NoDelivery, Scheduled}

(* reject "must reverse that charge, not keep it": wherever the request died,  *)
(* no subscription reads REJECTED with its charge still kept.                  *)
RejectedIsRefunded ==
    \A s \in Subs : subs[s].status = "REJECTED" /\ subs[s].wallet => refunds[s] > 0

-----------------------------------------------------------------------------
(* Properties that only requests which overlap can break *)

(* The handlers move a subscription along its lifecycle only, and never out of *)
(* CANCELLED or REJECTED.  A handler that overlaps another writes the status   *)
(* it computed over whatever the other has written.                            *)
LegalMove(s) ==
    ~overlapped' /\ subs'[s].status # subs[s].status =>
       <<subs[s].status, subs'[s].status>> \in
          {<<"NONE", "PENDING">>, <<"PENDING", "ACTIVE">>, <<"PENDING", "REJECTED">>,
           <<"PENDING", "CANCELLED">>, <<"ACTIVE", "PAUSED">>, <<"ACTIVE", "CANCELLED">>,
           <<"PAUSED", "ACTIVE">>, <<"PAUSED", "CANCELLED">>}

(* Only an active subscription gets new deliveries and new bills: nothing is   *)
(* planned or charged for one that is pending, paused or over, as a read that  *)
(* overlaps a pause or a cancellation does.                                    *)
OnlyActiveIsBackfilled(s) ==
    \/ \E d \in Days : deliveries[s][d] = NoDelivery /\ deliveries'[s][d] # NoDelivery
    \/ subs[s].status # "NONE" /\ bills'[s] # bills[s]
    => overlapped' \/ subs[s].status = "ACTIVE"

(* A subscription and its deliveries only ever move forward: no handler takes  *)
(* either back, and none plans or bills for one that is not running.           *)
LifecycleIsKept ==
    [][\A s \in Subs : NoDeliveryRestarts(s) /\ LegalMove(s) /\ OnlyActiveIsBackfilled(s)]_vars

-----------------------------------------------------------------------------
(* Properties of FairSpec *)

(* "the next read auto-resumes the subscription": a timed pause that is over   *)
(* ends, although no job runs.                                                 *)
TimedPauseEnds ==
    \A s \in Subs :
        subs[s].status = "PAUSED" /\ subs[s].pausedUntil # Never /\ subs[s].pausedUntil <= day
        ~> subs[s].status # "PAUSED"

(* A crash between a status update and its backfills loses nothing for good:   *)
(* while the subscription stays active, today's delivery and every cycle begun *)
(* are on record in the end.                                                   *)
BackfillsCatchUp ==
    \A s \in Subs, d \in 0..MaxDay :
        subs[s].status = "ACTIVE" /\ day = d
        ~> \/ /\ d \in OffDays \/ deliveries[s][d].status # "NONE"
              /\ \A c \in Cycles : CycleStart(s, c) <= d => bills[s][c] # 0
           \/ subs[s].status # "ACTIVE"
           \/ day # d

-----------------------------------------------------------------------------
(* What a comment says, and the code does not keep *)

(* A declined request's charge is reversed, once: not kept by a rejection that *)
(* dies between its two commits and is repeated, even if nothing overlaps it.  *)
ReversedOnce == \A s \in Subs : ~overlapped => refunds[s] <= 1
=============================================================================
