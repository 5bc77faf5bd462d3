------------------------------ MODULE Premium ------------------------------
(***************************************************************************)
(* A kitchen's premium plan, premium.service.ts, and the cap the Basic plan *)
(* puts on the reels it publishes, kitchen-reels.service.ts.               *)
(*                                                                         *)
(* A plan is charged to the kitchen's wallet when it is bought and, by     *)
(* whoever reads it after its period is over, once more per renewal.  The  *)
(* renewal is one transaction; the read before it is not part of it.       *)
(***************************************************************************)
EXTENDS Integers, FiniteSets, Functions

CONSTANTS
    Requests, Reels,
    Calls,            \* the endpoints the clients of an instance call
    MaxDay,           \* bound: the last calendar day
    CycleDays,        \* PREMIUM_CYCLE_DAYS, 28
    Price,            \* the price of every tier
    MaxTopUps,        \* bound: rupees ever added
    ReelCap           \* REEL_CAP_BASIC, 2

AllCalls == {"purchase", "read", "publish", "archive"}

PremiumAssumption ==
    /\ Calls \subseteq AllCalls
    /\ {MaxDay, MaxTopUps, ReelCap} \subseteq Nat
    /\ {CycleDays, Price} \subseteq Nat \ {0}

VARIABLES
    balance,      \* kitchen_wallets.balanceRs
    topUps,       \* sum of its TOPUP rows
    plan,         \* kitchen_premium_subscriptions
    purchases,    \* PREMIUM_PLAN rows of purchases
    renewals,     \* PREMIUM_PLAN rows of renewals, by the period end they renewed
    reels,        \* reels: status and day of creation
    today, pc,
    copy,         \* the plan each request has read
    overlapped    \* history: two requests of the kitchen have overlapped

db == <<balance, topUps, plan, purchases, renewals, reels>>
vars == <<balance, topUps, plan, purchases, renewals, reels, today, pc, copy>>

-----------------------------------------------------------------------------
Tiers == {"BASIC", "PRO"}

NoPlan == [status |-> "NONE", tier |-> "PRO", end |-> 0]

(* A request holds the plan it has read and the one it will write. *)
NoCopy == [old |-> NoPlan, new |-> NoPlan]

Ends == 0..(MaxDay + CycleDays)

Init ==
    /\ balance = 0
    /\ topUps = 0
    /\ plan = NoPlan
    /\ purchases = 0
    /\ renewals = [e \in Ends |-> 0]
    /\ reels = [x \in Reels |-> [status |-> "NONE", created |-> 0]]
    /\ today = 0
    /\ pc = [r \in Requests |-> "idle"]
    /\ copy = [r \in Requests |-> NoCopy]
    /\ overlapped = FALSE

Goto(r, step) == pc' = [pc EXCEPT ![r] = step]

Finish(r) == Goto(r, "idle") /\ copy' = [copy EXCEPT ![r] = NoCopy]

PeriodEnd == today + CycleDays - 1

TopUp ==
    /\ topUps + Price <= MaxTopUps
    /\ balance' = balance + Price
    /\ topUps' = topUps + Price
    /\ UNCHANGED <<plan, purchases, renewals, reels, today, pc, copy>>

-----------------------------------------------------------------------------
(* debit's comparison, inside the caller's transaction *)
Pays == balance >= Price

(* purchase: the balance is read, *)
PurchaseCheck(r, tier) ==
    /\ "purchase" \in Calls
    /\ pc[r] = "idle"
    /\ Pays
    /\ Goto(r, "purchase")
    /\ copy' = [copy EXCEPT ![r].new = [status |-> "ACTIVE", tier |-> tier, end |-> PeriodEnd]]
    /\ UNCHANGED <<db, today>>

(* Faulty: the plan is not charged. *)
PurchaseCommitFree(r) ==
    /\ pc[r] = "purchase"
    /\ purchases' = purchases + 1
    /\ plan' = copy[r].new
    /\ Finish(r)
    /\ UNCHANGED <<balance, topUps, renewals, reels, today>>

(* and the charge commits with the plan, whatever plan there is. *)
PurchaseCommit(r) ==
    /\ pc[r] = "purchase"
    /\ balance' = balance - Price
    /\ purchases' = purchases + 1
    /\ plan' = copy[r].new
    /\ Finish(r)
    /\ UNCHANGED <<topUps, renewals, reels, today>>

-----------------------------------------------------------------------------
(* Faulty: a plan is over on its last day already. *)
IsOverEarly(p) == p.status = "ACTIVE" /\ p.end <= today

(* settleIfNeeded's early returns *)
IsOver(p) == p.status = "ACTIVE" /\ p.end < today

(* getMyPlan.  The date is taken with the row: a renewal starts its period on   *)
(* that day, even if midnight comes before it commits.                          *)
Read(r) ==
    /\ "read" \in Calls
    /\ pc[r] = "idle"
    /\ IsOver(plan)
    /\ Goto(r, "renewCheck")
    /\ copy' = [copy EXCEPT ![r] = [old |-> plan, new |-> [plan EXCEPT !.end = PeriodEnd]]]
    /\ UNCHANGED <<db, today>>

(* The renewal's transaction reads the balance; too little, like any other      *)
(* failure of the transaction, is caught and falls through to expiry.          *)
RenewCheck(r) ==
    /\ pc[r] = "renewCheck"
    /\ \/ Pays /\ Goto(r, "renew")
       \/ Goto(r, "expire")
    /\ UNCHANGED <<db, today, copy>>

(* The charge commits with the new period. *)
RenewCommit(r) ==
    /\ pc[r] = "renew"
    /\ balance' = balance - Price
    /\ renewals' = [renewals EXCEPT ![copy[r].old.end] = @ + 1]
    /\ plan' = [plan EXCEPT !.end = copy[r].new.end]
    /\ Finish(r)
    /\ UNCHANGED <<topUps, purchases, reels, today>>

Expire(r) ==
    /\ pc[r] = "expire"
    /\ plan' = [plan EXCEPT !.status = "EXPIRED"]
    /\ Finish(r)
    /\ UNCHANGED <<balance, topUps, purchases, renewals, reels, today>>

-----------------------------------------------------------------------------
Published(from) == {x \in Reels : reels[x].status = "PUBLISHED" /\ reels[x].created >= from}

(* checkReelPublishAllowed: only an active Basic plan restricts anything. *)
PublishAllowed ==
    plan.status = "ACTIVE" /\ plan.tier = "BASIC"
        => Cardinality(Published(plan.end - (CycleDays - 1))) < ReelCap

PublishCheck(r) ==
    /\ "publish" \in Calls
    /\ pc[r] = "idle"
    /\ PublishAllowed
    /\ Goto(r, "publish")
    /\ UNCHANGED <<db, today, copy>>

Publish(r) ==
    /\ pc[r] = "publish"
    /\ \E x \in Reels :
          /\ reels[x].status = "NONE"
          /\ reels' = [reels EXCEPT ![x] = [status |-> "PUBLISHED", created |-> today]]
    /\ Finish(r)
    /\ UNCHANGED <<balance, topUps, plan, purchases, renewals, today>>

Archive(x) ==
    /\ "archive" \in Calls
    /\ reels[x].status # "NONE"
    /\ reels' = [reels EXCEPT ![x].status = "ARCHIVED"]
    /\ UNCHANGED <<balance, topUps, plan, purchases, renewals, today, pc, copy>>

-----------------------------------------------------------------------------
(* The function is killed between two of its statements. *)
Abort(r) ==
    /\ pc[r] # "idle"
    /\ Finish(r)
    /\ UNCHANGED <<db, today>>

NextDay ==
    /\ today < MaxDay
    /\ today' = today + 1
    /\ UNCHANGED <<db, pc, copy>>

Handle(r) ==
    \/ PurchaseCommit(r) \/ RenewCheck(r) \/ RenewCommit(r) \/ Expire(r) \/ Publish(r)

Step ==
    \/ TopUp \/ NextDay
    \/ \E x \in Reels : Archive(x)
    \/ \E r \in Requests :
          \/ Handle(r) \/ Abort(r) \/ Read(r) \/ PublishCheck(r)
          \/ \E tier \in Tiers : PurchaseCheck(r, tier)

(* At most one request of the kitchen is in flight. *)
OneAtATime == \A q, r \in Requests : pc[q] # "idle" /\ pc[r] # "idle" => q = r

(* Set by the first step after which two requests are in flight at once. *)
Watch == overlapped' = (overlapped \/ ~OneAtATime')

Next == Step /\ Watch

Spec == Init /\ [][Next]_<<vars, overlapped>>

-----------------------------------------------------------------------------
(* A purchase is charged and a renewal is charged, or neither happened: no      *)
(* crash and no overlap gives a period away or takes money for none.           *)
PeriodsCharged == balance = topUps - Price * (purchases + SumFunction(renewals))

(* "auto-renew charges the wallet for one more period": one period, one        *)
(* charge, whatever dies between the two and is repeated.  Two reads that      *)
(* overlap both find the period over, and both renew it.                       *)
RenewedOnce == ~overlapped => \A e \in Ends : renewals[e] <= 1

(* The wallet's balance accounts for every purchase and every renewal, and as  *)
(* long as no two requests overlap a period is renewed once.                   *)
PlansArePaid == PeriodsCharged /\ RenewedOnce

(* "on insufficient funds ... the plan expires instead": a plan whose paid     *)
(* period is not over is never taken away.  A read that finds the wallet empty *)
(* expires the plan a read it overlaps has just renewed.                       *)
PaidPeriodHonoured == ~overlapped => (plan.status = "EXPIRED" => plan.end < today)

=============================================================================
