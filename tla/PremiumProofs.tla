--------------------------- MODULE PremiumProofs ---------------------------
(***************************************************************************)
(* The books of a kitchen's premium plan, for every price, period and       *)
(* number of requests: what the wallet pays is what was granted, and as     *)
(* long as no two requests overlap no period is paid twice or taken away.   *)
(***************************************************************************)
EXTENDS Premium, Sums, TLAPS

Plan == [status : {"NONE", "ACTIVE", "EXPIRED"}, tier : Tiers, end : Ends]

Copy == [old : Plan, new : Plan]

Steps == {"idle", "purchase", "renewCheck", "renew", "expire", "publish"}

TypeOK ==
    /\ balance \in Int /\ topUps \in Int
    /\ plan \in Plan
    /\ purchases \in Nat
    /\ renewals \in [Ends -> Nat]
    /\ reels \in [Reels -> [status : {"NONE", "PUBLISHED", "ARCHIVED"}, created : 0..MaxDay]]
    /\ today \in 0..MaxDay
    /\ pc \in [Requests -> Steps]
    /\ copy \in [Requests -> Copy]
    /\ overlapped \in BOOLEAN

(* A request that has seen the period over holds the plan as it is and a period *)
(* that ends later, and a purchase one that ends no earlier.                   *)
Fresh ==
    \A r \in Requests :
        /\ pc[r] \in {"renewCheck", "renew", "expire"} =>
              copy[r].old = plan /\ IsOver(plan) /\ plan.end < copy[r].new.end /\ copy[r].new.end <= PeriodEnd
        /\ pc[r] = "purchase" =>
              copy[r].new.status = "ACTIVE" /\ plan.end <= copy[r].new.end /\ copy[r].new.end <= PeriodEnd

(* Periods are renewed in order, none later than a period from today.          *)
RenewedBefore ==
    /\ plan.end <= PeriodEnd
    /\ \A e \in Ends : renewals[e] > 0 => e < plan.end

Alone ==
    /\ OneAtATime /\ Fresh /\ RenewedBefore
    /\ \A e \in Ends : renewals[e] <= 1
    /\ plan.status = "EXPIRED" => plan.end < today

Inv == TypeOK /\ PeriodsCharged /\ (overlapped \/ Alone)

-----------------------------------------------------------------------------
LEMMA EndsAreFinite == PremiumAssumption => IsFiniteSet(Ends)
BY FS_Interval DEF PremiumAssumption, Ends

LEMMA NoPlanIsPlan == PremiumAssumption => NoPlan \in Plan /\ NoCopy \in Copy
BY DEF PremiumAssumption, Plan, Copy, NoPlan, NoCopy, Tiers, Ends

LEMMA PeriodEndInEnds ==
    ASSUME PremiumAssumption, TypeOK
    PROVE  PeriodEnd \in Ends /\ PeriodEnd >= today
BY DEF PremiumAssumption, TypeOK, PeriodEnd, Ends

(* Charging one more period. *)
LEMMA OneMore == ASSUME NEW k \in Int, NEW p \in Int PROVE p * (k + 1) = p * k + p /\ p * k \in Int
OBVIOUS

LEMMA RenewalsType ==
    ASSUME PremiumAssumption, TypeOK
    PROVE  SumFunction(renewals) \in Int
<1>1. \A e \in Ends : renewals[e] \in Int
    BY DEF TypeOK
<1>2. DOMAIN renewals = Ends
    BY DEF TypeOK
<1>3. QED
    BY <1>1, <1>2, EndsAreFinite, SumType DEF SumFunction

LEMMA InitInv == ASSUME PremiumAssumption, Init PROVE Inv
<1>1. TypeOK
  <2>1. 0 \in Ends /\ 0 \in 0..MaxDay
    BY DEF PremiumAssumption, Ends
  <2>2. NoPlan \in Plan
    BY NoPlanIsPlan
  <2>3. renewals \in [Ends -> Nat] /\ pc \in [Requests -> Steps] /\ copy \in [Requests -> Copy]
    BY NoPlanIsPlan DEF Init, Steps
  <2>4. reels \in [Reels -> [status : {"NONE", "PUBLISHED", "ARCHIVED"}, created : 0..MaxDay]]
    BY <2>1 DEF Init
  <2>5. /\ balance \in Int /\ topUps \in Int /\ purchases \in Nat /\ plan \in Plan
        /\ today \in 0..MaxDay
    BY <2>1, <2>2 DEF Init
  <2>6. overlapped \in BOOLEAN
    BY DEF Init
  <2>7. QED
    BY <2>3, <2>4, <2>5, <2>6 DEF TypeOK
<1>2. SumFunction(renewals) = 0
  <2>1. DOMAIN renewals = Ends /\ \A e \in Ends : renewals[e] = 0
    BY DEF Init
  <2>2. QED
    BY <2>1, EndsAreFinite, SumZero DEF SumFunction
<1>3. PeriodsCharged
    BY <1>2 DEF Init, PeriodsCharged, PremiumAssumption
<1>4. Alone
    BY DEF PremiumAssumption, Init, Alone, OneAtATime, Fresh, RenewedBefore, NoPlan, PeriodEnd
<1>5. QED
    BY <1>1, <1>3, <1>4 DEF Inv

LEMMA StepType ==
    ASSUME PremiumAssumption, TypeOK, Next
    PROVE  TypeOK'
<1> USE DEF PremiumAssumption, TypeOK, db
<1>0. Step /\ overlapped' \in BOOLEAN
    BY DEF Next, Watch
<1>1. CASE TopUp
    BY <1>0, <1>1 DEF TopUp
<1>2. CASE NextDay
    BY <1>0, <1>2 DEF NextDay
<1>3. ASSUME NEW x \in Reels, Archive(x) PROVE TypeOK'
    BY <1>0, <1>3 DEF Archive
<1>4. ASSUME NEW r \in Requests, PurchaseCommit(r) PROVE TypeOK'
    BY <1>0, <1>4, NoPlanIsPlan DEF PurchaseCommit, Finish, Goto, Steps, Copy
<1>5. ASSUME NEW r \in Requests, RenewCheck(r) PROVE TypeOK'
    BY <1>0, <1>5 DEF RenewCheck, Goto, Steps
<1>6. ASSUME NEW r \in Requests, RenewCommit(r) PROVE TypeOK'
    BY <1>0, <1>6, NoPlanIsPlan DEF RenewCommit, Finish, Goto, Steps, Plan, Copy
<1>7. ASSUME NEW r \in Requests, Expire(r) PROVE TypeOK'
    BY <1>0, <1>7, NoPlanIsPlan DEF Expire, Finish, Goto, Steps, Plan
<1>8. ASSUME NEW r \in Requests, Publish(r) PROVE TypeOK'
    BY <1>0, <1>8, NoPlanIsPlan DEF Publish, Finish, Goto, Steps
<1>9. ASSUME NEW r \in Requests, Abort(r) PROVE TypeOK'
    BY <1>0, <1>9, NoPlanIsPlan DEF Abort, Finish, Goto, Steps
<1>10. ASSUME NEW r \in Requests, Read(r) PROVE TypeOK'
  <2>1. [plan EXCEPT !.end = PeriodEnd] \in Plan
    BY PeriodEndInEnds DEF Plan
  <2>2. [old |-> plan, new |-> [plan EXCEPT !.end = PeriodEnd]] \in Copy
    BY <2>1 DEF Copy
  <2>3. QED
    BY <1>0, <1>10, <2>2 DEF Read, Goto, Steps
<1>11. ASSUME NEW r \in Requests, PublishCheck(r) PROVE TypeOK'
    BY <1>0, <1>11 DEF PublishCheck, Goto, Steps
<1>12. ASSUME NEW r \in Requests, NEW tier \in Tiers, PurchaseCheck(r, tier) PROVE TypeOK'
    BY <1>0, <1>12, PeriodEndInEnds DEF PurchaseCheck, Goto, Steps, Plan, Copy
<1>13. QED
  <2> HIDE DEF TypeOK, PremiumAssumption
  <2>1. QED
    BY <1>0, <1>1, <1>2, <1>3, <1>4, <1>5, <1>6, <1>7, <1>8, <1>9, <1>10, <1>11, <1>12 DEF Step, Handle

(* Every period granted is charged in the commit that grants it. *)
LEMMA StepCharged ==
    ASSUME PremiumAssumption, TypeOK, TypeOK', PeriodsCharged, Step
    PROVE  PeriodsCharged'
<1> DEFINE S == SumFunction(renewals)
<1> DEFINE K == purchases + S
<1>1. /\ {balance, topUps, Price, K, S} \subseteq Int /\ balance = topUps - Price * K
      /\ {balance', topUps'} \subseteq Int
    BY RenewalsType DEF TypeOK, PeriodsCharged, PremiumAssumption
<1>2. Price * (K + 1) = Price * K + Price /\ Price * K \in Int
    BY <1>1, OneMore
<1>3. CASE TopUp
  <2>1. balance' = balance + Price /\ topUps' = topUps + Price /\ K' = K
    BY <1>3 DEF TopUp
  <2> HIDE DEF K
  <2>2. balance' = topUps' - Price * K
    BY <1>1, <1>2, <2>1
  <2>3. QED
    BY <2>1, <2>2 DEF PeriodsCharged, K
<1>4. ASSUME NEW r \in Requests, PurchaseCommit(r)
      PROVE  PeriodsCharged'
  <2>1. balance' = balance - Price /\ topUps' = topUps /\ K' = K + 1
    BY <1>1, <1>4 DEF PurchaseCommit, TypeOK
  <2> HIDE DEF K
  <2>2. balance' = topUps' - Price * (K + 1)
    BY <1>1, <1>2, <2>1
  <2>3. QED
    BY <2>1, <2>2 DEF PeriodsCharged, K
<1>5. ASSUME NEW r \in Requests, RenewCommit(r)
      PROVE  PeriodsCharged'
  <2> DEFINE e == copy[r].old.end
  <2>1. e \in Ends /\ renewals' = [renewals EXCEPT ![e] = @ + 1]
    BY <1>5 DEF RenewCommit, TypeOK, Plan, Copy
  <2>2. S' = S + 1
    <3>1. /\ DOMAIN renewals = Ends /\ DOMAIN renewals' = Ends
          /\ \A d \in Ends : renewals[d] \in Int /\ renewals'[d] \in Int
          /\ \A d \in Ends \ {e} : renewals[d] = renewals'[d]
          /\ renewals'[e] = renewals[e] + 1
      BY <2>1 DEF TypeOK
    <3>2. S = SumFunctionOnSet(renewals, Ends) /\ S' = SumFunctionOnSet(renewals', Ends)
      BY <3>1 DEF SumFunction
    <3> HIDE DEF S, e
    <3>3. SumFunctionOnSet(renewals', Ends) = SumFunctionOnSet(renewals, Ends) + renewals'[e] - renewals[e]
      <4> DEFINE f == renewals
      <4> DEFINE g == renewals'
      <4>1. /\ IsFiniteSet(Ends) /\ e \in Ends
            /\ \A d \in Ends : f[d] \in Int /\ g[d] \in Int
            /\ \A d \in Ends \ {e} : f[d] = g[d]
        BY PremiumAssumption, EndsAreFinite, <2>1, <3>1
      <4> HIDE DEF f, g
      <4>2. SumFunctionOnSet(g, Ends) = SumFunctionOnSet(f, Ends) + g[e] - f[e]
        BY <4>1, SumChange
      <4>3. QED
        BY <4>2 DEF f, g
    <3>4. QED
      BY <1>1, <2>1, <3>1, <3>2, <3>3
  <2>3. balance' = balance - Price /\ topUps' = topUps /\ K' = K + 1
    BY <1>1, <1>5, <2>2 DEF RenewCommit, TypeOK
  <2> HIDE DEF K
  <2>4. balance' = topUps' - Price * (K + 1)
    BY <1>1, <1>2, <2>3
  <2>5. QED
    BY <2>3, <2>4 DEF PeriodsCharged, K
<1>6. ASSUME UNCHANGED <<balance, topUps, purchases, renewals>>
      PROVE  PeriodsCharged'
    BY <1>6 DEF PeriodsCharged
<1>7. QED
    BY <1>3, <1>4, <1>5, <1>6 DEF Step, Handle, db, NextDay, Archive, RenewCheck, Expire, Publish, Abort, Read,
                                  PublishCheck, PurchaseCheck

-----------------------------------------------------------------------------
LEMMA StepAlone ==
    ASSUME PremiumAssumption, TypeOK, TypeOK', Alone, Step, OneAtATime'
    PROVE  Alone'
<1> USE DEF PremiumAssumption, db
<1> DEFINE Rest == Fresh /\ RenewedBefore /\ (\A e \in Ends : renewals[e] <= 1)
                     /\ (plan.status = "EXPIRED" => plan.end < today)
<1> SUFFICES Rest'
    BY DEF Alone
<1>a. Rest /\ OneAtATime
    BY DEF Alone
<1>b. /\ PeriodEnd \in Ends /\ today <= PeriodEnd /\ today \in Int /\ PeriodEnd \in Int
      /\ Ends \subseteq Int /\ plan.end \in Int /\ \A r \in Requests : copy[r].new.end \in Int
  <2>1. PeriodEnd \in Ends /\ today <= PeriodEnd
    BY PeriodEndInEnds
  <2>2. Ends \subseteq Int /\ today \in Int
    BY DEF TypeOK, Ends
  <2>3. plan \in Plan /\ \A r \in Requests : copy[r].new \in Plan
    BY DEF TypeOK, Copy
  <2>4. \A p \in Plan : p.end \in Ends
    BY DEF Plan
  <2>5. QED
    BY <2>1, <2>2, <2>3, <2>4
<1>1. CASE TopUp
    BY <1>a, <1>1 DEF TopUp, Fresh, RenewedBefore, IsOver, PeriodEnd
<1>2. CASE NextDay
  <2>1. PeriodEnd' = PeriodEnd + 1 /\ today' = today + 1
    BY <1>b, <1>2 DEF NextDay, PeriodEnd
  <2>2. Fresh'
    BY <1>a, <1>b, <1>2, <2>1 DEF NextDay, Fresh, IsOver
  <2>3. RenewedBefore'
    <3>1. plan' = plan /\ renewals' = renewals
      BY <1>2 DEF NextDay
    <3>2. plan.end <= PeriodEnd + 1
      BY <1>a, <1>b DEF RenewedBefore
    <3>3. plan'.end <= PeriodEnd'
      BY <2>1, <3>1, <3>2
    <3>4. \A e \in Ends : renewals'[e] > 0 => e < plan'.end
      BY <1>a, <3>1 DEF RenewedBefore
    <3>5. QED
      BY <3>3, <3>4 DEF RenewedBefore
  <2>4. QED
    BY <1>a, <1>b, <1>2, <2>1, <2>2, <2>3 DEF NextDay
<1>3. ASSUME NEW x \in Reels, Archive(x) PROVE Rest'
    BY <1>a, <1>3 DEF Archive, Fresh, RenewedBefore, IsOver, PeriodEnd
<1>4. ASSUME NEW r \in Requests, pc[r] # "idle"
      PROVE  \A q \in Requests : q # r => pc[q] = "idle"
    BY <1>a, <1>4 DEF OneAtATime
<1>5. ASSUME NEW r \in Requests, PurchaseCommit(r) PROVE Rest'
  <2>1. \A q \in Requests : pc'[q] = "idle"
    BY <1>4, <1>5 DEF PurchaseCommit, Finish, Goto, TypeOK
  <2>2. /\ plan' = copy[r].new /\ plan'.status = "ACTIVE" /\ plan'.end \in Int
        /\ plan.end <= plan'.end /\ plan'.end <= PeriodEnd
    BY <1>a, <1>b, <1>5 DEF PurchaseCommit, Fresh
  <2>3. PeriodEnd' = PeriodEnd /\ renewals' = renewals
    BY <1>5 DEF PurchaseCommit, PeriodEnd
  <2>4. ASSUME NEW e \in Ends, renewals[e] > 0 PROVE e < plan'.end
    <3>1. e < plan.end
      BY <1>a, <2>4 DEF RenewedBefore
    <3>2. e \in Int /\ plan.end \in Int /\ plan'.end \in Int /\ plan.end <= plan'.end
      BY <1>b, <2>2
    <3>3. QED
      BY <3>1, <3>2
  <2>5. RenewedBefore'
    BY <2>2, <2>3, <2>4 DEF RenewedBefore
  <2>6. QED
    BY <1>a, <2>1, <2>2, <2>3, <2>5 DEF Fresh
<1>6. ASSUME NEW r \in Requests, RenewCheck(r) PROVE Rest'
    BY <1>a, <1>6 DEF RenewCheck, Goto, Fresh, RenewedBefore, IsOver, PeriodEnd, TypeOK
<1>7. ASSUME NEW r \in Requests, RenewCommit(r) PROVE Rest'
  <2>1. \A q \in Requests : pc'[q] = "idle"
    BY <1>4, <1>7 DEF RenewCommit, Finish, Goto, TypeOK
  <2>2. copy[r].old = plan /\ IsOver(plan) /\ plan.end < copy[r].new.end /\ copy[r].new.end <= PeriodEnd
    BY <1>a, <1>7 DEF RenewCommit, Fresh
  <2>3. /\ renewals' = [renewals EXCEPT ![plan.end] = renewals[plan.end] + 1]
        /\ plan'.end = copy[r].new.end /\ plan'.status = "ACTIVE" /\ today' = today
    BY <1>7, <2>2 DEF RenewCommit, TypeOK, Plan, IsOver
  <2>4. plan.end \in Ends /\ renewals[plan.end] \in Nat /\ ~ (renewals[plan.end] > 0)
    BY <1>a, <1>b DEF RenewedBefore, TypeOK, Plan
  <2>5. renewals[plan.end] = 0
    BY <2>4
  <2>6. \A e \in Ends : renewals'[e] = IF e = plan.end THEN 1 ELSE renewals[e]
    BY <2>3, <2>5 DEF TypeOK
  <2>7. plan.end < plan'.end /\ plan'.end <= PeriodEnd /\ plan'.end \in Int
    BY <1>b, <2>2, <2>3
  <2>8. RenewedBefore'
    BY <1>a, <1>b, <2>3, <2>6, <2>7 DEF RenewedBefore, PeriodEnd
  <2>9. QED
    BY <1>a, <2>1, <2>3, <2>6, <2>8 DEF Fresh
<1>8. ASSUME NEW r \in Requests, Expire(r) PROVE Rest'
  <2>1. \A q \in Requests : pc'[q] = "idle"
    BY <1>4, <1>8 DEF Expire, Finish, Goto, TypeOK
  <2>2. plan.end < today /\ plan'.end = plan.end
    BY <1>a, <1>8 DEF Expire, Fresh, IsOver, TypeOK, Plan
  <2>3. QED
    BY <1>a, <1>8, <2>1, <2>2 DEF Expire, Fresh, RenewedBefore, PeriodEnd
<1>9. ASSUME NEW r \in Requests, Publish(r) PROVE Rest'
    BY <1>a, <1>9 DEF Publish, Finish, Goto, Fresh, RenewedBefore, IsOver, PeriodEnd, TypeOK
<1>10. ASSUME NEW r \in Requests, Abort(r) PROVE Rest'
    BY <1>a, <1>10 DEF Abort, Finish, Goto, Fresh, RenewedBefore, IsOver, PeriodEnd, TypeOK
<1>11. ASSUME NEW r \in Requests, Read(r) PROVE Rest'
  <2>1. /\ copy'[r].old = plan /\ copy'[r].new.end = PeriodEnd
        /\ \A q \in Requests \ {r} : copy'[q] = copy[q]
    BY <1>11 DEF Read, TypeOK, Plan
  <2>2. plan.end < PeriodEnd
    BY <1>b, <1>11 DEF Read, IsOver
  <2>3. pc'[r] = "renewCheck" /\ \A q \in Requests \ {r} : pc'[q] = pc[q]
    BY <1>11 DEF Read, Goto, TypeOK
  <2>4. UNCHANGED <<plan, renewals, today>> /\ PeriodEnd' = PeriodEnd
    BY <1>11 DEF Read, PeriodEnd
  <2>5. Fresh'
    BY <1>a, <1>b, <1>11, <2>1, <2>2, <2>3, <2>4 DEF Fresh, Read, IsOver
  <2>6. QED
    BY <1>a, <2>4, <2>5 DEF RenewedBefore
<1>12. ASSUME NEW r \in Requests, PublishCheck(r) PROVE Rest'
    BY <1>a, <1>12 DEF PublishCheck, Goto, Fresh, RenewedBefore, IsOver, PeriodEnd, TypeOK
<1>13. ASSUME NEW r \in Requests, NEW tier \in Tiers, PurchaseCheck(r, tier) PROVE Rest'
  <2>1. copy'[r].new = [status |-> "ACTIVE", tier |-> tier, end |-> PeriodEnd]
    BY <1>13 DEF PurchaseCheck, TypeOK, Copy
  <2>2. QED
    BY <1>a, <1>b, <1>13, <2>1 DEF PurchaseCheck, Goto, Fresh, RenewedBefore, IsOver, PeriodEnd, TypeOK
<1>14. QED
  <2> HIDE DEF Rest, PremiumAssumption
  <2>1. QED
    BY <1>1, <1>2, <1>3, <1>5, <1>6, <1>7, <1>8, <1>9, <1>10, <1>11, <1>12, <1>13 DEF Step, Handle

LEMMA StepInv == ASSUME PremiumAssumption, Inv, [Next]_<<vars, overlapped>> PROVE Inv'
<1>1. CASE UNCHANGED <<vars, overlapped>>
  <2>1. TypeOK' = TypeOK
    BY <1>1 DEF vars, TypeOK
  <2>2. PeriodsCharged' = PeriodsCharged
    BY <1>1 DEF vars, PeriodsCharged
  <2>3. Alone' = Alone
    BY <1>1 DEF vars, Alone, OneAtATime, Fresh, RenewedBefore, IsOver, PeriodEnd
  <2>4. QED
    BY <1>1, <2>1, <2>2, <2>3 DEF Inv
<1>2. CASE Next
  <2>1. TypeOK /\ TypeOK' /\ Step
    BY <1>2, StepType DEF Inv, Next
  <2>2. PeriodsCharged'
    BY <2>1, StepCharged DEF Inv
  <2>3. ~ overlapped' => ~ overlapped /\ OneAtATime'
    BY <1>2 DEF Next, Watch
  <2>4. ~ overlapped' => Alone'
    BY <2>1, <2>3, StepAlone DEF Inv
  <2>5. QED
    BY <2>1, <2>2, <2>4 DEF Inv
<1>3. QED
    BY <1>1, <1>2

LEMMA InvHolds == ASSUME PremiumAssumption PROVE Spec => []Inv
<1>1. Init => Inv
    BY InitInv
<1>2. Inv /\ [Next]_<<vars, overlapped>> => Inv'
    BY StepInv
<1>3. QED
    BY <1>1, <1>2, PTL DEF Spec

(* No crash and no interleaving gives a premium period away or takes money for *)
(* none; and as long as no two requests overlap, a period is renewed once,     *)
(* however often the plan is read after its end.                               *)
THEOREM PeriodsArePaid == ASSUME PremiumAssumption PROVE Spec => []PlansArePaid
<1>1. Inv => PlansArePaid
    BY DEF Inv, Alone, PlansArePaid, RenewedOnce
<1>2. QED
    BY <1>1, InvHolds, PTL

(* As long as no two requests overlap, no plan is expired before the period it *)
(* has paid for is over.                                                       *)
THEOREM PaidPeriodsAreKept == ASSUME PremiumAssumption PROVE Spec => []PaidPeriodHonoured
<1>1. Inv => PaidPeriodHonoured
    BY DEF Inv, Alone, PaidPeriodHonoured
<1>2. QED
    BY <1>1, InvHolds, PTL
=============================================================================
