--------------------------- MODULE PayoutsProofs ---------------------------
(***************************************************************************)
(* Paid and pending payouts stay within the kitchen's net earnings as long  *)
(* as no two requests overlap: for every number of payouts and of requests, *)
(* and for every order total.                                              *)
(***************************************************************************)
EXTENDS Payouts, Sums, TLAPS

Statuses == {"NONE", "REQUESTED", "PROCESSING", "PAID", "FAILED"}

Pending == {"REQUESTED", "PROCESSING"}

Taken == {"REQUESTED", "PROCESSING", "PAID"}

TypeOK ==
    /\ gross \in Nat
    /\ payouts \in [PayoutIds -> [status : Statuses, amount : Nat]]
    /\ pc \in [AllRequests -> {"idle", "computing", "process", "complete", "fail"}]
    /\ sums \in [KitchenRequests -> [gross : Nat \cup {Unread}, paid : Int, pending : Int]]
    /\ about \in [OpsRequests -> PayoutIds \cup {"none"}]
    /\ overlapped \in BOOLEAN

(* A kitchen's request has read what still holds, or an order less. *)
FreshSums ==
    \A r \in KitchenRequests :
        /\ pc[r] # "computing" => sums[r] = NoSums
        /\ sums[r].gross # Unread => sums[r].gross <= gross
        /\ sums[r].paid # Unread => sums[r].paid = Total({"PAID"})
        /\ sums[r].pending # Unread => sums[r].pending = Total(Pending)

(* An operator's payout is where the check has found it. *)
FreshRows ==
    \A r \in OpsRequests :
        /\ pc[r] # "computing"
        /\ pc[r] # "idle" => about[r] \in PayoutIds /\ Admits(pc[r], payouts[about[r]].status)

Covered == Total(Taken) <= NetEarnings(gross)

Alone == OneAtATime /\ FreshSums /\ FreshRows /\ Covered

Inv == TypeOK /\ (overlapped \/ Alone)

-----------------------------------------------------------------------------
(* Totals *)

Terms(statuses) == [p \in PayoutIds |-> IF payouts[p].status \in statuses THEN payouts[p].amount ELSE 0]

LEMMA TotalIsSum ==
    ASSUME NEW statuses
    PROVE  /\ Total(statuses) = SumFunctionOnSet(Terms(statuses), PayoutIds)
           /\ Total(statuses)' = SumFunctionOnSet(Terms(statuses)', PayoutIds)
BY DEF Total, Terms, SumFunction

LEMMA TermTypes ==
    ASSUME NEW statuses, TypeOK
    PROVE  \A p \in PayoutIds : Terms(statuses)[p] \in Int
BY DEF TypeOK, Terms

LEMMA TotalType ==
    ASSUME NEW statuses, TypeOK, IsFiniteSet(PayoutIds)
    PROVE  Total(statuses) \in Int
BY TotalIsSum, TermTypes, SumType

(* One payout's row is written: the total changes by its difference. *)
LEMMA TotalMoves ==
    ASSUME NEW statuses, IsFiniteSet(PayoutIds), TypeOK, TypeOK',
           NEW p \in PayoutIds, NEW row, payouts' = [payouts EXCEPT ![p] = row]
    PROVE  Total(statuses)' = Total(statuses)
               + (IF row.status \in statuses THEN row.amount ELSE 0)
               - (IF payouts[p].status \in statuses THEN payouts[p].amount ELSE 0)
<1> DEFINE f == Terms(statuses)
<1> DEFINE g == Terms(statuses)'
<1>1. \A q \in PayoutIds : f[q] \in Int /\ g[q] \in Int
    BY DEF TypeOK, Terms
<1>2. \A q \in PayoutIds \ {p} : f[q] = g[q]
    BY DEF Terms, TypeOK
<1>3. /\ f[p] = IF payouts[p].status \in statuses THEN payouts[p].amount ELSE 0
      /\ g[p] = IF row.status \in statuses THEN row.amount ELSE 0
    BY DEF Terms, TypeOK
<1> HIDE DEF f, g
<1>4. SumFunctionOnSet(g, PayoutIds) = SumFunctionOnSet(f, PayoutIds) + g[p] - f[p]
    BY <1>1, <1>2, SumChange
<1>5. QED
    BY <1>3, <1>4, TotalIsSum DEF f, g

(* What is paid and what is pending together is what is taken. *)
LEMMA TakenIsPaidAndPending ==
    ASSUME TypeOK, IsFiniteSet(PayoutIds)
    PROVE  Total(Taken) = Total({"PAID"}) + Total(Pending)
<1> DEFINE f == Terms({"PAID"})
<1> DEFINE g == Terms(Pending)
<1> DEFINE h == Terms(Taken)
<1>1. \A p \in PayoutIds : f[p] \in Int /\ g[p] \in Int /\ h[p] = f[p] + g[p]
    BY DEF Terms, TypeOK, Taken, Pending
<1> HIDE DEF f, g, h
<1>2. SumFunctionOnSet(h, PayoutIds) = SumFunctionOnSet(f, PayoutIds) + SumFunctionOnSet(g, PayoutIds)
    BY <1>1, SumAdd
<1>3. QED
    BY <1>2, TotalIsSum DEF f, g, h

LEMMA TotalsStay ==
    ASSUME NEW statuses, UNCHANGED payouts
    PROVE  Total(statuses)' = Total(statuses)
BY DEF Total

LEMMA NetMonotone ==
    ASSUME NEW m \in Nat, NEW n \in Nat, m <= n
    PROVE  NetEarnings(m) <= NetEarnings(n) /\ NetEarnings(m) \in Int
BY DEF NetEarnings

-----------------------------------------------------------------------------
LEMMA InitInv ==
    ASSUME PayoutsAssumption, Init
    PROVE  Inv
<1>1. TypeOK
  <2>1. Unread \in Int /\ NoSums \in [gross : Nat \cup {Unread}, paid : Int, pending : Int]
    BY DEF NoSums, Unread
  <2>2. QED
    BY <2>1 DEF PayoutsAssumption, Init, TypeOK, NoPayout, Statuses, AllRequests
<1>2. OneAtATime /\ FreshSums /\ FreshRows
    BY DEF PayoutsAssumption, Init, OneAtATime, FreshSums, FreshRows, NoSums, AllRequests
<1>3. Covered
  <2>1. \A p \in PayoutIds : Terms(Taken)[p] = 0
    BY DEF Init, Terms, NoPayout
  <2>2. Total(Taken) = 0
    BY <2>1, TotalIsSum, SumZero DEF PayoutsAssumption
  <2>3. QED
    BY <2>2 DEF Init, Covered, NetEarnings
<1>4. QED
    BY <1>1, <1>2, <1>3 DEF Inv, Alone

LEMMA StepType ==
    ASSUME PayoutsAssumption, TypeOK, Next
    PROVE  TypeOK'
<1> USE DEF PayoutsAssumption, TypeOK, AllRequests
<1>0. Step /\ overlapped' \in BOOLEAN
    BY DEF Next, Watch
<1>1. ASSUME NEW total \in OrderTotals, OrderDelivered(total) PROVE TypeOK'
    BY <1>0, <1>1 DEF OrderDelivered
<1>2. ASSUME NEW r \in KitchenRequests, BeginRequest(r) PROVE TypeOK'
    BY <1>0, <1>2 DEF BeginRequest
<1>3. ASSUME NEW r \in KitchenRequests, NEW field \in DOMAIN NoSums, Aggregate(r, field) PROVE TypeOK'
  <2>1. Total({"PAID"}) \in Int /\ Total({"REQUESTED", "PROCESSING"}) \in Int
    BY TotalType
  <2>2. field \in {"gross", "paid", "pending"}
    BY DEF NoSums
  <2>3. sums' \in [KitchenRequests -> [gross : Nat \cup {Unread}, paid : Int, pending : Int]]
    BY <1>3, <2>1, <2>2 DEF Aggregate
  <2>4. QED
    BY <1>0, <1>3, <2>3 DEF Aggregate
<1>4. ASSUME NEW r \in KitchenRequests, CreatePayout(r) PROVE TypeOK'
  <2>1. sums[r].gross \in Nat /\ sums[r].paid \in Int /\ sums[r].pending \in Int
    BY <1>4 DEF CreatePayout, NoSums
  <2>2. Available(sums[r]) \in Int
    BY <2>1 DEF Available, NetEarnings
  <2>3. payouts' \in [PayoutIds -> [status : Statuses, amount : Nat]]
    <3>1. CASE Available(sums[r]) <= 0
      BY <1>4, <3>1 DEF CreatePayout
    <3>2. CASE ~ (Available(sums[r]) <= 0)
      <4>1. Available(sums[r]) \in Nat
        BY <2>2, <3>2
      <4>2. QED
        BY <1>4, <3>2, <4>1 DEF CreatePayout, Statuses
    <3>3. QED
      BY <3>1, <3>2
  <2>4. QED
    BY <1>0, <1>4, <2>3 DEF CreatePayout, NoSums, Unread
<1>5. ASSUME NEW r \in OpsRequests, NEW p \in PayoutIds, NEW call \in {"process", "complete", "fail"},
             RequirePayout(r, p, call)
      PROVE  TypeOK'
    BY <1>0, <1>5 DEF RequirePayout
<1>6. ASSUME NEW r \in OpsRequests, AdminProcess(r) \/ AdminComplete(r) \/ AdminFail(r) PROVE TypeOK'
    BY <1>0, <1>6 DEF AdminProcess, AdminComplete, AdminFail, AdminEnds, Statuses
<1>7. ASSUME NEW r \in AllRequests, Abort(r) PROVE TypeOK'
    BY <1>0, <1>7 DEF Abort, NoSums, Unread
<1>8. QED
  <2> HIDE DEF TypeOK, PayoutsAssumption
  <2>1. QED
    BY <1>0, <1>1, <1>2, <1>3, <1>4, <1>5, <1>6, <1>7 DEF Step

(* When one request works, the others are idle and have read nothing.          *)
LEMMA Others ==
    ASSUME PayoutsAssumption, TypeOK, Alone, NEW r \in AllRequests, pc[r] # "idle"
    PROVE  /\ \A q \in AllRequests : q # r => pc[q] = "idle"
           /\ \A q \in KitchenRequests : q # r => sums[q] = NoSums
           /\ r \in KitchenRequests => r \notin OpsRequests
BY DEF PayoutsAssumption, AllRequests, Alone, OneAtATime, FreshSums

LEMMA StepAlone ==
    ASSUME PayoutsAssumption, TypeOK, TypeOK', Alone, Step, OneAtATime'
    PROVE  Alone'
<1> SUFFICES FreshSums' /\ FreshRows' /\ Covered'
    BY DEF Alone
<1> USE DEF PayoutsAssumption
<1>a. FreshSums /\ FreshRows /\ Covered /\ OneAtATime
    BY DEF Alone
<1>1. ASSUME NEW total \in OrderTotals, OrderDelivered(total)
      PROVE  FreshSums' /\ FreshRows' /\ Covered'
  <2>1. gross \in Nat /\ total \in Nat /\ gross' = gross + total
    BY <1>1 DEF OrderDelivered, TypeOK
  <2>2. \A statuses : Total(statuses)' = Total(statuses)
    BY <1>1, TotalsStay DEF OrderDelivered
  <2>3. FreshSums'
    <3>1. \A r \in KitchenRequests : sums[r].gross # Unread => sums[r].gross \in Nat
      BY DEF TypeOK
    <3>2. QED
      BY <1>1, <1>a, <2>1, <2>2, <3>1 DEF OrderDelivered, FreshSums
  <2>4. FreshRows'
    BY <1>1, <1>a DEF OrderDelivered, FreshRows
  <2>5. Covered'
    <3>1. NetEarnings(gross) <= NetEarnings(gross') /\ NetEarnings(gross) \in Int /\ NetEarnings(gross') \in Int
      BY <2>1, NetMonotone DEF NetEarnings
    <3>2. Total(Taken) \in Int
      BY TotalType
    <3>3. QED
      BY <1>a, <2>2, <3>1, <3>2 DEF Covered
  <2>6. QED
    BY <2>3, <2>4, <2>5
<1>2. ASSUME NEW r \in KitchenRequests, BeginRequest(r)
      PROVE  FreshSums' /\ FreshRows' /\ Covered'
  <2>1. \A statuses : Total(statuses)' = Total(statuses)
    BY <1>2, TotalsStay DEF BeginRequest
  <2>2. FreshSums'
    BY <1>2, <1>a, <2>1 DEF BeginRequest, FreshSums, TypeOK, AllRequests
  <2>3. FreshRows'
    BY <1>2, <1>a DEF BeginRequest, FreshRows, TypeOK, AllRequests
  <2>4. QED
    BY <1>2, <1>a, <2>1, <2>2, <2>3 DEF BeginRequest, Covered
<1>3. ASSUME NEW r \in KitchenRequests, NEW field \in DOMAIN NoSums, Aggregate(r, field)
      PROVE  FreshSums' /\ FreshRows' /\ Covered'
  <2>1. \A statuses : Total(statuses)' = Total(statuses)
    BY <1>3, TotalsStay DEF Aggregate
  <2>2. field \in {"gross", "paid", "pending"}
    BY DEF NoSums
  <2>3. FreshSums'
    BY <1>3, <1>a, <2>1, <2>2 DEF Aggregate, FreshSums, TypeOK, AllRequests, Pending
  <2>4. FreshRows'
    BY <1>3, <1>a DEF Aggregate, FreshRows
  <2>5. QED
    BY <1>3, <1>a, <2>1, <2>3, <2>4 DEF Aggregate, Covered
<1>4. ASSUME NEW r \in KitchenRequests, CreatePayout(r)
      PROVE  FreshSums' /\ FreshRows' /\ Covered'
  <2>1. r \in AllRequests /\ pc[r] # "idle" /\ pc'[r] = "idle" /\ sums'[r] = NoSums
    BY <1>4 DEF CreatePayout, AllRequests, TypeOK
  <2>2. /\ \A q \in AllRequests : pc'[q] = "idle"
        /\ \A q \in KitchenRequests : sums'[q] = NoSums
    BY <1>4, <2>1, Others DEF CreatePayout, TypeOK
  <2>3. FreshSums'
    BY <2>2 DEF FreshSums, NoSums, AllRequests
  <2>4. FreshRows'
    BY <2>2 DEF FreshRows, AllRequests
  <2>5. CASE Available(sums[r]) <= 0
    BY <1>4, <1>a, <2>3, <2>4, <2>5, TotalsStay DEF CreatePayout, Covered
  <2>6. CASE ~ (Available(sums[r]) <= 0)
    <3> DEFINE row == [status |-> "REQUESTED", amount |-> Available(sums[r])]
    <3>1. PICK p \in PayoutIds : payouts[p].status = "NONE" /\ payouts' = [payouts EXCEPT ![p] = row]
      BY <1>4, <2>6 DEF CreatePayout
    <3>2. Total(Taken)' = Total(Taken) + Available(sums[r])
      <4>1. Total(Taken)' = Total(Taken)
               + (IF row.status \in Taken THEN row.amount ELSE 0)
               - (IF payouts[p].status \in Taken THEN payouts[p].amount ELSE 0)
        <5> HIDE DEF row
        <5>1. QED
          BY <3>1, TotalMoves
      <4>2. Total(Taken) \in Int /\ Available(sums[r]) \in Int
        <5>1. row.amount \in Nat
          BY <3>1 DEF TypeOK
        <5>2. QED
          BY <5>1, TotalType
      <4>3. row.status \in Taken /\ payouts[p].status \notin Taken
        BY <3>1 DEF Taken
      <4> HIDE DEF row
      <4>4. Total(Taken)' = Total(Taken) + row.amount - 0
        BY <4>1, <4>3
      <4>5. QED
        BY <4>2, <4>4 DEF row
    <3>3. /\ sums[r].gross \in Nat /\ sums[r].gross <= gross
          /\ sums[r].paid = Total({"PAID"})
          /\ sums[r].pending = Total(Pending)
      BY <1>4, <1>a DEF CreatePayout, NoSums, FreshSums, TypeOK
    <3>4. Total(Taken)' = NetEarnings(sums[r].gross)
      <4>1. /\ Total({"PAID"}) \in Int /\ Total(Pending) \in Int /\ Total(Taken) = Total({"PAID"}) + Total(Pending)
            /\ NetEarnings(sums[r].gross) \in Int
        BY <3>3, TotalType, TakenIsPaidAndPending DEF NetEarnings
      <4>2. QED
        BY <3>2, <3>3, <4>1 DEF Available
    <3>5. Covered'
      BY <1>4, <3>3, <3>4, NetMonotone DEF CreatePayout, Covered, TypeOK
    <3>6. QED
      BY <2>3, <2>4, <3>5
  <2>7. QED
    BY <2>5, <2>6
<1>5. ASSUME NEW r \in OpsRequests, NEW p \in PayoutIds, NEW call \in {"process", "complete", "fail"},
             RequirePayout(r, p, call)
      PROVE  FreshSums' /\ FreshRows' /\ Covered'
  <2>1. \A statuses : Total(statuses)' = Total(statuses)
    BY <1>5, TotalsStay DEF RequirePayout
  <2>2. FreshSums'
    BY <1>5, <1>a, <2>1 DEF RequirePayout, FreshSums, TypeOK, AllRequests
  <2>3. FreshRows'
    BY <1>5, <1>a DEF RequirePayout, FreshRows, TypeOK, AllRequests
  <2>4. QED
    BY <1>5, <1>a, <2>1, <2>2, <2>3 DEF RequirePayout, Covered
<1>6. ASSUME NEW r \in OpsRequests, AdminProcess(r) \/ AdminComplete(r) \/ AdminFail(r)
      PROVE  FreshSums' /\ FreshRows' /\ Covered'
  <2> DEFINE p == about[r]
  <2>1. PICK to \in {"PROCESSING", "PAID", "FAILED"} :
           /\ payouts' = [payouts EXCEPT ![p].status = to]
           /\ pc[r] = CASE to = "PROCESSING" -> "process" [] to = "PAID" -> "complete" [] OTHER -> "fail"
    BY <1>6 DEF AdminProcess, AdminComplete, AdminFail
  <2>2. AdminEnds(r) /\ pc[r] # "idle" /\ r \in AllRequests
    BY <1>6 DEF AdminProcess, AdminComplete, AdminFail, AllRequests
  <2>3. /\ p \in PayoutIds /\ Admits(pc[r], payouts[p].status)
    BY <1>a, <2>2 DEF FreshRows
  <2>4. /\ \A q \in AllRequests : pc'[q] = "idle"
        /\ \A q \in KitchenRequests : sums'[q] = NoSums
    <3>1. pc[r] # "computing" /\ r \notin KitchenRequests
      BY <1>6, <2>1
    <3>2. QED
      BY <2>2, <3>1, Others DEF AdminEnds, TypeOK
  <2>5. FreshSums' /\ FreshRows'
    BY <2>4 DEF FreshSums, FreshRows, NoSums, AllRequests
  <2>6. Covered'
    <3> DEFINE row == [payouts[p] EXCEPT !.status = to]
    <3>1. payouts' = [payouts EXCEPT ![p] = row] /\ row.status = to /\ row.amount = payouts[p].amount
      BY <2>1, <2>3 DEF TypeOK
    <3>2. Total(Taken)' = Total(Taken)
               + (IF row.status \in Taken THEN row.amount ELSE 0)
               - (IF payouts[p].status \in Taken THEN payouts[p].amount ELSE 0)
      <4> HIDE DEF row, p
      <4>1. QED
        BY <2>3, <3>1, TotalMoves
    <3>3. to \in Taken => payouts[p].status \in Taken
      BY <2>1, <2>3 DEF Admits, Taken
    <3>4. payouts[p].amount \in Nat /\ Total(Taken) \in Int /\ NetEarnings(gross) \in Int /\ gross' = gross
      <4>1. gross' = gross /\ gross \in Nat
        BY <2>2 DEF AdminEnds, TypeOK
      <4>2. payouts[p].amount \in Nat
        BY <2>3 DEF TypeOK
      <4>3. NetEarnings(gross) \in Int
        BY <4>1 DEF NetEarnings
      <4>4. Total(Taken) \in Int
        BY TotalType
      <4>5. QED
        BY <4>1, <4>2, <4>3, <4>4
    <3> HIDE DEF row, p
    <3>5. Total(Taken)' <= Total(Taken)
      BY <3>1, <3>2, <3>3, <3>4
    <3>6. Total(Taken)' \in Int
      BY <3>1, <3>2, <3>4
    <3>7. QED
      BY <1>a, <3>4, <3>5, <3>6 DEF Covered
  <2>7. QED
    BY <2>5, <2>6
<1>7. ASSUME NEW r \in AllRequests, Abort(r)
      PROVE  FreshSums' /\ FreshRows' /\ Covered'
  <2>1. \A statuses : Total(statuses)' = Total(statuses)
    BY <1>7, TotalsStay DEF Abort
  <2>2. FreshSums'
    BY <1>7, <1>a, <2>1 DEF Abort, FreshSums, TypeOK, AllRequests, NoSums
  <2>3. FreshRows'
    BY <1>7, <1>a DEF Abort, FreshRows, TypeOK, AllRequests
  <2>4. QED
    BY <1>7, <1>a, <2>1, <2>2, <2>3 DEF Abort, Covered
<1>8. QED
    BY <1>1, <1>2, <1>3, <1>4, <1>5, <1>6, <1>7 DEF Step

LEMMA StepInv == ASSUME PayoutsAssumption, Inv, [Next]_<<vars, overlapped>> PROVE Inv'
<1>1. CASE UNCHANGED <<vars, overlapped>>
  <2>1. \A statuses : Total(statuses)' = Total(statuses)
    BY <1>1, TotalsStay DEF vars
  <2>2. TypeOK' = TypeOK
    BY <1>1 DEF vars, TypeOK
  <2>3. Alone' = Alone
    BY <1>1, <2>1 DEF vars, Alone, OneAtATime, FreshSums, FreshRows, Covered
  <2>4. QED
    BY <1>1, <2>2, <2>3 DEF Inv
<1>2. CASE Next
  <2>1. TypeOK /\ TypeOK'
    BY <1>2, StepType DEF Inv
  <2>2. CASE overlapped'
    BY <2>1, <2>2 DEF Inv
  <2>3. CASE ~ overlapped'
    <3>1. ~ overlapped /\ OneAtATime' /\ Step
      BY <1>2, <2>3 DEF Next, Watch
    <3>2. Alone'
      BY <2>1, <3>1, StepAlone DEF Inv
    <3>3. QED
      BY <2>1, <3>2 DEF Inv
  <2>4. QED
    BY <2>2, <2>3
<1>3. QED
    BY <1>1, <1>2

(* What computeEarnings promises: as long as no two requests overlap, what has  *)
(* been paid and what is still to be paid stay within nine tenths of what was  *)
(* delivered, through every crash, failure and repetition.                     *)
THEOREM PayoutsStayWithinEarnings == ASSUME PayoutsAssumption PROVE Spec => []WithinEarnings
<1>1. Init => Inv
    BY InitInv
<1>2. Inv /\ [Next]_<<vars, overlapped>> => Inv'
    BY StepInv
<1>3. Inv => WithinEarnings
    BY DEF Inv, Alone, Covered, WithinEarnings, Taken
<1>4. QED
    BY <1>1, <1>2, <1>3, PTL DEF Spec
=============================================================================
