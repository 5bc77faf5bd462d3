------------------------------ MODULE Payouts ------------------------------
(***************************************************************************)
(* What a kitchen has earned, and the payouts it asks for:                 *)
(* payouts.service.ts with its two controllers.                            *)
(*                                                                         *)
(* The amount of a payout is computed from three aggregates that run side  *)
(* by side on their own connections (Promise.all), so each sees the tables *)
(* at its own moment; the row is created later, in no transaction with     *)
(* them.  Operators move payouts on by hand.                               *)
(***************************************************************************)
EXTENDS Integers, FiniteSets, Functions

CONSTANTS
    PayoutIds,
    KitchenRequests,  \* requests of the kitchen's app
    OpsRequests,      \* requests of the operators
    OrderTotals,      \* totals of delivered orders
    MaxGross          \* bound: revenue delivered

PayoutsAssumption ==
    /\ OrderTotals \subseteq Nat \ {0}
    /\ MaxGross \in Nat
    /\ KitchenRequests \cap OpsRequests = {}
    /\ "none" \notin PayoutIds
    /\ IsFiniteSet(PayoutIds)

AllRequests == KitchenRequests \cup OpsRequests

VARIABLES
    gross,      \* sum of the kitchen's DELIVERED orders
    payouts,    \* payouts table
    pc,         \* where each request is
    sums,       \* the aggregates each kitchen request has got back
    about,      \* the payout each operator's request is about
    overlapped  \* history: two requests about the kitchen have overlapped

vars == <<gross, payouts, pc, sums, about>>

-----------------------------------------------------------------------------
NoPayout == [status |-> "NONE", amount |-> 0]

Unread == -1

NoSums == [gross |-> Unread, paid |-> Unread, pending |-> Unread]

(* The sum of the payouts whose status is one of these. *)
Total(statuses) ==
    SumFunction([p \in PayoutIds |-> IF payouts[p].status \in statuses THEN payouts[p].amount ELSE 0])

(* Floored to whole rupees after the platform's ten percent. *)
NetEarnings(revenue) == (9 * revenue) \div 10

(* Faulty: what has been requested already is not subtracted. *)
AvailableIgnoresPending(s) == NetEarnings(s.gross) - s.paid

(* availableForPayout; request refuses one that is not positive. *)
Available(s) == NetEarnings(s.gross) - s.paid - s.pending

Init ==
    /\ gross = 0
    /\ payouts = [p \in PayoutIds |-> NoPayout]
    /\ pc = [r \in AllRequests |-> "idle"]
    /\ sums = [r \in KitchenRequests |-> NoSums]
    /\ about = [r \in OpsRequests |-> "none"]
    /\ overlapped = FALSE

(* An order is delivered elsewhere. *)
OrderDelivered(total) ==
    /\ gross + total <= MaxGross
    /\ gross' = gross + total
    /\ UNCHANGED <<payouts, pc, sums, about>>

-----------------------------------------------------------------------------
(* request *)
BeginRequest(r) ==
    /\ pc[r] = "idle"
    /\ pc' = [pc EXCEPT ![r] = "computing"]
    /\ UNCHANGED <<gross, payouts, sums, about>>

(* computeEarnings: one of the three aggregates returns. *)
Aggregate(r, field) ==
    /\ pc[r] = "computing"
    /\ sums[r][field] = Unread
    /\ sums' = [sums EXCEPT ![r][field] =
          CASE field = "gross" -> gross
            [] field = "paid"  -> Total({"PAID"})
            [] OTHER           -> Total({"REQUESTED", "PROCESSING"})]
    /\ UNCHANGED <<gross, payouts, pc, about>>

(* The row is created when something is available, nothing otherwise. *)
CreatePayout(r) ==
    /\ pc[r] = "computing"
    /\ \A field \in DOMAIN NoSums : sums[r][field] # Unread
    /\ pc' = [pc EXCEPT ![r] = "idle"]
    /\ sums' = [sums EXCEPT ![r] = NoSums]
    /\ IF Available(sums[r]) <= 0
       THEN UNCHANGED payouts
       ELSE \E p \in PayoutIds :
               /\ payouts[p].status = "NONE"
               /\ payouts' = [payouts EXCEPT ![p] =
                                 [status |-> "REQUESTED", amount |-> Available(sums[r])]]
    /\ UNCHANGED <<gross, about>>

-----------------------------------------------------------------------------
(* The check each operator's call makes on the row it has read; adminFail has  *)
(* none.                                                                       *)
Admits(call, status) ==
    CASE call = "process"  -> status = "REQUESTED"
      [] call = "complete" -> status = "PROCESSING"
      [] OTHER             -> status # "NONE"

RequirePayout(r, p, call) ==
    /\ pc[r] = "idle"
    /\ Admits(call, payouts[p].status)
    /\ pc' = [pc EXCEPT ![r] = call]
    /\ about' = [about EXCEPT ![r] = p]
    /\ UNCHANGED <<gross, payouts, sums>>

AdminEnds(r) ==
    /\ pc' = [pc EXCEPT ![r] = "idle"]
    /\ about' = [about EXCEPT ![r] = "none"]
    /\ UNCHANGED <<gross, sums>>

AdminProcess(r) ==
    /\ pc[r] = "process"
    /\ payouts' = [payouts EXCEPT ![about[r]].status = "PROCESSING"]
    /\ AdminEnds(r)

AdminComplete(r) ==
    /\ pc[r] = "complete"
    /\ payouts' = [payouts EXCEPT ![about[r]].status = "PAID"]
    /\ AdminEnds(r)

AdminFail(r) ==
    /\ pc[r] = "fail"
    /\ payouts' = [payouts EXCEPT ![about[r]].status = "FAILED"]
    /\ AdminEnds(r)

(* The function is killed between two of its statements. *)
Abort(r) ==
    /\ pc[r] # "idle"
    /\ pc' = [pc EXCEPT ![r] = "idle"]
    /\ sums' = IF r \in KitchenRequests THEN [sums EXCEPT ![r] = NoSums] ELSE sums
    /\ about' = IF r \in OpsRequests THEN [about EXCEPT ![r] = "none"] ELSE about
    /\ UNCHANGED <<gross, payouts>>

Step ==
    \/ \E total \in OrderTotals : OrderDelivered(total)
    \/ \E r \in KitchenRequests :
          \/ BeginRequest(r)
          \/ \E field \in DOMAIN NoSums : Aggregate(r, field)
          \/ CreatePayout(r)
    \/ \E r \in OpsRequests :
          \/ \E p \in PayoutIds, call \in {"process", "complete", "fail"} : RequirePayout(r, p, call)
          \/ AdminProcess(r) \/ AdminComplete(r) \/ AdminFail(r)
    \/ \E r \in AllRequests : Abort(r)

(* At most one request about the kitchen is in flight. *)
OneAtATime == \A q, r \in AllRequests : pc[q] # "idle" /\ pc[r] # "idle" => q = r

(* Set by the first step after which two requests are in flight at once. *)
Watch == overlapped' = (overlapped \/ ~OneAtATime')

Next == Step /\ Watch

Spec == Init /\ [][Next]_<<vars, overlapped>>

-----------------------------------------------------------------------------
(* What computeEarnings promises in its comment, of the payouts that exist:    *)
(* paid and pending together stay within the net earnings, failures and their  *)
(* repetitions included.  Two requests that overlap break it, and so does one  *)
(* that overlaps an operator's adminComplete: PAID is added up before the      *)
(* payout gets there and REQUESTED/PROCESSING after it has left.               *)
WithinEarnings ==
    ~overlapped => Total({"REQUESTED", "PROCESSING", "PAID"}) <= NetEarnings(gross)
=============================================================================
