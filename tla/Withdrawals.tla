---------------------------- MODULE Withdrawals ----------------------------
(***************************************************************************)
(* The customer's prepaid wallet and its withdrawals: wallet.service.ts,    *)
(* called by the customer's and by the operators' controllers.              *)
(*                                                                         *)
(* A withdrawal takes its amount out of the balance when it is requested   *)
(* (one transaction, READ COMMITTED) and operators move it on by hand; one  *)
(* that fails gives the amount back.  Handlers read, check, and update by  *)
(* id in a later step.                                                     *)
(***************************************************************************)
EXTENDS Integers, FiniteSets, Functions

CONSTANTS
    Withdrawals, Requests,
    Amounts,          \* what customers top up and withdraw
    MaxTopUps,        \* bound: rupees ever added
    MaxRefunds        \* bound: refunds of one withdrawal

ASSUME WithdrawalsAssumption ==
    /\ Amounts \subseteq Nat \ {0}
    /\ MaxTopUps \in Nat /\ MaxRefunds \in Nat
    /\ IsFiniteSet(Withdrawals) /\ "none" \notin Withdrawals

VARIABLES
    balance,      \* customer_wallets.balanceRs
    topUps,       \* sum of the TOPUP ledger rows
    withdrawals,  \* customer_wallet_withdrawals
    refunds,      \* REFUND ledger rows of each withdrawal
    pc,           \* where each request is
    ask,          \* the withdrawal and the amount each request is about
    overlapped    \* history: two requests on the wallet have overlapped

db == <<balance, topUps, withdrawals, refunds>>
vars == <<balance, topUps, withdrawals, refunds, pc, ask>>

-----------------------------------------------------------------------------
Statuses == {"NONE", "REQUESTED", "PROCESSING", "PAID", "FAILED"}

Row == [status : Statuses, amount : Nat]

NoAsk == [id |-> "none", amount |-> 0]

Init ==
    /\ balance = 0
    /\ topUps = 0
    /\ withdrawals = [w \in Withdrawals |-> [status |-> "NONE", amount |-> 0]]
    /\ refunds = [w \in Withdrawals |-> 0]
    /\ pc = [r \in Requests |-> "idle"]
    /\ ask = [r \in Requests |-> NoAsk]
    /\ overlapped = FALSE

Finish(r) ==
    /\ pc' = [pc EXCEPT ![r] = "idle"]
    /\ ask' = [ask EXCEPT ![r] = NoAsk]

SetStatus(w, status) == withdrawals' = [withdrawals EXCEPT ![w].status = status]

(* topUp: credit is one increment with its ledger row. *)
TopUp(a) ==
    /\ topUps + a <= MaxTopUps
    /\ balance' = balance + a
    /\ topUps' = topUps + a
    /\ UNCHANGED <<withdrawals, refunds, pc, ask>>

-----------------------------------------------------------------------------
(* Faulty: the balance is not looked at. *)
CoversAlways(a) == a >= 0

(* The comparison requestWithdrawal and debit both make. *)
Covers(a) == balance >= a

(* requestWithdrawal's check, before its transaction *)
RequestWithdrawal(r, w, a) ==
    /\ pc[r] = "idle"
    /\ withdrawals[w].status = "NONE"
    /\ Covers(a)
    /\ pc' = [pc EXCEPT ![r] = "debit"]
    /\ ask' = [ask EXCEPT ![r] = [id |-> w, amount |-> a]]
    /\ UNCHANGED db

(* debit reads the balance inside the transaction; too little rolls it back. *)
DebitCheck(r) ==
    /\ pc[r] = "debit"
    /\ IF Covers(ask[r].amount)
       THEN pc' = [pc EXCEPT ![r] = "commit"] /\ UNCHANGED ask
       ELSE Finish(r)
    /\ UNCHANGED db

(* Faulty: the row is created and the debit forgotten. *)
CommitWithdrawalUndebited(r) ==
    LET w == ask[r].id
    IN  /\ pc[r] = "commit"
        /\ withdrawals[w].status = "NONE"
        /\ withdrawals' = [withdrawals EXCEPT ![w] = [status |-> "REQUESTED", amount |-> ask[r].amount]]
        /\ Finish(r)
        /\ UNCHANGED <<balance, topUps, refunds>>

(* The decrement and the new row commit together. *)
CommitWithdrawal(r) ==
    LET w == ask[r].id
    IN  /\ pc[r] = "commit"
        /\ withdrawals[w].status = "NONE"
        /\ balance' = balance - ask[r].amount
        /\ withdrawals' = [withdrawals EXCEPT ![w] = [status |-> "REQUESTED", amount |-> ask[r].amount]]
        /\ Finish(r)
        /\ UNCHANGED <<topUps, refunds>>

-----------------------------------------------------------------------------
(* Faulty: a withdrawal is processed whatever happened to it. *)
AdmitsAnyProcess(call, status) ==
    CASE call = "process"  -> status # "NONE"
      [] call = "complete" -> status = "PROCESSING"
      [] OTHER             -> status # "NONE"

(* The check each operator's call makes on the row it has read; adminFail has  *)
(* none.                                                                       *)
Admits(call, status) ==
    CASE call = "process"  -> status = "REQUESTED"
      [] call = "complete" -> status = "PROCESSING"
      [] OTHER             -> status # "NONE"

RequireWithdrawal(r, w, call) ==
    /\ pc[r] = "idle"
    /\ Admits(call, withdrawals[w].status)
    /\ pc' = [pc EXCEPT ![r] = call]
    /\ ask' = [ask EXCEPT ![r] = [id |-> w, amount |-> withdrawals[w].amount]]
    /\ UNCHANGED db

AdminProcess(r) ==
    /\ pc[r] = "process"
    /\ SetStatus(ask[r].id, "PROCESSING")
    /\ Finish(r)
    /\ UNCHANGED <<balance, topUps, refunds>>

AdminComplete(r) ==
    /\ pc[r] = "complete"
    /\ SetStatus(ask[r].id, "PAID")
    /\ Finish(r)
    /\ UNCHANGED <<balance, topUps, refunds>>

(* Faulty: the withdrawal fails and the money stays away. *)
AdminFailUnrefunded(r) ==
    /\ pc[r] = "fail"
    /\ SetStatus(ask[r].id, "FAILED")
    /\ Finish(r)
    /\ UNCHANGED <<balance, topUps, refunds>>

(* FAILED and the credit commit together. *)
AdminFail(r) ==
    LET w == ask[r].id
    IN  /\ pc[r] = "fail"
        /\ refunds[w] < MaxRefunds
        /\ SetStatus(w, "FAILED")
        /\ balance' = balance + ask[r].amount
        /\ refunds' = [refunds EXCEPT ![w] = @ + 1]
        /\ Finish(r)
        /\ UNCHANGED topUps

(* The function is killed between two of its statements. *)
Abort(r) ==
    /\ pc[r] # "idle"
    /\ Finish(r)
    /\ UNCHANGED db

Step ==
    \/ \E a \in Amounts : TopUp(a)
    \/ \E r \in Requests :
          \/ DebitCheck(r) \/ CommitWithdrawal(r)
          \/ AdminProcess(r) \/ AdminComplete(r) \/ AdminFail(r)
          \/ Abort(r)
          \/ \E w \in Withdrawals :
                \/ \E a \in Amounts : RequestWithdrawal(r, w, a)
                \/ \E call \in {"process", "complete", "fail"} : RequireWithdrawal(r, w, call)

(* At most one request on the wallet is in flight. *)
OneAtATime == \A q, r \in Requests : pc[q] # "idle" /\ pc[r] # "idle" => q = r

(* Set by the first step after which two requests are in flight at once. *)
Watch == overlapped' = (overlapped \/ ~OneAtATime')

Next == Step /\ Watch

Spec == Init /\ [][Next]_<<vars, overlapped>>

-----------------------------------------------------------------------------
(* Every row keeps its column types. *)
TypeOK ==
    /\ balance \in Int
    /\ topUps \in 0..MaxTopUps
    /\ withdrawals \in [Withdrawals -> Row]
    /\ refunds \in [Withdrawals -> Nat]
    /\ pc \in [Requests -> {"idle", "debit", "commit", "process", "complete", "fail"}]
    /\ ask \in [Requests -> [id : Withdrawals \cup {"none"}, amount : Nat]]
    /\ overlapped \in BOOLEAN

(* "Debited immediately at request time (reserves the funds), refunded on      *)
(* fail": every rupee ever added or given back is in the balance or in a       *)
(* withdrawal, whatever overlaps and wherever a request dies.                  *)
FundsReserved ==
    balance + SumFunction([w \in Withdrawals |-> withdrawals[w].amount])
        = topUps + SumFunction([w \in Withdrawals |-> refunds[w] * withdrawals[w].amount])

(* A withdrawal that fails has been refunded in the same transaction: none is  *)
(* ever seen FAILED with its money in neither place.                           *)
FailedIsRefunded ==
    \A w \in Withdrawals : withdrawals[w].status = "FAILED" => refunds[w] > 0

-----------------------------------------------------------------------------
(* Properties that only requests which overlap can break *)

(* The two checks of the balance keep it from being overdrawn: by one request  *)
(* after the other, whatever dies and is repeated.  Two withdrawals that       *)
(* overlap both pass the checks.                                               *)
NeverOverdrawn == ~overlapped => balance >= 0

(* What has been given back is not paid out as well: a refunded withdrawal is  *)
(* FAILED for good.  An adminProcess that overlaps the failure takes it back.  *)
RefundedStaysFailed ==
    ~overlapped =>
        \A w \in Withdrawals : refunds[w] > 0 => withdrawals[w].status = "FAILED"

=============================================================================
