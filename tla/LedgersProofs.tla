------------------------- MODULE LedgersProofs -----------------------------
(***************************************************************************)
(* What is proved about the books for any number of rows, requests and      *)
(* rupees.  Module Withdrawals is proved here, in two layers: Inv and       *)
(* Booked hold in every interleaving, and Alone as long as no two requests  *)
(* have overlapped.  The other books are proved in modules of their own,    *)
(* and carried over to the ledgers at the end.                             *)
(***************************************************************************)
EXTENDS MCLedgers, Sums, TLAPS

(* A request in flight knows its withdrawal. *)
Named == \A r \in Requests : pc[r] # "idle" => ask[r].id \in Withdrawals

Inv == TypeOK /\ Named /\ FailedIsRefunded

Funds ==
    /\ balance >= 0
    /\ \A r \in Requests : pc[r] = "commit" => balance >= ask[r].amount

(* What a request has read of its withdrawal is still so when it writes. *)
Current ==
    \A r \in Requests :
        /\ pc[r] = "process" => withdrawals[ask[r].id].status = "REQUESTED"
        /\ pc[r] = "complete" => withdrawals[ask[r].id].status = "PROCESSING"

Refunded == \A w \in Withdrawals : refunds[w] > 0 => withdrawals[w].status = "FAILED"

Alone == OneAtATime /\ Funds /\ Current /\ Refunded

-----------------------------------------------------------------------------
(* What the helpers of the actions do *)

LEMMA FinishOK ==
    ASSUME TypeOK, NEW r \in Requests, Finish(r)
    PROVE  /\ pc' \in [Requests -> {"idle", "debit", "commit", "process", "complete", "fail"}]
           /\ ask' \in [Requests -> [id : Withdrawals \cup {"none"}, amount : Nat]]
           /\ pc'[r] = "idle"
           /\ \A q \in Requests \ {r} : pc'[q] = pc[q] /\ ask'[q] = ask[q]
BY DEF TypeOK, Finish, NoAsk

LEMMA SetStatusOK ==
    ASSUME TypeOK, NEW w \in Withdrawals, NEW status \in Statuses, SetStatus(w, status)
    PROVE  /\ withdrawals' \in [Withdrawals -> Row]
           /\ withdrawals'[w].status = status
           /\ \A v \in Withdrawals \ {w} : withdrawals'[v] = withdrawals[v]
<1>1. ASSUME NEW row \in Row PROVE [row EXCEPT !.status = status] \in Row
    BY DEF Row
<1>2. withdrawals[w] \in Row /\ withdrawals \in [Withdrawals -> Row]
    BY DEF TypeOK
<1>3. [withdrawals[w] EXCEPT !.status = status] \in Row
    BY <1>1, <1>2
<1>4. withdrawals' = [withdrawals EXCEPT ![w] = [withdrawals[w] EXCEPT !.status = status]]
    BY DEF SetStatus
<1>5. [withdrawals[w] EXCEPT !.status = status].status = status
    BY <1>2 DEF Row
<1>6. QED
    BY <1>2, <1>3, <1>4, <1>5

LEMMA CommitOK ==
    ASSUME Inv, NEW r \in Requests, CommitWithdrawal(r)
    PROVE  /\ ask[r].id \in Withdrawals
           /\ withdrawals' \in [Withdrawals -> Row]
           /\ withdrawals[ask[r].id].status = "NONE"
           /\ withdrawals'[ask[r].id].status = "REQUESTED"
           /\ \A v \in Withdrawals \ {ask[r].id} : withdrawals'[v] = withdrawals[v]
<1>1. ask[r].id \in Withdrawals /\ ask[r].amount \in Nat /\ withdrawals \in [Withdrawals -> Row]
    BY DEF Inv, TypeOK, Named, CommitWithdrawal
<1>2. [status |-> "REQUESTED", amount |-> ask[r].amount] \in Row
    BY <1>1 DEF Row, Statuses
<1>3. QED
    BY <1>1, <1>2 DEF CommitWithdrawal

-----------------------------------------------------------------------------
(* Every interleaving *)

LEMMA InitInv == Init => Inv
<1> SUFFICES ASSUME Init PROVE Inv
    OBVIOUS
<1>1. [status |-> "NONE", amount |-> 0] \in Row
    BY DEF Row, Statuses
<1>2. withdrawals \in [Withdrawals -> Row] /\ \A w \in Withdrawals : withdrawals[w].status = "NONE"
    BY <1>1 DEF Init
<1>3. ask \in [Requests -> [id : Withdrawals \cup {"none"}, amount : Nat]]
    BY DEF Init, NoAsk
<1>4. TypeOK
    <2>1. balance \in Int /\ topUps \in 0..MaxTopUps
        BY WithdrawalsAssumption DEF Init
    <2>2. refunds \in [Withdrawals -> Nat]
        BY DEF Init
    <2>3. pc \in [Requests -> {"idle", "debit", "commit", "process", "complete", "fail"}]
        BY DEF Init
    <2>4. overlapped \in BOOLEAN
        BY Zenon DEF Init
    <2>5. QED
        BY <1>2, <1>3, <2>1, <2>2, <2>3, <2>4 DEF TypeOK
<1>5. Named
    BY DEF Init, Named
<1>6. FailedIsRefunded
    BY <1>2 DEF FailedIsRefunded
<1>7. QED
    BY <1>4, <1>5, <1>6 DEF Inv

(* The update of a status that is not FAILED. *)
LEMMA MovesInv ==
    ASSUME Inv, NEW r \in Requests, NEW status \in Statuses \ {"FAILED"},
           pc[r] # "idle", SetStatus(ask[r].id, status), Finish(r),
           UNCHANGED <<balance, topUps, refunds>>, overlapped' \in BOOLEAN
    PROVE  Inv'
<1>1. ask[r].id \in Withdrawals
    BY DEF Inv, Named
<1>2. TypeOK' /\ Named'
    BY <1>1, FinishOK, SetStatusOK DEF Inv, TypeOK, Named
<1>3. FailedIsRefunded'
    BY <1>1, SetStatusOK DEF Inv, FailedIsRefunded
<1>4. QED
    BY <1>2, <1>3 DEF Inv

LEMMA StepInv ==
    ASSUME Inv, Step, overlapped' \in BOOLEAN
    PROVE  Inv'
<1> USE WithdrawalsAssumption
<1>1. ASSUME NEW a \in Amounts, TopUp(a)
      PROVE  Inv'
    BY <1>1 DEF TopUp, Inv, TypeOK, Named, FailedIsRefunded
<1>2. ASSUME NEW r \in Requests, DebitCheck(r)
      PROVE  Inv'
    <2>1. CASE Covers(ask[r].amount)
        BY <1>2, <2>1 DEF DebitCheck, Inv, TypeOK, Named, FailedIsRefunded, db
    <2>2. CASE ~Covers(ask[r].amount)
        BY <1>2, <2>2, FinishOK DEF DebitCheck, Inv, TypeOK, Named, FailedIsRefunded, db
    <2>3. QED
        BY <2>1, <2>2
<1>3. ASSUME NEW r \in Requests, CommitWithdrawal(r)
      PROVE  Inv'
    <2>1. /\ ask[r].id \in Withdrawals
          /\ withdrawals' \in [Withdrawals -> Row]
          /\ withdrawals'[ask[r].id].status = "REQUESTED"
          /\ \A v \in Withdrawals \ {ask[r].id} : withdrawals'[v] = withdrawals[v]
        BY <1>3, CommitOK
    <2>2. /\ pc' \in [Requests -> {"idle", "debit", "commit", "process", "complete", "fail"}]
          /\ ask' \in [Requests -> [id : Withdrawals \cup {"none"}, amount : Nat]]
          /\ pc'[r] = "idle"
          /\ \A q \in Requests \ {r} : pc'[q] = pc[q] /\ ask'[q] = ask[q]
        BY <1>3, FinishOK DEF CommitWithdrawal, Inv
    <2>3. balance' \in Int /\ topUps' = topUps /\ refunds' = refunds
        <3>1. ask[r].amount \in Nat /\ balance \in Int
            BY DEF Inv, TypeOK
        <3>2. QED
            BY <1>3, <3>1 DEF CommitWithdrawal
    <2>4. TypeOK'
        BY <2>1, <2>2, <2>3 DEF Inv, TypeOK
    <2>5. Named'
        BY <2>2 DEF Inv, Named
    <2>6. FailedIsRefunded'
        BY <2>1, <2>3 DEF Inv, FailedIsRefunded
    <2>7. QED
        BY <2>4, <2>5, <2>6 DEF Inv
<1>4. ASSUME NEW r \in Requests, AdminProcess(r)
      PROVE  Inv'
    BY <1>4, MovesInv DEF AdminProcess, Statuses
<1>5. ASSUME NEW r \in Requests, AdminComplete(r)
      PROVE  Inv'
    BY <1>5, MovesInv DEF AdminComplete, Statuses
<1>6. ASSUME NEW r \in Requests, AdminFail(r)
      PROVE  Inv'
    <2>1. ask[r].id \in Withdrawals /\ ask[r].amount \in Nat
        BY <1>6 DEF AdminFail, Inv, Named, TypeOK
    <2>2. /\ withdrawals' \in [Withdrawals -> Row]
          /\ \A v \in Withdrawals \ {ask[r].id} : withdrawals'[v] = withdrawals[v]
        BY <1>6, <2>1, SetStatusOK DEF AdminFail, Inv, Statuses
    <2>3. /\ refunds' \in [Withdrawals -> Nat] /\ refunds'[ask[r].id] > 0
          /\ \A v \in Withdrawals \ {ask[r].id} : refunds'[v] = refunds[v]
        BY <1>6, <2>1 DEF AdminFail, Inv, TypeOK
    <2>4. TypeOK' /\ Named'
        BY <1>6, <2>1, <2>2, <2>3, FinishOK DEF AdminFail, Inv, TypeOK, Named
    <2>5. FailedIsRefunded'
        BY <2>2, <2>3 DEF Inv, FailedIsRefunded
    <2>6. QED
        BY <2>4, <2>5 DEF Inv
<1>7. ASSUME NEW r \in Requests, Abort(r)
      PROVE  Inv'
    BY <1>7, FinishOK DEF Abort, Inv, TypeOK, Named, FailedIsRefunded, db
<1>8. ASSUME NEW r \in Requests, NEW w \in Withdrawals, NEW a \in Amounts, RequestWithdrawal(r, w, a)
      PROVE  Inv'
    BY <1>8 DEF RequestWithdrawal, Inv, TypeOK, Named, FailedIsRefunded, db
<1>9. ASSUME NEW r \in Requests, NEW w \in Withdrawals, NEW call \in {"process", "complete", "fail"},
             RequireWithdrawal(r, w, call)
      PROVE  Inv'
    <2>1. withdrawals[w].amount \in Nat
        BY DEF Inv, TypeOK, Row
    <2>2. QED
        BY <1>9, <2>1 DEF RequireWithdrawal, Inv, TypeOK, Named, FailedIsRefunded, db
<1>10. QED
    BY <1>1, <1>2, <1>3, <1>4, <1>5, <1>6, <1>7, <1>8, <1>9 DEF Step

LEMMA NextInv == Inv /\ [Next]_<<vars, overlapped>> => Inv'
<1> SUFFICES ASSUME Inv, [Next]_<<vars, overlapped>> PROVE Inv'
    OBVIOUS
<1>1. CASE Next
    <2>1. Step /\ overlapped' \in BOOLEAN
        BY <1>1 DEF Next, Watch
    <2>2. QED
        BY <2>1, StepInv
<1>2. CASE UNCHANGED <<vars, overlapped>>
    BY <1>2 DEF vars, Inv, TypeOK, Named, FailedIsRefunded
<1>3. QED
    BY <1>1, <1>2

(* The columns and the requests keep their types in every interleaving. *)
THEOREM TypeCorrect == Spec => []TypeOK
<1>1. Inv => TypeOK
    BY DEF Inv
<1>2. QED
    BY <1>1, InitInv, NextInv, PTL DEF Spec

(* adminFail's transaction: no interleaving shows a FAILED withdrawal whose    *)
(* amount was not given back.                                                  *)
THEOREM FailuresAreRefunded == Spec => []FailedIsRefunded
<1>1. Inv => FailedIsRefunded
    BY DEF Inv
<1>2. QED
    BY <1>1, InitInv, NextInv, PTL DEF Spec
-----------------------------------------------------------------------------
(* Requests that do not overlap *)

LEMMA QuietAfter ==
    ASSUME TypeOK, Alone, NEW r \in Requests, pc[r] # "idle", Finish(r)
    PROVE  \A q \in Requests : pc'[q] = "idle"
BY FinishOK DEF Alone, OneAtATime

(* With no request in flight, only the balance and the rows matter. *)
LEMMA AloneIdle ==
    ASSUME \A q \in Requests : pc'[q] = "idle", balance' >= 0, Refunded'
    PROVE  Alone'
BY DEF Alone, OneAtATime, Funds, Current

(* An operator's update of a withdrawal that is not refunded. *)
LEMMA MovesAlone ==
    ASSUME Inv, Alone, NEW r \in Requests, NEW status \in Statuses,
           pc[r] # "idle", SetStatus(ask[r].id, status), Finish(r),
           withdrawals[ask[r].id].status # "FAILED", UNCHANGED <<balance, topUps, refunds>>
    PROVE  Alone'
<1>1. ask[r].id \in Withdrawals
    BY DEF Inv, Named
<1>2. Refunded'
    BY <1>1, SetStatusOK DEF Inv, Alone, Refunded
<1>3. QED
    BY <1>2, QuietAfter, AloneIdle DEF Inv, Alone, Funds

LEMMA StepAlone ==
    ASSUME Inv, Alone, Step, OneAtATime'
    PROVE  Alone'
<1> USE WithdrawalsAssumption
<1>1. ASSUME NEW a \in Amounts, TopUp(a)
      PROVE  Alone'
    <2>1. a \in Nat /\ balance \in Int
        BY DEF Inv, TypeOK
    <2>2. balance' >= balance /\ \A r \in Requests : ask[r].amount \in Nat
        BY <1>1, <2>1 DEF TopUp, Inv, TypeOK
    <2>3. Funds'
        BY <1>1, <2>1, <2>2 DEF TopUp, Alone, Funds
    <2>4. QED
        BY <1>1, <2>3 DEF TopUp, Alone, Current, Refunded
<1>2. ASSUME NEW r \in Requests, DebitCheck(r)
      PROVE  Alone'
    <2>1. CASE Covers(ask[r].amount)
        <3>1. Funds'
            BY <1>2, <2>1 DEF DebitCheck, Covers, Inv, TypeOK, Alone, Funds, db
        <3>2. Current' /\ Refunded'
            BY <1>2, <2>1 DEF DebitCheck, Inv, TypeOK, Alone, Current, Refunded, db
        <3>3. QED
            BY <3>1, <3>2 DEF Alone
    <2>2. CASE ~Covers(ask[r].amount)
        BY <1>2, <2>2, QuietAfter, AloneIdle DEF DebitCheck, Inv, Alone, Funds, Refunded, db
    <2>3. QED
        BY <2>1, <2>2
<1>3. ASSUME NEW r \in Requests, CommitWithdrawal(r)
      PROVE  Alone'
    <2>1. balance' >= 0
        <3>1. ask[r].amount \in Nat /\ balance \in Int
            BY DEF Inv, TypeOK
        <3>2. QED
            BY <1>3, <3>1 DEF CommitWithdrawal, Alone, Funds
    <2>2. Refunded'
        BY <1>3, CommitOK DEF CommitWithdrawal, Alone, Refunded
    <2>3. QED
        BY <1>3, <2>1, <2>2, QuietAfter, AloneIdle DEF CommitWithdrawal, Inv
<1>4. ASSUME NEW r \in Requests, AdminProcess(r)
      PROVE  Alone'
    BY <1>4, MovesAlone DEF AdminProcess, Alone, Current, Statuses
<1>5. ASSUME NEW r \in Requests, AdminComplete(r)
      PROVE  Alone'
    BY <1>5, MovesAlone DEF AdminComplete, Alone, Current, Statuses
<1>6. ASSUME NEW r \in Requests, AdminFail(r)
      PROVE  Alone'
    <2>1. ask[r].id \in Withdrawals /\ ask[r].amount \in Nat /\ balance \in Int
        BY <1>6 DEF AdminFail, Inv, Named, TypeOK
    <2>2. balance' >= 0
        BY <1>6, <2>1 DEF AdminFail, Alone, Funds
    <2>3. /\ withdrawals'[ask[r].id].status = "FAILED"
          /\ \A v \in Withdrawals \ {ask[r].id} : withdrawals'[v] = withdrawals[v]
        BY <1>6, <2>1, SetStatusOK DEF AdminFail, Inv, Statuses
    <2>4. \A v \in Withdrawals \ {ask[r].id} : refunds'[v] = refunds[v]
        BY <1>6, <2>1 DEF AdminFail, Inv, TypeOK
    <2>5. Refunded'
        BY <2>3, <2>4 DEF Alone, Refunded
    <2>6. QED
        BY <1>6, <2>2, <2>5, QuietAfter, AloneIdle DEF AdminFail, Inv
<1>7. ASSUME NEW r \in Requests, Abort(r)
      PROVE  Alone'
    BY <1>7, QuietAfter, AloneIdle DEF Abort, Inv, Alone, Funds, Refunded, db
<1>8. ASSUME NEW r \in Requests, NEW w \in Withdrawals, NEW a \in Amounts, RequestWithdrawal(r, w, a)
      PROVE  Alone'
    BY <1>8 DEF RequestWithdrawal, Inv, TypeOK, Alone, Funds, Current, Refunded, db
<1>9. ASSUME NEW r \in Requests, NEW w \in Withdrawals, NEW call \in {"process", "complete", "fail"},
             RequireWithdrawal(r, w, call)
      PROVE  Alone'
    <2>1. Funds' /\ Refunded'
        BY <1>9 DEF RequireWithdrawal, Inv, TypeOK, Alone, Funds, Refunded, db
    <2>2. /\ call = "process" => withdrawals[w].status = "REQUESTED"
          /\ call = "complete" => withdrawals[w].status = "PROCESSING"
        BY <1>9 DEF RequireWithdrawal, Admits
    <2>3. Current'
        <3>1. withdrawals' = withdrawals /\ pc'[r] = call /\ ask'[r].id = w
            BY <1>9 DEF RequireWithdrawal, Inv, TypeOK, db
        <3>2. \A q \in Requests \ {r} : pc'[q] = pc[q] /\ ask'[q] = ask[q]
            BY <1>9 DEF RequireWithdrawal, Inv, TypeOK
        <3>3. QED
            BY <2>2, <3>1, <3>2 DEF Alone, Current
    <2>4. QED
        BY <2>1, <2>3 DEF Alone
<1>10. QED
    BY <1>1, <1>2, <1>3, <1>4, <1>5, <1>6, <1>7, <1>8, <1>9 DEF Step

Serial == Inv /\ (~overlapped => Alone)

LEMMA InitSerial == Init => Serial
<1> SUFFICES ASSUME Init PROVE Alone
    BY InitInv DEF Serial
<1>1. OneAtATime /\ Funds /\ Current
    BY DEF Init, OneAtATime, Funds, Current
<1>2. Refunded
    BY DEF Init, Refunded
<1>3. QED
    BY <1>1, <1>2 DEF Alone

LEMMA NextSerial == Serial /\ [Next]_<<vars, overlapped>> => Serial'
<1> SUFFICES ASSUME Serial, [Next]_<<vars, overlapped>>, ~overlapped' PROVE Alone'
    BY NextInv DEF Serial
<1>1. CASE Next
    <2>1. ~overlapped /\ OneAtATime' /\ Step
        BY <1>1 DEF Next, Watch
    <2>2. QED
        BY <2>1, StepAlone DEF Serial
<1>2. CASE UNCHANGED <<vars, overlapped>>
    BY <1>2 DEF vars, Serial, Alone, OneAtATime, Funds, Current, Refunded
<1>3. QED
    BY <1>1, <1>2

(* requestWithdrawal and debit: until two requests overlap, the balance is     *)
(* never overdrawn.                                                            *)
THEOREM BalanceCovers == Spec => []NeverOverdrawn
<1>1. Serial => NeverOverdrawn
    BY DEF Serial, Alone, Funds, NeverOverdrawn
<1>2. QED
    BY <1>1, InitSerial, NextSerial, PTL DEF Spec

(* The operators' calls: until two requests overlap, what has been refunded is *)
(* FAILED and stays so, and is never processed or paid.                        *)
THEOREM RefundsAreFinal == Spec => []RefundedStaysFailed
<1>1. Serial => RefundedStaysFailed
    BY DEF Serial, Alone, Refunded, RefundedStaysFailed
<1>2. QED
    BY <1>1, InitSerial, NextSerial, PTL DEF Spec
-----------------------------------------------------------------------------
(* The sums of the wallet *)

Reserved == [w \in Withdrawals |-> withdrawals[w].amount]
Returned == [w \in Withdrawals |-> refunds[w] * withdrawals[w].amount]

(* A name not drawn yet has neither an amount nor refunds; and the amount an   *)
(* operator's call has read is the withdrawal's, which never changes.          *)
Rows ==
    /\ \A w \in Withdrawals :
          withdrawals[w].status = "NONE" => withdrawals[w].amount = 0 /\ refunds[w] = 0
    /\ \A r \in Requests :
          pc[r] \in {"process", "complete", "fail"} =>
              /\ withdrawals[ask[r].id].status # "NONE"
              /\ ask[r].amount = withdrawals[ask[r].id].amount

Booked == Inv /\ Rows /\ FundsReserved

LEMMA FundsAreSums ==
    /\ FundsReserved <=>
          balance + SumFunctionOnSet(Reserved, Withdrawals) = topUps + SumFunctionOnSet(Returned, Withdrawals)
    /\ FundsReserved' <=>
          balance' + SumFunctionOnSet(Reserved', Withdrawals) = topUps' + SumFunctionOnSet(Returned', Withdrawals)
BY DEF FundsReserved, SumFunction, Reserved, Returned

LEMMA TermsOK ==
    ASSUME TypeOK
    PROVE  \A w \in Withdrawals :
              /\ withdrawals[w].amount \in Nat /\ refunds[w] \in Nat
              /\ Reserved[w] = withdrawals[w].amount /\ Reserved[w] \in Int
              /\ Returned[w] = refunds[w] * withdrawals[w].amount /\ Returned[w] \in Int
BY DEF TypeOK, Row, Reserved, Returned

LEMMA TermsOKNext ==
    ASSUME TypeOK'
    PROVE  \A w \in Withdrawals :
              /\ withdrawals'[w].amount \in Nat /\ refunds'[w] \in Nat
              /\ Reserved'[w] = withdrawals'[w].amount /\ Reserved'[w] \in Int
              /\ Returned'[w] = refunds'[w] * withdrawals'[w].amount /\ Returned'[w] \in Int
BY DEF TypeOK, Row, Reserved, Returned

LEMMA SumsOK ==
    ASSUME TypeOK
    PROVE  /\ SumFunctionOnSet(Reserved, Withdrawals) \in Int
           /\ SumFunctionOnSet(Returned, Withdrawals) \in Int
BY TermsOK, SumType, WithdrawalsAssumption

(* What the sums become when one withdrawal changes, or none.                  *)
LEMMA SumsChange ==
    ASSUME TypeOK, TypeOK', NEW w \in Withdrawals,
           \A v \in Withdrawals \ {w} :
               withdrawals'[v].amount = withdrawals[v].amount /\ refunds'[v] = refunds[v]
    PROVE  /\ SumFunctionOnSet(Reserved', Withdrawals)
                = SumFunctionOnSet(Reserved, Withdrawals) + withdrawals'[w].amount - withdrawals[w].amount
           /\ SumFunctionOnSet(Returned', Withdrawals)
                = SumFunctionOnSet(Returned, Withdrawals)
                    + refunds'[w] * withdrawals'[w].amount - refunds[w] * withdrawals[w].amount
<1>1. \A v \in Withdrawals : /\ Reserved[v] \in Int /\ Reserved'[v] \in Int
                             /\ Returned[v] \in Int /\ Returned'[v] \in Int
    BY TermsOK, TermsOKNext
<1>2. \A v \in Withdrawals \ {w} : Reserved[v] = Reserved'[v] /\ Returned[v] = Returned'[v]
    BY TermsOK, TermsOKNext
<1>3. /\ SumFunctionOnSet(Reserved', Withdrawals)
            = SumFunctionOnSet(Reserved, Withdrawals) + Reserved'[w] - Reserved[w]
      /\ SumFunctionOnSet(Returned', Withdrawals)
            = SumFunctionOnSet(Returned, Withdrawals) + Returned'[w] - Returned[w]
    BY <1>1, <1>2, SumChange, WithdrawalsAssumption
<1>4. QED
    BY <1>3, TermsOK, TermsOKNext

LEMMA SumsStay ==
    ASSUME TypeOK, TypeOK',
           \A v \in Withdrawals :
               withdrawals'[v].amount = withdrawals[v].amount /\ refunds'[v] = refunds[v]
    PROVE  /\ SumFunctionOnSet(Reserved', Withdrawals) = SumFunctionOnSet(Reserved, Withdrawals)
           /\ SumFunctionOnSet(Returned', Withdrawals) = SumFunctionOnSet(Returned, Withdrawals)
<1>1. \A v \in Withdrawals : Reserved[v] = Reserved'[v] /\ Returned[v] = Returned'[v]
    BY TermsOK, TermsOKNext
<1>2. QED
    BY <1>1, SumSame, WithdrawalsAssumption
LEMMA InitBooked == Init => Booked
<1> SUFFICES ASSUME Init PROVE Rows /\ FundsReserved
    BY InitInv DEF Booked
<1>1. \A w \in Withdrawals :
         withdrawals[w].status = "NONE" /\ withdrawals[w].amount = 0 /\ refunds[w] = 0
    BY DEF Init
<1>2. Rows
    BY <1>1 DEF Init, Rows
<1>3. \A w \in Withdrawals : Reserved[w] = 0 /\ Returned[w] = 0
    BY <1>1 DEF Reserved, Returned
<1>4. SumFunctionOnSet(Reserved, Withdrawals) = 0 /\ SumFunctionOnSet(Returned, Withdrawals) = 0
    BY <1>3, SumZero, WithdrawalsAssumption
<1>5. QED
    BY <1>2, <1>4, FundsAreSums DEF Init

(* No amount, refund or balance changes, and no row appears or goes.           *)
LEMMA BooksStay ==
    ASSUME Inv, Inv', Rows, FundsReserved, UNCHANGED <<balance, topUps, refunds>>,
           \A w \in Withdrawals :
               /\ withdrawals'[w].amount = withdrawals[w].amount
               /\ withdrawals'[w].status = "NONE" <=> withdrawals[w].status = "NONE",
           \A r \in Requests :
               pc'[r] \in {"process", "complete", "fail"} =>
                   /\ withdrawals[ask'[r].id].status # "NONE"
                   /\ ask'[r].amount = withdrawals[ask'[r].id].amount
    PROVE  Rows' /\ FundsReserved'
<1>1. \A w \in Withdrawals : refunds'[w] = refunds[w]
    OBVIOUS
<1>2. FundsReserved'
    BY <1>1, SumsStay, FundsAreSums DEF Inv
<1>3. \A r \in Requests : pc'[r] \in {"process", "complete", "fail"} => ask'[r].id \in Withdrawals
    BY DEF Inv, Named
<1>4. Rows'
    BY <1>1, <1>3 DEF Rows
<1>5. QED
    BY <1>2, <1>4

LEMMA FinishRows ==
    ASSUME Inv, Rows, NEW r \in Requests, Finish(r)
    PROVE  \A q \in Requests :
              pc'[q] \in {"process", "complete", "fail"} =>
                  /\ q # r /\ pc[q] = pc'[q] /\ ask'[q] = ask[q] /\ ask[q].id \in Withdrawals
                  /\ withdrawals[ask[q].id].status # "NONE"
                  /\ ask[q].amount = withdrawals[ask[q].id].amount
BY FinishOK DEF Inv, Rows, Named

LEMMA StatusBooks ==
    ASSUME Inv, Inv', Rows, FundsReserved, NEW r \in Requests, NEW status \in Statuses \ {"NONE"},
           pc[r] \in {"process", "complete"},
           SetStatus(ask[r].id, status), Finish(r), UNCHANGED <<balance, topUps, refunds>>
    PROVE  Rows' /\ FundsReserved'
<1>1. ask[r].id \in Withdrawals /\ withdrawals[ask[r].id].status # "NONE"
    BY DEF Inv, Named, Rows
<1>2. withdrawals'[ask[r].id].amount = withdrawals[ask[r].id].amount
    BY <1>1 DEF SetStatus, Inv, TypeOK, Row
<1>3. \A w \in Withdrawals :
         /\ withdrawals'[w].amount = withdrawals[w].amount
         /\ withdrawals'[w].status = "NONE" <=> withdrawals[w].status = "NONE"
    BY <1>1, <1>2, SetStatusOK DEF Inv
<1>4. QED
    BY <1>3, FinishRows, BooksStay

LEMMA StepBooks ==
    ASSUME Inv, Inv', Rows, FundsReserved, Step
    PROVE  Rows' /\ FundsReserved'
<1> USE WithdrawalsAssumption
<1>1. ASSUME NEW a \in Amounts, TopUp(a)
      PROVE  Rows' /\ FundsReserved'
    <2>1. Rows'
        BY <1>1 DEF TopUp, Rows
    <2>2. balance' = balance + a /\ topUps' = topUps + a /\ a \in Int
        BY <1>1 DEF TopUp
    <2>3. balance \in Int /\ topUps \in Int
        BY DEF Inv, TypeOK
    <2>4. /\ SumFunctionOnSet(Reserved', Withdrawals) = SumFunctionOnSet(Reserved, Withdrawals)
          /\ SumFunctionOnSet(Returned', Withdrawals) = SumFunctionOnSet(Returned, Withdrawals)
        BY <1>1, SumsStay DEF TopUp, Inv
    <2>5. QED
        BY <2>1, <2>2, <2>3, <2>4, FundsAreSums, SumsOK DEF Inv
<1>2. ASSUME NEW r \in Requests, DebitCheck(r)
      PROVE  Rows' /\ FundsReserved'
    <2>1. CASE Covers(ask[r].amount)
        BY <1>2, <2>1, BooksStay DEF DebitCheck, db, Inv, TypeOK, Rows
    <2>2. CASE ~Covers(ask[r].amount)
        BY <1>2, <2>2, FinishRows, BooksStay DEF DebitCheck, db
    <2>3. QED
        BY <2>1, <2>2
<1>3. ASSUME NEW r \in Requests, CommitWithdrawal(r)
      PROVE  Rows' /\ FundsReserved'
    <2> DEFINE w == ask[r].id
               a == ask[r].amount
    <2>1. w \in Withdrawals /\ a \in Nat /\ withdrawals \in [Withdrawals -> Row]
        BY <1>3 DEF CommitWithdrawal, Inv, TypeOK, Named
    <2>2. withdrawals[w].amount = 0 /\ refunds[w] = 0
        BY <1>3, <2>1 DEF CommitWithdrawal, Rows
    <2>3. /\ withdrawals'[w].amount = a /\ withdrawals'[w].status = "REQUESTED" /\ refunds' = refunds
          /\ topUps' = topUps /\ balance' = balance - a
          /\ \A v \in Withdrawals \ {w} : withdrawals'[v] = withdrawals[v]
        BY <1>3, <2>1 DEF CommitWithdrawal
    <2>4. /\ SumFunctionOnSet(Reserved', Withdrawals)
                = SumFunctionOnSet(Reserved, Withdrawals) + withdrawals'[w].amount - withdrawals[w].amount
          /\ SumFunctionOnSet(Returned', Withdrawals)
                = SumFunctionOnSet(Returned, Withdrawals)
                    + refunds'[w] * withdrawals'[w].amount - refunds[w] * withdrawals[w].amount
        BY <2>1, <2>3, SumsChange DEF Inv
    <2>5. refunds'[w] * withdrawals'[w].amount = 0 /\ refunds[w] * withdrawals[w].amount = 0
        BY <2>1, <2>2, <2>3
    <2>6. FundsReserved'
        <3>1. balance \in Int /\ topUps \in Int
            BY DEF Inv, TypeOK
        <3> HIDE DEF w, a
        <3>2. QED
            BY <2>1, <2>2, <2>3, <2>4, <2>5, <3>1, FundsAreSums, SumsOK DEF Inv
    <2>7. Rows'
        <3>1. \A v \in Withdrawals :
                 withdrawals'[v].status = "NONE" => withdrawals'[v].amount = 0 /\ refunds'[v] = 0
            BY <2>3 DEF Rows
        <3>2. \A q \in Requests :
                 pc'[q] \in {"process", "complete", "fail"} => ask[q].id # w /\ ask'[q] = ask[q]
            BY <1>3, FinishRows DEF CommitWithdrawal
        <3>3. QED
            BY <1>3, <2>3, <3>1, <3>2, FinishRows DEF CommitWithdrawal, Rows
    <2>8. QED
        BY <2>6, <2>7
<1>4. ASSUME NEW r \in Requests, AdminProcess(r)
      PROVE  Rows' /\ FundsReserved'
    BY <1>4, StatusBooks DEF AdminProcess, Statuses
<1>5. ASSUME NEW r \in Requests, AdminComplete(r)
      PROVE  Rows' /\ FundsReserved'
    BY <1>5, StatusBooks DEF AdminComplete, Statuses
<1>6. ASSUME NEW r \in Requests, AdminFail(r)
      PROVE  Rows' /\ FundsReserved'
    <2> DEFINE w == ask[r].id
               a == ask[r].amount
    <2>1. /\ w \in Withdrawals /\ a \in Nat /\ refunds[w] \in Nat
          /\ withdrawals[w].amount = a /\ withdrawals[w].status # "NONE"
        BY <1>6 DEF AdminFail, Inv, TypeOK, Named, Rows
    <2>2. /\ withdrawals'[w].status = "FAILED"
          /\ \A v \in Withdrawals \ {w} : withdrawals'[v] = withdrawals[v]
        BY <1>6, <2>1, SetStatusOK DEF AdminFail, Inv, Statuses
    <2>3. withdrawals'[w].amount = a
        BY <1>6, <2>1 DEF AdminFail, SetStatus, Inv, TypeOK, Row
    <2>4. /\ refunds'[w] = refunds[w] + 1 /\ balance' = balance + a /\ topUps' = topUps
          /\ \A v \in Withdrawals \ {w} : refunds'[v] = refunds[v]
        BY <1>6, <2>1 DEF AdminFail, Inv, TypeOK
    <2>5. /\ SumFunctionOnSet(Reserved', Withdrawals)
                = SumFunctionOnSet(Reserved, Withdrawals) + withdrawals'[w].amount - withdrawals[w].amount
          /\ SumFunctionOnSet(Returned', Withdrawals)
                = SumFunctionOnSet(Returned, Withdrawals)
                    + refunds'[w] * withdrawals'[w].amount - refunds[w] * withdrawals[w].amount
        BY <2>1, <2>2, <2>4, SumsChange DEF Inv
    <2> DEFINE k == refunds[w] * withdrawals[w].amount
    <2>6. k \in Int /\ refunds'[w] * withdrawals'[w].amount = k + a
        BY <2>1, <2>3, <2>4
    <2>7. FundsReserved'
        <3>1. balance \in Int /\ topUps \in Int
            BY DEF Inv, TypeOK
        <3> HIDE DEF w, a, k
        <3>2. /\ SumFunctionOnSet(Reserved', Withdrawals) = SumFunctionOnSet(Reserved, Withdrawals)
              /\ SumFunctionOnSet(Returned', Withdrawals) = SumFunctionOnSet(Returned, Withdrawals) + a
            <4>1. SumFunctionOnSet(Returned', Withdrawals)
                    = SumFunctionOnSet(Returned, Withdrawals) + (k + a) - k
                BY <2>5, <2>6 DEF k
            <4>2. QED
                BY <2>1, <2>3, <2>5, <2>6, <4>1, SumsOK DEF Inv
        <3>3. QED
            BY <2>1, <2>4, <3>1, <3>2, FundsAreSums, SumsOK DEF Inv
    <2>8. Rows'
        BY <1>6, <2>1, <2>2, <2>3, <2>4, FinishRows DEF AdminFail, Rows
    <2>9. QED
        BY <2>7, <2>8
<1>7. ASSUME NEW r \in Requests, Abort(r)
      PROVE  Rows' /\ FundsReserved'
    BY <1>7, FinishRows, BooksStay DEF Abort, db
<1>8. ASSUME NEW r \in Requests, NEW w \in Withdrawals, NEW a \in Amounts, RequestWithdrawal(r, w, a)
      PROVE  Rows' /\ FundsReserved'
    BY <1>8, BooksStay DEF RequestWithdrawal, db, Inv, TypeOK, Rows
<1>9. ASSUME NEW r \in Requests, NEW w \in Withdrawals, NEW call \in {"process", "complete", "fail"},
             RequireWithdrawal(r, w, call)
      PROVE  Rows' /\ FundsReserved'
    <2>1. withdrawals[w].status # "NONE"
        BY <1>9 DEF RequireWithdrawal, Admits
    <2>2. \A q \in Requests :
             pc'[q] \in {"process", "complete", "fail"} =>
                 /\ withdrawals[ask'[q].id].status # "NONE"
                 /\ ask'[q].amount = withdrawals[ask'[q].id].amount
        BY <1>9, <2>1 DEF RequireWithdrawal, Inv, TypeOK, Rows
    <2>3. QED
        BY <1>9, <2>2, BooksStay DEF RequireWithdrawal, db
<1>10. QED
    BY <1>1, <1>2, <1>3, <1>4, <1>5, <1>6, <1>7, <1>8, <1>9 DEF Step

LEMMA NextBooked == Booked /\ [Next]_<<vars, overlapped>> => Booked'
<1> SUFFICES ASSUME Booked, [Next]_<<vars, overlapped>> PROVE Rows' /\ FundsReserved'
    BY NextInv DEF Booked
<1>1. CASE Next
    BY <1>1, NextInv, StepBooks DEF Next, Booked
<1>2. CASE UNCHANGED <<vars, overlapped>>
    BY <1>2, NextInv, BooksStay DEF vars, Booked, Rows
<1>3. QED
    BY <1>1, <1>2

(* debit and credit, each in one transaction with the row it belongs to: in     *)
(* every interleaving, and wherever a request dies, the rupees ever added or     *)
(* given back are those in the balance and in the withdrawals, for any number    *)
(* of them.                                                                     *)
THEOREM FundsAreReserved == Spec => []FundsReserved
<1>1. Booked => FundsReserved
    BY DEF Booked
<1>2. QED
    BY <1>1, InitBooked, NextBooked, PTL DEF Spec
-----------------------------------------------------------------------------
(* The books of one part: a behaviour of the ledgers is one of each component *)

allVars == <<part, walletVars, earningsVars, planVars, adVars>>

Of(p) == part = p

(* Payouts' rows, read through the ledgers that keep them: no interleaving of   *)
(* the kitchen's requests and of the operators' calls, failed or repeated,     *)
(* pays more than the net earnings until two requests overlap.                 *)
THEOREM KitchensStayWithinEarnings == LedgersSpec => []WithinEarnings
<1>1. LedgersInit => Earnings!Init
    BY DEF LedgersInit
<1>2. [LedgersNext]_allVars => [Earnings!Next]_<<Earnings!vars, payoutsOverlapped>>
    BY DEF LedgersNext, allVars, earningsVars, Earnings!vars
<1>3. LedgersSpec => Earnings!Spec
    BY <1>1, <1>2, PTL DEF LedgersSpec, allVars, Earnings!Spec
<1>4. Earnings!Spec => []Earnings!WithinEarnings
    BY LedgersAssumption, Earnings!PayoutsStayWithinEarnings
<1>5. QED
    BY <1>3, <1>4, PTL DEF WithinEarnings

LEMMA PlansRun == LedgersSpec => Plans!Spec
<1>1. LedgersInit => Plans!Init
    BY DEF LedgersInit
<1>2. [LedgersNext]_allVars => [Plans!Next]_<<Plans!vars, plansOverlapped>>
    BY DEF LedgersNext, allVars, planVars, Plans!vars
<1>3. QED
    BY <1>1, <1>2, PTL DEF LedgersSpec, allVars, Plans!Spec

(* Premium's wallet row accounts for every purchase and renewal, and until two   *)
(* requests overlap a period is renewed once.                                  *)
THEOREM KitchensPayTheirPlans == LedgersSpec => []PlansArePaid
<1>1. LedgersSpec => Plans!Spec
    BY PlansRun
<1>2. Plans!Spec => []Plans!PlansArePaid
    BY LedgersAssumption, Plans!PeriodsArePaid
<1>3. QED
    BY <1>1, <1>2, PTL DEF PlansArePaid

(* No renewal, expiry or purchase of Premium takes a plan away before the period *)
(* it paid is over, until two requests overlap.                                *)
THEOREM KitchensKeepPaidPeriods == LedgersSpec => []PaidPeriodHonoured
<1>1. LedgersSpec => Plans!Spec
    BY PlansRun
<1>2. Plans!Spec => []Plans!PaidPeriodHonoured
    BY LedgersAssumption, Plans!PaidPeriodsAreKept
<1>3. QED
    BY <1>1, <1>2, PTL DEF PaidPeriodHonoured

(* Promotions without pauses: what was charged covers what is and may still be   *)
(* spent, until two requests overlap or midnight overtakes one, and a            *)
(* suggestion is charged once, until two overlap.                              *)
THEOREM KitchensAreChargedEnough == LedgersSpec => []ChargesCoverSpend
<1>1. Of("charges") /\ LedgersInit => Charges!Init
    BY DEF LedgersInit, Of
<1>2. Of("charges") /\ [LedgersNext]_allVars
      => Of("charges")' /\ [Charges!Next]_Charges!watched
    BY DEF LedgersNext, allVars, adVars, Of, Charges!watched, Charges!vars
<1>3. ~ Of("charges") /\ [LedgersNext]_allVars => ~ Of("charges")'
    BY DEF LedgersNext, allVars, Of
<1>4. Charges!Spec => []Charges!ChargesCoverSpend
    BY LedgersAssumption, Charges!ChargesAreEnough
<1>5. Charges!ChargesCoverSpend => ChargesCoverSpend
    BY DEF ChargesCoverSpend, Of
<1>6. ~ Of("charges") => ChargesCoverSpend
    BY DEF ChargesCoverSpend, Of
<1>7. QED
    BY <1>1, <1>2, <1>3, <1>4, <1>5, <1>6, PTL DEF LedgersSpec, allVars, Charges!Spec

(* Promotions without suggestions: every day a campaign is live is billed once,  *)
(* through all its pauses and resumes, until two requests overlap or midnight    *)
(* overtakes one.                                                              *)
THEOREM KitchensPayEachLiveDayOnce == LedgersSpec => []SpendIsLiveDays
<1>1. Of("pauses") /\ LedgersInit => Pauses!Init
    BY DEF LedgersInit, Of
<1>2. Of("pauses") /\ [LedgersNext]_allVars
      => Of("pauses")' /\ [Pauses!Next]_Pauses!watched
    BY DEF LedgersNext, allVars, adVars, Of, Pauses!watched, Pauses!vars
<1>3. ~ Of("pauses") /\ [LedgersNext]_allVars => ~ Of("pauses")'
    BY DEF LedgersNext, allVars, Of
<1>4. Pauses!Spec => []Pauses!SpendIsLiveDays
    BY LedgersAssumption, Pauses!LiveDaysAreBilledOnce
<1>5. Pauses!SpendIsLiveDays => SpendIsLiveDays
    BY DEF SpendIsLiveDays, Of
<1>6. ~ Of("pauses") => SpendIsLiveDays
    BY DEF SpendIsLiveDays, Of
<1>7. QED
    BY <1>1, <1>2, <1>3, <1>4, <1>5, <1>6, PTL DEF LedgersSpec, allVars, Pauses!Spec

(* "End a campaign for good": in every part a stopped campaign stays stopped,    *)
(* until two requests overlap.                                                 *)
THEOREM KitchensEndForGood == LedgersSpec => EndedForGood
<1>1. Of("charges") /\ LedgersInit => Charges!Init
    BY DEF LedgersInit, Of
<1>2. Of("charges") /\ [LedgersNext]_allVars => Of("charges")' /\ [Charges!Next]_Charges!watched
    BY DEF LedgersNext, allVars, adVars, Of, Charges!watched, Charges!vars
<1>3. Of("pauses") /\ LedgersInit => Pauses!Init
    BY DEF LedgersInit, Of
<1>4. Of("pauses") /\ [LedgersNext]_allVars => Of("pauses")' /\ [Pauses!Next]_Pauses!watched
    BY DEF LedgersNext, allVars, adVars, Of, Pauses!watched, Pauses!vars
<1>5. ~ Of("charges") /\ ~ Of("pauses") /\ [LedgersNext]_allVars
      => ~ Of("charges")' /\ ~ Of("pauses")' /\ [Pauses!StopIsFinal]_adVars
    BY DEF LedgersNext, allVars, adVars, Of
<1>6. Charges!Spec => [][Charges!StopIsFinal]_Charges!watched
    BY LedgersAssumption, Charges!StoppedStaysStopped DEF Charges!EndedForGood
<1>7. Pauses!Spec => [][Pauses!StopIsFinal]_Pauses!watched
    BY LedgersAssumption, Pauses!StoppedStaysStopped DEF Pauses!EndedForGood
<1>8. [Charges!StopIsFinal]_Charges!watched => [Pauses!StopIsFinal]_adVars
    BY DEF Charges!StopIsFinal, Pauses!StopIsFinal, Charges!watched, Charges!vars, adVars
<1>9. [Pauses!StopIsFinal]_Pauses!watched => [Pauses!StopIsFinal]_adVars
    BY DEF Pauses!StopIsFinal, Pauses!watched, Pauses!vars, adVars
<1>10. QED
    BY <1>1, <1>2, <1>3, <1>4, <1>5, <1>6, <1>7, <1>8, <1>9, PTL
    DEF LedgersSpec, allVars, Charges!Spec, Pauses!Spec, EndedForGood

=============================================================================
