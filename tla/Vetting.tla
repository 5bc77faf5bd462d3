------------------------------- MODULE Vetting -------------------------------
(***************************************************************************)
(* How a kitchen gets listed: the partner's funnel (onboarding.service.ts), *)
(* its dishes as far as the funnel counts them (kitchen-menu.service.ts),   *)
(* the operators' review (kitchen-admin.service.ts), the licence they file  *)
(* for a partner (fssai-assistance.service.ts), and the deletion of the     *)
(* account (kitchen-auth.service.ts).  One partner.                         *)
(***************************************************************************)
EXTENDS Handlers, Naturals, Sequences, FiniteSetsExt, SequencesExt

CONSTANTS
    Decidable,       \* account statuses the operators look at, by default the review queue
    AssistDocuments, \* FssaiAssistanceDocumentType
    MaxAssist        \* bound: assistance requests ever made

VARIABLES
    given,     \* what the partner has provided
    account,   \* KitchenAccount: status, and the furthest onboardingStep
    kitchen,   \* Kitchen.status, NONE before the row exists
    assist     \* FssaiAssistanceRequest, oldest first

vettingVars == <<given, account, kitchen, assist>>

Photos == {"KITCHEN_PHOTO_FRONT", "KITCHEN_PHOTO_MAIN"}
Required == {"owner", "kitchen", "location", "bank", "dish"} \cup Photos

(* The funnel's position each thing leads to.  *)
StepOf == [owner |-> 1, kitchen |-> 2, location |-> 3, FSSAI |-> 4,
           KITCHEN_PHOTO_FRONT |-> 4, KITCHEN_PHOTO_MAIN |-> 4, bank |-> 5, dish |-> 6]
Submitted == 7
Completed == 8

VettingInit ==
    /\ given = {}
    /\ account = [status |-> "ONBOARDING", step |-> 0]
    /\ kitchen = "NONE"
    /\ assist = <<>>

-----------------------------------------------------------------------------
(* The funnel *)

Later(r, thing) == Goto(r, [at |-> "readStep", to |-> StepOf[thing]])

(* Saved by an upsert, or on the kitchen's row once there is one.  *)
Save(r, thing) ==
    /\ thing \notin {"location", "dish"} \/ kitchen # "NONE"
    /\ Begin(r, "save", [at |-> IF thing \in {"FSSAI"} \cup Photos THEN "documents" ELSE "readStep",
                         to |-> StepOf[thing]])
    /\ given' = given \cup {thing}
    /\ UNCHANGED <<account, kitchen, assist>>

(* The last dish is deleted; the funnel stays where it is.  *)
RemoveDish ==
    /\ Instant("removeDish")
    /\ given' = given \ {"dish"}
    /\ UNCHANGED <<account, kitchen, assist>>

SaveKitchenDetails(r) ==
    /\ Begin(r, "save", [at |-> "kitchen", found |-> kitchen # "NONE"])
    /\ UNCHANGED vettingVars

(* Updated if it was found, and else created; accountId is unique.  *)
WriteKitchen(r) ==
    /\ At(r, "kitchen")
    /\ IF kitchen # "NONE" /\ ~req[r].found
       THEN End(r) /\ UNCHANGED <<given, kitchen>>
       ELSE /\ kitchen' = IF kitchen = "NONE" THEN "PENDING" ELSE kitchen
            /\ given' = given \cup {"kitchen"}
            /\ Later(r, "kitchen")
    /\ UNCHANGED <<account, assist>>

(* Documents move the funnel once the last of them is in.  *)
CountDocuments(r) ==
    /\ At(r, "documents")
    /\ IF {"FSSAI"} \cup Photos \subseteq given THEN Continue(r, "readStep") ELSE End(r)
    /\ UNCHANGED vettingVars

(* Faulty: the position is set to wherever the partner has been last. *)
ReadNothing(r) ==
    /\ At(r, "readStep")
    /\ Continue(r, "writeStep")
    /\ UNCHANGED vettingVars

(* setStep reads the position and, later, moves it forward from there.  *)
ReadStep(r) ==
    /\ At(r, "readStep")
    /\ IF req[r].to > account.step THEN Continue(r, "writeStep") ELSE End(r)
    /\ UNCHANGED vettingVars

WriteStep(r) ==
    /\ At(r, "writeStep")
    /\ account' = [account EXCEPT !.step = req[r].to]
    /\ End(r)
    /\ UNCHANGED <<given, kitchen, assist>>

-----------------------------------------------------------------------------
(* Submitting, and the review *)

NonTerminal(status) == status \notin {"REJECTED", "CANCELLED"}
OpenRequests == {i \in DOMAIN assist : NonTerminal(assist[i].status)}

(* Faulty: whatever the partner has provided. *)
SubmitIncomplete(r) ==
    /\ account.status = "ONBOARDING" /\ kitchen # "NONE"
    /\ Begin(r, "submit", [at |-> "assistance", licensed |-> TRUE])
    /\ UNCHANGED vettingVars

(* getStatus reads the account with all that hangs on it, *)
Submit(r) ==
    /\ account.status = "ONBOARDING" /\ Required \subseteq given
    /\ Begin(r, "submit", [at |-> "assistance", licensed |-> "FSSAI" \in given])
    /\ UNCHANGED vettingVars

(* then whether a request for the licence is open, *)
ReadAssistance(r) ==
    /\ At(r, "assistance")
    /\ IF req[r].licensed \/ OpenRequests # {} THEN Continue(r, "submit") ELSE End(r)
    /\ UNCHANGED vettingVars

(* and the application is handed in on what was read.  *)
WriteSubmission(r) ==
    /\ At(r, "submit")
    /\ account' = [status |-> "UNDER_REVIEW", step |-> Submitted]
    /\ End(r)
    /\ UNCHANGED <<given, kitchen, assist>>

(* An operator sees the application in the queue, and decides some time later;  *)
(* neither decision looks at the account again.                                 *)
Review(r, decision) ==
    /\ account.status \in Decidable /\ kitchen # "NONE"
    /\ Begin(r, decision, [at |-> decision])
    /\ UNCHANGED vettingVars

Approve(r) ==
    /\ At(r, "approve")
    /\ account' = [status |-> "ACTIVE", step |-> Completed]
    /\ kitchen' = "ACTIVE"
    /\ End(r)
    /\ UNCHANGED <<given, assist>>

Reject(r) ==
    /\ At(r, "reject")
    /\ account' = [account EXCEPT !.status = "ONBOARDING"]
    /\ End(r)
    /\ UNCHANGED <<given, kitchen, assist>>

(* The partner deletes the account: papers and bank details go, and the kitchen  *)
(* is suspended, in one transaction.                                             *)
DeleteAccount ==
    /\ Instant("deletePartner") /\ account.status # "DELETED"
    /\ account' = [account EXCEPT !.status = "DELETED"]
    /\ given' = given \ ({"owner", "bank", "FSSAI"} \cup Photos)
    /\ kitchen' = IF kitchen = "NONE" THEN kitchen ELSE "SUSPENDED"
    /\ UNCHANGED assist

-----------------------------------------------------------------------------
(* The licence the operators file for the partner *)

StartAssistance(r) ==
    /\ OpenRequests = {} /\ Len(assist) < MaxAssist
    /\ Begin(r, "start", [at |-> "start"])
    /\ UNCHANGED vettingVars

CreateRequest(r) ==
    /\ At(r, "start") /\ Len(assist) < MaxAssist
    /\ assist' = Append(assist, [status |-> "PENDING_PAYMENT", documents |-> {}, paid |-> FALSE])
    /\ End(r)
    /\ UNCHANGED <<given, account, kitchen>>

Change(i, status) == assist' = [assist EXCEPT ![i].status = status]

(* The partner's calls are about the newest open request.  *)
Current == Max(OpenRequests)

UploadForLicence(d) ==
    /\ Instant("uploadForLicence") /\ OpenRequests # {}
    /\ assist' = [assist EXCEPT ![Current].documents = @ \cup {d}]
    /\ UNCHANGED <<given, account, kitchen>>

(* Faulty: a request can be cancelled while it is open. *)
PartnerMayAlways(i, step) == step = "pay" => assist[i].documents = AssistDocuments

PartnerMay(i, step) ==
    CASE step = "pay"     -> assist[i].documents = AssistDocuments
      [] step = "cancel"  -> assist[i].status = "PENDING_PAYMENT"

PartnerCalls(r, step) ==
    /\ OpenRequests # {} /\ PartnerMay(Current, step)
    /\ Begin(r, step, [at |-> step, request |-> Current])
    /\ UNCHANGED vettingVars

(* The fee is confirmed whatever the request has become.  *)
ConfirmAssistance(r) ==
    /\ At(r, "pay")
    /\ assist' = [assist EXCEPT ![req[r].request].status = "DOCUMENTS_SUBMITTED",
                                ![req[r].request].paid = TRUE]
    /\ End(r)
    /\ UNCHANGED <<given, account, kitchen>>

CancelRequest(r) ==
    /\ At(r, "cancel")
    /\ Change(req[r].request, "CANCELLED")
    /\ End(r)
    /\ UNCHANGED <<given, account, kitchen>>

(* ADVANCE_SEQUENCE; operators file, the helper of development takes the rest. *)
Advance == [DOCUMENTS_SUBMITTED |-> "APPLICATION_FILED",
            APPLICATION_FILED |-> "GOVT_REVIEW_IN_PROGRESS",
            GOVT_REVIEW_IN_PROGRESS |-> "APPROVED"]

InQueue(i) == assist[i].status \in DOMAIN Advance

(* An operator works on a request of the queue; filing looks at it once more.  *)
OperatorTakes(r, i) ==
    /\ InQueue(i)
    /\ \/ Begin(r, "advance", [at |-> "change", request |-> i, to |-> Advance[assist[i].status]])
       \/ \E verdict \in {"APPROVED", "REJECTED"} :
             Begin(r, "licence", [at |-> "change", request |-> i, to |-> verdict])
       \/ /\ assist[i].status = "DOCUMENTS_SUBMITTED"
          /\ Begin(r, "licence", [at |-> "change", request |-> i, to |-> "APPLICATION_FILED"])
    /\ UNCHANGED vettingVars

ChangeRequest(r) ==
    /\ At(r, "change")
    /\ Change(req[r].request, req[r].to)
    /\ End(r)
    /\ UNCHANGED <<given, account, kitchen>>

-----------------------------------------------------------------------------
VettingStep(r) ==
    \/ \E thing \in DOMAIN StepOf \ {"kitchen"} : Save(r, thing)
    \/ SaveKitchenDetails(r) \/ WriteKitchen(r) \/ CountDocuments(r) \/ ReadStep(r) \/ WriteStep(r)
    \/ Submit(r) \/ ReadAssistance(r) \/ WriteSubmission(r)
    \/ \E decision \in {"approve", "reject"} : Review(r, decision)
    \/ Approve(r) \/ Reject(r)
    \/ StartAssistance(r) \/ CreateRequest(r)
    \/ \E step \in {"pay", "cancel"} : PartnerCalls(r, step)
    \/ ConfirmAssistance(r) \/ CancelRequest(r)
    \/ \E i \in DOMAIN assist : OperatorTakes(r, i)
    \/ ChangeRequest(r)

VettingAlone == RemoveDish \/ DeleteAccount \/ \E d \in AssistDocuments : UploadForLicence(d)

VettingNext == VettingAlone \/ \E r \in Requests : VettingStep(r) \/ (Abort(r) /\ UNCHANGED vettingVars)

VettingSpec == HandlersInit /\ VettingInit /\ [][VettingNext]_<<vettingVars, handlerVars>>

(* "We cannot list a kitchen without them": a kitchen that customers can order   *)
(* from has its owner, place, photographs and bank account on file.  An operator *)
(* who approves from a screen that is out of date lists a deleted account again. *)
(* Account and kitchen go live, and out of business, together.                   *)
LiveIsComplete ==
    ~overlapped =>
        /\ kitchen = "ACTIVE" => Required \ {"dish"} \subseteq given
        /\ (kitchen = "ACTIVE") <=> (account.status = "ACTIVE")

(* "Steps only ever move forward": of an account that is not being deleted, as    *)
(* long as no two requests compare with the same position.                       *)
StepsOnlyForward == [][overlapped' \/ account'.step >= account.step]_vettingVars

(* "Once the fee is confirmed the application can no longer be withdrawn", and    *)
(* one request is open at a time.                                                *)
PaidIsNotCancelled ==
    ~overlapped =>
        /\ \A i \in DOMAIN assist : ~(assist[i].paid /\ assist[i].status = "CANCELLED")
        /\ Cardinality(OpenRequests) <= 1

(* "These cannot be skipped - we cannot list a kitchen without them": a kitchen   *)
(* that is live has a licence on file or one being applied for.                   *)
LiveIsLicensed == kitchen = "ACTIVE" => "FSSAI" \in given \/ OpenRequests # {}

=============================================================================
