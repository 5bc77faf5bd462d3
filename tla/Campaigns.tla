----------------------------- MODULE Campaigns -----------------------------
(***************************************************************************)
(* A kitchen's reel promotions, kitchen-ads.service.ts, and the suggestions *)
(* that may raise their budgets, ads-suggestions.service.ts.               *)
(*                                                                         *)
(* A campaign is prepaid and no job bills it: every read folds the days    *)
(* that have gone by into accruedSpendRs and moves accrualAnchor past      *)
(* them.  Handlers compute the new row from the copy they have read and    *)
(* from the date of that moment, and update it by id in a later step:      *)
(* midnight may come between the two.                                      *)
(***************************************************************************)
EXTENDS Integers, FiniteSets

CONSTANTS
    CampaignIds, Reels, SuggestionIds, Requests,
    Calls,            \* the endpoints the clients of an instance call
    MaxDay,           \* bound: the last calendar day
    Budgets,          \* daily budgets kitchens choose and suggestions propose
    Durations,        \* days campaigns are bought for
    MaxCharges        \* bound: times one suggestion is charged

AllCalls == {"create", "pause", "resume", "stop", "read", "generate", "apply", "dismiss"}

CampaignsAssumption ==
    /\ Calls \subseteq AllCalls
    /\ {MaxDay, MaxCharges} \subseteq Nat
    /\ Budgets \subseteq Nat \ {0}
    /\ Durations \subseteq Nat \ {0}
    /\ "none" \notin CampaignIds \cup SuggestionIds \cup Reels

VARIABLES
    campaigns,    \* reel_campaigns
    charged,      \* sum of the AD_BOOST ledger rows of each campaign
    suggestions,  \* campaign_suggestions
    live,         \* history: the days each campaign has been ACTIVE on
    charges,      \* history: how often each suggestion's budget was charged
    today,        \* getIstCalendarDate()
    pc,           \* where each request is
    job,          \* what each request has read
    overlapped,   \* history: two requests of the kitchen have overlapped
    crossed       \* history: midnight has come between a date and the write that rests on it

db == <<campaigns, charged, suggestions>>
history == <<live, charges>>
vars == <<campaigns, charged, suggestions, live, charges, today, pc, job>>

-----------------------------------------------------------------------------
NoCampaign == [status |-> "NONE", reel |-> "none", budget |-> 0, end |-> 0, anchor |-> 0, accrued |-> 0]

NoSuggestion == [status |-> "NONE", campaign |-> "none", budget |-> 0, batch |-> 0]

(* copy is the row a request has read, date the day it read it on, delta what   *)
(* it is about to charge.                                                       *)
NoJob == [id |-> "none", copy |-> NoCampaign, suggestion |-> "none", delta |-> 0, date |-> 0]

Init ==
    /\ campaigns = [c \in CampaignIds |-> NoCampaign]
    /\ charged = [c \in CampaignIds |-> 0]
    /\ suggestions = [s \in SuggestionIds |-> NoSuggestion]
    /\ live = [c \in CampaignIds |-> {}]
    /\ charges = [s \in SuggestionIds |-> 0]
    /\ today = 0
    /\ pc = [r \in Requests |-> "idle"]
    /\ job = [r \in Requests |-> NoJob]
    /\ overlapped = FALSE
    /\ crossed = FALSE

Goto(r, step) == pc' = [pc EXCEPT ![r] = step]

Finish(r) == Goto(r, "idle") /\ job' = [job EXCEPT ![r] = NoJob]

Start(r, call, j) == pc[r] = "idle" /\ call \in Calls /\ Goto(r, call) /\ job' = [job EXCEPT ![r] = j]

Larger(a, b) == IF a > b THEN a ELSE b

ActiveOn(reel) == {c \in CampaignIds : campaigns[c].status = "ACTIVE" /\ campaigns[c].reel = reel}

-----------------------------------------------------------------------------
(* create looks for an active campaign of the reel, takes the date ... *)
CreateCheck(r, c, reel) ==
    /\ campaigns[c].status = "NONE"
    /\ ActiveOn(reel) = {}
    /\ Start(r, "create", [NoJob EXCEPT !.id = c, !.copy.reel = reel, !.date = today])
    /\ UNCHANGED <<db, history, today>>

(* ... and then commits the row and its whole price in one transaction; a       *)
(* wallet that cannot pay leaves nothing, as Abort does.                        *)
CreateCommit(r) ==
    LET c == job[r].id
    IN  /\ pc[r] = "create"
        /\ campaigns[c].status = "NONE"
        /\ \E budget \in Budgets, days \in Durations :
              /\ campaigns' = [campaigns EXCEPT ![c] =
                    [status |-> "ACTIVE", reel |-> job[r].copy.reel, budget |-> budget,
                     end |-> job[r].date + days - 1, anchor |-> job[r].date, accrued |-> 0]]
              /\ charged' = [charged EXCEPT ![c] = budget * days]
        /\ live' = [live EXCEPT ![c] = {today}]
        /\ Finish(r)
        /\ UNCHANGED <<suggestions, charges, today>>

-----------------------------------------------------------------------------
(* foldSpend: the days from the anchor through upto, at the copy's budget. *)
FoldSpend(copy, upto) ==
    IF upto < copy.anchor THEN copy
    ELSE [copy EXCEPT !.accrued = @ + (upto - copy.anchor + 1) * copy.budget, !.anchor = upto + 1]

(* The update of a campaign's status, spend and anchor. *)
Write(c, status, folded) ==
    campaigns' = [campaigns EXCEPT ![c] =
        [@ EXCEPT !.status = status, !.accrued = folded.accrued, !.anchor = folded.anchor]]

(* Faulty: a campaign that has ended may be resumed. *)
AdmitsEnded(call, status) ==
    CASE call = "pause"  -> status = "ACTIVE"
      [] call = "resume" -> status \in {"PAUSED", "ENDED"}
      [] call = "stop"   -> status \in {"ACTIVE", "PAUSED"}
      [] OTHER           -> FALSE

(* The check pause, resume and stop make on the row they have read. *)
Admits(call, status) ==
    CASE call = "pause"  -> status = "ACTIVE"
      [] call = "resume" -> status = "PAUSED"
      [] call = "stop"   -> status \in {"ACTIVE", "PAUSED"}
      [] OTHER           -> FALSE

Load(r, c, call) ==
    /\ Admits(call, campaigns[c].status)
    /\ Start(r, call, [NoJob EXCEPT !.id = c, !.copy = campaigns[c], !.date = today])
    /\ UNCHANGED <<db, history, today>>

(* pause folds its day in: the campaign was live earlier that day. *)
Pause(r) ==
    /\ pc[r] = "pause"
    /\ Write(job[r].id, "PAUSED", FoldSpend(job[r].copy, job[r].date))
    /\ Finish(r)
    /\ UNCHANGED <<charged, suggestions, history, today>>

(* Faulty: the anchor goes back to the day, although it is folded in. *)
ResumeBillsTodayAgain(r) ==
    LET c == job[r].id
    IN  /\ pc[r] = "resume"
        /\ campaigns' = [campaigns EXCEPT ![c] = [@ EXCEPT !.status = "ACTIVE", !.anchor = job[r].date]]
        /\ live' = [live EXCEPT ![c] = @ \cup {today}]
        /\ Finish(r)
        /\ UNCHANGED <<charged, suggestions, charges, today>>

(* resume moves the anchor to its day, unless pause has folded that day in. *)
Resume(r) ==
    LET c == job[r].id
    IN  /\ pc[r] = "resume"
        /\ campaigns' = [campaigns EXCEPT ![c] =
              [@ EXCEPT !.status = "ACTIVE", !.anchor = Larger(job[r].copy.anchor, job[r].date)]]
        /\ live' = [live EXCEPT ![c] = @ \cup {today}]
        /\ Finish(r)
        /\ UNCHANGED <<charged, suggestions, charges, today>>

Stop(r) ==
    LET copy == job[r].copy
    IN  /\ pc[r] = "stop"
        /\ Write(job[r].id, "ENDED", IF copy.status = "ACTIVE" THEN FoldSpend(copy, job[r].date) ELSE copy)
        /\ Finish(r)
        /\ UNCHANGED <<charged, suggestions, history, today>>

-----------------------------------------------------------------------------
(* settleIfNeeded's new row: the days before date, to the campaign's last, and  *)
(* ENDED with the last.                                                         *)
Settled(copy, date) ==
    LET upto == IF copy.end < date THEN copy.end ELSE date - 1
        folded == FoldSpend(copy, upto)
    IN  IF upto < copy.anchor THEN copy
        ELSE [folded EXCEPT !.status = IF folded.anchor > copy.end THEN "ENDED" ELSE @]

(* What its update writes; an active copy leaves the status alone. *)
SettledRow(copy, row, date) ==
    LET settled == Settled(copy, date)
    IN  [row EXCEPT !.accrued = settled.accrued,
                    !.anchor = settled.anchor,
                    !.status = IF settled.status = "ENDED" THEN "ENDED" ELSE @]

(* list, findOne, analytics *)
Read(r, c) ==
    /\ campaigns[c].status = "ACTIVE"
    /\ Settled(campaigns[c], today) # campaigns[c]
    /\ Start(r, "read", [NoJob EXCEPT !.id = c, !.copy = campaigns[c], !.date = today])
    /\ UNCHANGED <<db, history, today>>

Settle(r) ==
    LET c == job[r].id
    IN  /\ pc[r] = "read"
        /\ campaigns' = [campaigns EXCEPT ![c] = SettledRow(job[r].copy, @, job[r].date)]
        /\ Finish(r)
        /\ UNCHANGED <<charged, suggestions, history, today>>

-----------------------------------------------------------------------------
(* generate: no batch for today yet; *)
GenerateCheck(r) ==
    /\ \A s \in SuggestionIds : suggestions[s].status # "NONE" => suggestions[s].batch # today
    /\ Start(r, "generate", [NoJob EXCEPT !.date = today])
    /\ UNCHANGED <<db, history, today>>

(* it lists the active campaigns, which settles them (all of them at once, in   *)
(* this model), *)
GenerateList(r) ==
    /\ pc[r] = "generate"
    /\ \E c \in CampaignIds : campaigns[c].status = "ACTIVE"
    /\ campaigns' = [c \in CampaignIds |->
          IF campaigns[c].status = "ACTIVE" THEN SettledRow(campaigns[c], campaigns[c], today) ELSE campaigns[c]]
    /\ Goto(r, "generateCreate")
    /\ UNCHANGED <<charged, suggestions, history, today, job>>

(* and the assistant's answer is stored: here, one suggestion for one campaign  *)
(* it was shown.  An answer with none ends the request, as Abort does.          *)
GenerateCreate(r) ==
    /\ pc[r] = "generateCreate"
    /\ \E s \in SuggestionIds, c \in CampaignIds, budget \in Budgets \cup {0} :
          /\ suggestions[s].status = "NONE"
          /\ campaigns[c].status # "NONE"
          /\ suggestions' = [suggestions EXCEPT ![s] =
                [status |-> "NEW", campaign |-> c, budget |-> budget, batch |-> job[r].date]]
    /\ Finish(r)
    /\ UNCHANGED <<campaigns, charged, history, today>>

(* apply and dismiss take a suggestion that is NEW. *)
LoadSuggestion(r, s, call) ==
    /\ call \in {"apply", "dismiss"}
    /\ suggestions[s].status = "NEW"
    /\ Start(r, call, [NoJob EXCEPT !.suggestion = s, !.id = suggestions[s].campaign])
    /\ UNCHANGED <<db, history, today>>

(* updateBudget only ever raises a budget. *)
Raises(s, c) == suggestions[s].budget > campaigns[c].budget

(* updateBudget loads the campaign: ACTIVE, and on a lower budget; settling it   *)
(* takes the date.  The other types go on to the mark.                           *)
ApplyLoad(r) ==
    LET s == job[r].suggestion
        c == job[r].id
    IN  /\ pc[r] = "apply"
        /\ IF suggestions[s].budget = 0
           THEN Goto(r, "applyMark") /\ UNCHANGED job
           ELSE IF campaigns[c].status = "ACTIVE" /\ Raises(s, c)
           THEN Goto(r, "applySettle") /\ job' = [job EXCEPT ![r].copy = campaigns[c], ![r].date = today]
           ELSE Finish(r)
        /\ UNCHANGED <<db, history, today>>

(* It settles the campaign, and prices the days that are left by then. *)
ApplySettle(r) ==
    LET c == job[r].id
        copy == job[r].copy
        due == Settled(copy, job[r].date) # copy
        row == IF due THEN SettledRow(copy, campaigns[c], job[r].date) ELSE copy
        remaining == row.end - today + 1
    IN  /\ pc[r] = "applySettle"
        /\ campaigns' = IF due THEN [campaigns EXCEPT ![c] = row] ELSE campaigns
        /\ IF remaining <= 0
           THEN Finish(r)
           ELSE /\ Goto(r, "applyCharge")
                /\ job' = [job EXCEPT ![r].delta =
                              (suggestions[job[r].suggestion].budget - row.budget) * remaining]
        /\ UNCHANGED <<charged, suggestions, history, today>>

(* Faulty: the budget is raised and the difference not charged. *)
ApplyChargeForgotten(r) ==
    LET c == job[r].id
        s == job[r].suggestion
    IN  /\ pc[r] = "applyCharge"
        /\ charges[s] < MaxCharges
        /\ campaigns' = [campaigns EXCEPT ![c].budget = suggestions[s].budget]
        /\ charges' = [charges EXCEPT ![s] = @ + 1]
        /\ Goto(r, "applyMark")
        /\ UNCHANGED <<charged, suggestions, live, today, job>>

(* One transaction charges the difference and raises the budget. *)
ApplyCharge(r) ==
    LET c == job[r].id
        s == job[r].suggestion
    IN  /\ pc[r] = "applyCharge"
        /\ charges[s] < MaxCharges
        /\ charged' = [charged EXCEPT ![c] = @ + job[r].delta]
        /\ campaigns' = [campaigns EXCEPT ![c].budget = suggestions[s].budget]
        /\ charges' = [charges EXCEPT ![s] = @ + 1]
        /\ Goto(r, "applyMark")
        /\ UNCHANGED <<suggestions, live, today, job>>

ApplyMark(r) ==
    /\ pc[r] = "applyMark"
    /\ suggestions' = [suggestions EXCEPT ![job[r].suggestion].status = "APPLIED"]
    /\ Finish(r)
    /\ UNCHANGED <<campaigns, charged, history, today>>

Dismiss(r) ==
    /\ pc[r] = "dismiss"
    /\ suggestions' = [suggestions EXCEPT ![job[r].suggestion].status = "DISMISSED"]
    /\ Finish(r)
    /\ UNCHANGED <<campaigns, charged, history, today>>

-----------------------------------------------------------------------------
(* The function is killed between two of its statements, or its wallet debit    *)
(* finds too little.                                                            *)
Abort(r) ==
    /\ pc[r] # "idle"
    /\ Finish(r)
    /\ UNCHANGED <<db, history, today>>

NextDay ==
    /\ today < MaxDay
    /\ today' = today + 1
    /\ live' = [c \in CampaignIds |->
                  IF campaigns[c].status = "ACTIVE" THEN live[c] \cup {today + 1} ELSE live[c]]
    /\ UNCHANGED <<db, charges, pc, job>>

Handle(r) ==
    \/ CreateCommit(r) \/ Pause(r) \/ Resume(r) \/ Stop(r) \/ Settle(r)
    \/ GenerateList(r) \/ GenerateCreate(r)
    \/ ApplyLoad(r) \/ ApplySettle(r) \/ ApplyCharge(r) \/ ApplyMark(r) \/ Dismiss(r)

Step ==
    \/ NextDay
    \/ \E r \in Requests :
          \/ Handle(r) \/ Abort(r) \/ GenerateCheck(r)
          \/ \E c \in CampaignIds, reel \in Reels : CreateCheck(r, c, reel)
          \/ \E c \in CampaignIds, call \in Calls : Load(r, c, call)
          \/ \E c \in CampaignIds : Read(r, c)
          \/ \E s \in SuggestionIds, call \in Calls : LoadSuggestion(r, s, call)

(* At most one request of the kitchen is in flight. *)
OneAtATime == \A q, r \in Requests : pc[q] # "idle" /\ pc[r] # "idle" => q = r

(* The requests that have taken a date the bill will rest on, and not yet written. *)
Dating == {"create", "pause", "resume", "stop", "applySettle"}

(* overlapped is set by the first step after which two requests are in flight   *)
(* at once, crossed by the first midnight that overtakes a request's date.      *)
Watch ==
    /\ overlapped' = (overlapped \/ ~OneAtATime')
    /\ crossed' = (crossed \/ (today' # today /\ \E r \in Requests : pc[r] \in Dating))

Next == Step /\ Watch

watched == <<vars, overlapped, crossed>>

Spec == Init /\ [][Next]_watched

(* What liveness rests on: a function that is not killed every time finishes,  *)
(* and somebody comes back to look at every campaign.                          *)
FairSpec ==
    /\ Spec
    /\ \A r \in Requests : WF_vars(Handle(r)) /\ SF_vars(Settle(r))
    /\ \A c \in CampaignIds : SF_vars(\E r \in Requests : Read(r, c))

-----------------------------------------------------------------------------
(* Properties that only requests which overlap, or which midnight overtakes, can break *)

DaysLeft(c) == Cardinality(campaigns[c].anchor .. campaigns[c].end)

(* dailyBudgetRs x durationDays is charged up front, and a raise charges the   *)
(* difference for the days that are left: as long as nobody pauses or stops a   *)
(* campaign, what was charged covers all it has spent and may still spend.  An  *)
(* application that was overtaken by a higher raise lowers the budget again and *)
(* charges a negative difference, which pays back days that a read begun before *)
(* it then bills at the higher budget; one that settles before midnight and      *)
(* prices after it does not charge the day in between.                          *)
PrepaidCoversSpend ==
    \A c \in CampaignIds :
        ~overlapped /\ ~crossed =>
            charged[c] >= campaigns[c].accrued
                + (IF campaigns[c].status = "ACTIVE" THEN DaysLeft(c) * campaigns[c].budget ELSE 0)

(* "Cannot apply a suggestion that is already APPLIED": a suggestion is        *)
(* charged once, even if the application dies before it marks it and is        *)
(* repeated.  Two that overlap both charge.                                    *)
ChargedOnce == \A s \in SuggestionIds : ~overlapped => charges[s] <= 1

(* What a kitchen is charged covers what it can spend, and no more than once.   *)
ChargesCoverSpend == PrepaidCoversSpend /\ ChargedOnce

(* "A campaign is billed per whole day it was live": until its last day is     *)
(* over, what is folded and what is still to be folded is its budget for every *)
(* day it was active on, once, through every pause and resume.  A pause        *)
(* computed from a row read before another pause bills the days between them,  *)
(* and one dated before midnight and written after it leaves a day unbilled.   *)
SpendIsLiveDays ==
    \A c \in CampaignIds :
        ~overlapped /\ ~crossed /\ campaigns[c].status # "NONE" /\ today <= campaigns[c].end =>
            campaigns[c].accrued
                + (IF campaigns[c].status = "ACTIVE"
                   THEN Cardinality(campaigns[c].anchor .. today) * campaigns[c].budget ELSE 0)
            = Cardinality(live[c]) * campaigns[c].budget

(* "End a campaign for good - not resumable".  A resume that overlaps the stop  *)
(* revives the campaign.                                                       *)
StopIsFinal ==
    \A c \in CampaignIds :
        ~overlapped' /\ campaigns[c].status = "ENDED" => campaigns'[c].status = "ENDED"

EndedForGood == [][StopIsFinal]_watched

-----------------------------------------------------------------------------
(* What a comment says, and the code does not keep *)

(* "Ends the campaign in the same write if endDate has now fully elapsed": a    *)
(* campaign whose days are over ends, although no job runs, if somebody reads  *)
(* it.  One that was paused and resumed on its last day never does.            *)
CampaignsEnd ==
    \A c \in CampaignIds :
        campaigns[c].status = "ACTIVE" /\ campaigns[c].end < today ~> campaigns[c].status # "ACTIVE"
=============================================================================
