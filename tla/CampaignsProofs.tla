-------------------------- MODULE CampaignsProofs --------------------------
(***************************************************************************)
(* The books of a kitchen's reel promotions, as long as no two of its       *)
(* requests overlap: a stopped campaign stays stopped and a suggestion is   *)
(* charged once; and, as long as midnight overtakes none of them either,    *)
(* what was charged covers what is and may still be spent, and every live   *)
(* day is billed once; for any campaigns, suggestions, requests, budgets    *)
(* and durations.                                                          *)
(***************************************************************************)
EXTENDS Campaigns, FiniteSetTheorems, TLAPS

Statuses == {"NONE", "ACTIVE", "PAUSED", "ENDED"}

Campaign ==
    [status : Statuses, reel : Reels \cup {"none"}, budget : Nat, end : Int, anchor : Int, accrued : Int]

Suggestion ==
    [status : {"NONE", "NEW", "APPLIED", "DISMISSED"}, campaign : CampaignIds \cup {"none"},
     budget : Nat, batch : Int]

Job ==
    [id : CampaignIds \cup {"none"}, copy : Campaign, suggestion : SuggestionIds \cup {"none"},
     delta : Int, date : Int]

Applying == {"apply", "applySettle", "applyCharge", "applyMark"}

TypeOK ==
    /\ campaigns \in [CampaignIds -> Campaign]
    /\ charged \in [CampaignIds -> Int]
    /\ suggestions \in [SuggestionIds -> Suggestion]
    /\ live \in [CampaignIds -> SUBSET Int]
    /\ charges \in [SuggestionIds -> Nat]
    /\ today \in Nat
    /\ pc \in [Requests -> AllCalls \cup Applying \cup {"idle", "generateCreate"}]
    /\ job \in [Requests -> Job]
    /\ overlapped \in BOOLEAN
    /\ crossed \in BOOLEAN

(* A request is about rows that exist, and is one of the calls clients make. *)
Known ==
    /\ \A s \in SuggestionIds : suggestions[s].status # "NONE" =>
          suggestions[s].campaign \in CampaignIds /\ campaigns[suggestions[s].campaign].status # "NONE"
    /\ \A r \in Requests :
          /\ pc[r] \in AllCalls => pc[r] \in Calls
          /\ pc[r] \in Applying => "apply" \in Calls
          /\ pc[r] \in {"create", "pause", "resume", "stop", "read"} => job[r].id \in CampaignIds
          /\ pc[r] \in Applying \cup {"dismiss"} =>
                /\ job[r].suggestion \in SuggestionIds
                /\ suggestions[job[r].suggestion].status # "NONE"
                /\ job[r].id = suggestions[job[r].suggestion].campaign

(* What a request has read still holds. *)
Fresh ==
    \A r \in Requests :
        /\ pc[r] \in {"pause", "resume", "stop"} =>
              job[r].copy = campaigns[job[r].id] /\ Admits(pc[r], campaigns[job[r].id].status)
        /\ pc[r] \in {"read", "applySettle"} => job[r].copy = campaigns[job[r].id]
        /\ pc[r] \in {"read", "applySettle", "applyCharge"} => campaigns[job[r].id].status = "ACTIVE"
        /\ pc[r] \in {"applySettle", "applyCharge"} => Raises(job[r].suggestion, job[r].id)

(* A suggestion that was charged has raised its campaign's budget. *)
Raised ==
    \A s \in SuggestionIds :
        /\ charges[s] <= 1
        /\ charges[s] = 1 =>
              /\ suggestions[s].status # "NONE"
              /\ suggestions[s].budget <= campaigns[suggestions[s].campaign].budget

Alone == OneAtATime /\ Fresh /\ Raised

(* The date a request has taken is past only if midnight has overtaken it. *)
DatedJob(r) ==
    /\ pc[r] \in Dating \cup {"read"} => job[r].date <= today
    /\ pc[r] \in Dating /\ ~ crossed => job[r].date = today

Dated == \A r \in Requests : DatedJob(r)

Inv == TypeOK /\ Known /\ Dated /\ (overlapped \/ Alone)

-----------------------------------------------------------------------------
(* The folding of days *)

LEMMA FoldSpendType ==
    ASSUME NEW copy \in Campaign, NEW upto \in Int
    PROVE  /\ FoldSpend(copy, upto) \in Campaign
           /\ FoldSpend(copy, upto).status = copy.status
           /\ FoldSpend(copy, upto).end = copy.end
           /\ FoldSpend(copy, upto).reel = copy.reel
           /\ FoldSpend(copy, upto).budget = copy.budget
           /\ upto < copy.anchor => FoldSpend(copy, upto) = copy
           /\ upto >= copy.anchor =>
                /\ FoldSpend(copy, upto).anchor = upto + 1
                /\ FoldSpend(copy, upto).accrued = copy.accrued + (upto - copy.anchor + 1) * copy.budget
<1> DEFINE cost == (upto - copy.anchor + 1) * copy.budget
<1>1. cost \in Int
    BY DEF Campaign
<1> HIDE DEF cost
<1>2. FoldSpend(copy, upto) = IF upto < copy.anchor THEN copy
                              ELSE [copy EXCEPT !.accrued = @ + cost, !.anchor = upto + 1]
    BY DEF FoldSpend, cost
<1>3. CASE upto < copy.anchor
    BY <1>2, <1>3 DEF Campaign
<1>4. CASE ~ (upto < copy.anchor)
  <2>1. FoldSpend(copy, upto) = [copy EXCEPT !.accrued = copy.accrued + cost, !.anchor = upto + 1]
    BY <1>2, <1>4 DEF Campaign
  <2> DEFINE F == FoldSpend(copy, upto)
  <2>2. copy.anchor \in Int /\ copy.accrued + cost \in Int /\ upto + 1 \in Int
    BY <1>1 DEF Campaign
  <2> HIDE DEF F
  <2>3. F = [copy EXCEPT !.accrued = copy.accrued + cost, !.anchor = upto + 1]
    BY <2>1 DEF F
  <2>4. F \in Campaign
    BY <2>2, <2>3 DEF Campaign
  <2>5. /\ F.status = copy.status /\ F.end = copy.end /\ F.reel = copy.reel /\ F.budget = copy.budget
        /\ F.anchor = upto + 1 /\ F.accrued = copy.accrued + cost
    BY <2>3 DEF Campaign
  <2>6. /\ FoldSpend(copy, upto) \in Campaign
        /\ FoldSpend(copy, upto).status = copy.status
        /\ FoldSpend(copy, upto).end = copy.end
        /\ FoldSpend(copy, upto).reel = copy.reel
        /\ FoldSpend(copy, upto).budget = copy.budget
        /\ FoldSpend(copy, upto).anchor = upto + 1
        /\ FoldSpend(copy, upto).accrued = copy.accrued + cost
    BY <2>4, <2>5 DEF F
  <2>7. FoldSpend(copy, upto).accrued = copy.accrued + (upto - copy.anchor + 1) * copy.budget
    BY <2>6 DEF cost
  <2>8. QED
    BY <1>4, <2>6, <2>7, Zenon
<1>5. QED
    BY <1>3, <1>4

UpTo(copy, date) == IF copy.end < date THEN copy.end ELSE date - 1

LEMMA SettledType ==
    ASSUME NEW copy \in Campaign, NEW date \in Int
    PROVE  /\ Settled(copy, date) \in Campaign
           /\ Settled(copy, date).end = copy.end
           /\ Settled(copy, date).reel = copy.reel
           /\ Settled(copy, date).budget = copy.budget
           /\ UpTo(copy, date) < copy.anchor => Settled(copy, date) = copy
           /\ UpTo(copy, date) >= copy.anchor =>
                /\ Settled(copy, date).anchor = UpTo(copy, date) + 1
                /\ Settled(copy, date).accrued = copy.accrued + (UpTo(copy, date) - copy.anchor + 1) * copy.budget
                /\ Settled(copy, date).status = IF UpTo(copy, date) + 1 > copy.end THEN "ENDED" ELSE copy.status
<1> DEFINE upto == UpTo(copy, date)
<1> DEFINE folded == FoldSpend(copy, upto)
<1>1. upto \in Int
    BY DEF Campaign, UpTo
<1>2. Settled(copy, date) = IF upto < copy.anchor THEN copy
                      ELSE [folded EXCEPT !.status = IF folded.anchor > copy.end THEN "ENDED" ELSE @]
    BY DEF Settled, UpTo
<1>3. folded \in Campaign
    BY <1>1, FoldSpendType
<1>4. CASE upto < copy.anchor
    BY <1>1, <1>2, <1>4 DEF Campaign
<1>5. CASE ~ (upto < copy.anchor)
  <2> DEFINE cost == (upto - copy.anchor + 1) * copy.budget
  <2>1. /\ folded.status = copy.status /\ folded.end = copy.end /\ folded.reel = copy.reel
        /\ folded.budget = copy.budget /\ folded.anchor = upto + 1
        /\ folded.accrued = copy.accrued + cost
    <3>1. upto >= copy.anchor
      BY <1>1, <1>5 DEF Campaign
    <3>2. QED
      BY <1>1, <3>1, FoldSpendType
  <2> HIDE DEF cost, folded, upto
  <2>2. Settled(copy, date) = [folded EXCEPT !.status = IF upto + 1 > copy.end THEN "ENDED" ELSE copy.status]
    BY <1>2, <1>5, <2>1
  <2>3. /\ Settled(copy, date) \in Campaign
        /\ Settled(copy, date).end = folded.end /\ Settled(copy, date).reel = folded.reel
        /\ Settled(copy, date).budget = folded.budget /\ Settled(copy, date).anchor = folded.anchor
        /\ Settled(copy, date).accrued = folded.accrued
        /\ Settled(copy, date).status = IF upto + 1 > copy.end THEN "ENDED" ELSE copy.status
    BY <1>3, <2>2 DEF Campaign, Statuses
  <2>4. QED
    BY <1>5, <2>1, <2>3 DEF upto, cost
<1>6. QED
    BY <1>4, <1>5

(* A row settled from a copy that is still what it was. *)
LEMMA SettledRowFresh ==
    ASSUME NEW copy \in Campaign, NEW date \in Int, copy.status = "ACTIVE"
    PROVE  SettledRow(copy, copy, date) = Settled(copy, date)
<1> DEFINE s == Settled(copy, date)
<1>1. /\ s \in Campaign /\ s.end = copy.end /\ s.reel = copy.reel /\ s.budget = copy.budget
      /\ s.status \in {"ENDED", copy.status}
  <2>1. UpTo(copy, date) < copy.anchor \/ UpTo(copy, date) >= copy.anchor
    BY DEF Campaign, UpTo
  <2>2. QED
    BY <2>1, SettledType
<1> HIDE DEF s
<1>2. SettledRow(copy, copy, date) =
         [copy EXCEPT !.accrued = s.accrued, !.anchor = s.anchor,
                      !.status = IF s.status = "ENDED" THEN "ENDED" ELSE copy.status]
    BY DEF SettledRow, s
<1>3. SettledRow(copy, copy, date) = [copy EXCEPT !.accrued = s.accrued, !.anchor = s.anchor, !.status = s.status]
    BY <1>1, <1>2
<1>4. SettledRow(copy, copy, date) = s
    BY <1>1, <1>3 DEF Campaign
<1>5. QED
    BY <1>4 DEF s

LEMMA SettledRowType ==
    ASSUME NEW copy \in Campaign, NEW date \in Int, NEW row \in Campaign
    PROVE  /\ SettledRow(copy, row, date) \in Campaign
           /\ SettledRow(copy, row, date).budget = row.budget
           /\ SettledRow(copy, row, date).status \in {row.status, "ENDED"}
<1> DEFINE s == Settled(copy, date)
<1>1. s \in Campaign
    BY SettledType
<1> HIDE DEF s
<1>2. SettledRow(copy, row, date) =
         [row EXCEPT !.accrued = s.accrued, !.anchor = s.anchor,
                     !.status = IF s.status = "ENDED" THEN "ENDED" ELSE row.status]
    BY DEF SettledRow, s
<1>3. QED
    BY <1>1, <1>2 DEF Campaign, Statuses

-----------------------------------------------------------------------------
LEMMA NothingTypes ==
    /\ NoCampaign \in Campaign /\ NoSuggestion \in Suggestion /\ NoJob \in Job
    /\ NoCampaign.status = "NONE" /\ NoSuggestion.status = "NONE"
BY DEF NoCampaign, NoSuggestion, NoJob, Campaign, Suggestion, Job, Statuses

LEMMA InitInv == ASSUME CampaignsAssumption, Init PROVE Inv
<1>1. TypeOK
  <2>1. overlapped \in BOOLEAN /\ crossed \in BOOLEAN
    BY DEF Init
  <2>2. QED
    BY <2>1, NothingTypes DEF Init, TypeOK
<1>2. Known
    BY NothingTypes DEF Init, Known, AllCalls, Applying
<1>3. Alone
    BY DEF Init, Alone, OneAtATime, Fresh, Raised
<1>4. Dated
    BY DEF Init, Dated, DatedJob, Dating
<1>5. QED
    BY <1>1, <1>2, <1>3, <1>4 DEF Inv

(* A job with the fields a load gives it. *)
LEMMA JobTypes ==
    ASSUME TypeOK
    PROVE  /\ \A c \in CampaignIds :
                 /\ [NoJob EXCEPT !.id = c, !.copy = campaigns[c], !.date = today] \in Job
                 /\ [NoJob EXCEPT !.id = c, !.copy = campaigns[c], !.date = today].id = c
                 /\ [NoJob EXCEPT !.id = c, !.copy = campaigns[c], !.date = today].copy = campaigns[c]
                 /\ [NoJob EXCEPT !.id = c, !.copy = campaigns[c], !.date = today].date = today
           /\ \A c \in CampaignIds, reel \in Reels :
                 /\ [NoJob EXCEPT !.id = c, !.copy.reel = reel, !.date = today] \in Job
                 /\ [NoJob EXCEPT !.id = c, !.copy.reel = reel, !.date = today].id = c
                 /\ [NoJob EXCEPT !.id = c, !.copy.reel = reel, !.date = today].date = today
<1>1. today \in Int /\ NoJob \in Job
    BY NothingTypes DEF TypeOK
<1> DEFINE J(c, copy) == [NoJob EXCEPT !.id = c, !.copy = copy, !.date = today]
<1>2. ASSUME NEW c \in CampaignIds, NEW copy \in Campaign
      PROVE  J(c, copy) \in Job /\ J(c, copy).id = c /\ J(c, copy).copy = copy /\ J(c, copy).date = today
    BY <1>1, <1>2 DEF Job
<1>3. ASSUME NEW c \in CampaignIds, NEW reel \in Reels
      PROVE  /\ [NoCampaign EXCEPT !.reel = reel] \in Campaign
             /\ [NoJob EXCEPT !.id = c, !.copy.reel = reel, !.date = today] = J(c, [NoCampaign EXCEPT !.reel = reel])
  <2>1. [NoCampaign EXCEPT !.reel = reel] \in Campaign
    BY NothingTypes DEF Campaign
  <2>2. [NoJob EXCEPT !.id = c, !.copy.reel = reel, !.date = today] = J(c, [NoCampaign EXCEPT !.reel = reel])
    BY DEF NoJob
  <2>3. QED
    BY <2>1, <2>2
<1>4. \A c \in CampaignIds :
         /\ J(c, campaigns[c]) \in Job /\ J(c, campaigns[c]).id = c
         /\ J(c, campaigns[c]).copy = campaigns[c] /\ J(c, campaigns[c]).date = today
  <2>1. \A c \in CampaignIds : campaigns[c] \in Campaign
    BY DEF TypeOK
  <2> HIDE DEF J
  <2>2. QED
    BY <1>2, <2>1
<1>5. \A c \in CampaignIds, reel \in Reels :
         /\ [NoJob EXCEPT !.id = c, !.copy.reel = reel, !.date = today] \in Job
         /\ [NoJob EXCEPT !.id = c, !.copy.reel = reel, !.date = today].id = c
         /\ [NoJob EXCEPT !.id = c, !.copy.reel = reel, !.date = today].date = today
  <2> TAKE c \in CampaignIds, reel \in Reels
  <2> DEFINE copy == [NoCampaign EXCEPT !.reel = reel]
  <2> DEFINE new == [NoJob EXCEPT !.id = c, !.copy.reel = reel, !.date = today]
  <2>1. copy \in Campaign /\ new = J(c, copy)
    BY <1>3
  <2> HIDE DEF J, copy, new
  <2>2. J(c, copy) \in Job /\ J(c, copy).id = c /\ J(c, copy).date = today
    BY <1>2, <2>1
  <2>3. new \in Job /\ new.id = c /\ new.date = today
    BY <2>1, <2>2
  <2>4. QED
    BY <2>3 DEF new
<1>6. QED
    BY <1>4, <1>5

LEMMA StartTypes ==
    ASSUME CampaignsAssumption, TypeOK, NEW r \in Requests, NEW call, NEW j \in Job, Start(r, call, j)
    PROVE  /\ pc' \in [Requests -> AllCalls \cup Applying \cup {"idle", "generateCreate"}]
           /\ job' \in [Requests -> Job]
           /\ call \in Calls /\ pc'[r] = call /\ job'[r] = j
           /\ \A q \in Requests \ {r} : pc'[q] = pc[q] /\ job'[q] = job[q]
BY DEF CampaignsAssumption, TypeOK, Start, Goto

LEMMA FinishTypes ==
    ASSUME TypeOK, NEW r \in Requests, Finish(r)
    PROVE  /\ pc' \in [Requests -> AllCalls \cup Applying \cup {"idle", "generateCreate"}]
           /\ job' \in [Requests -> Job]
           /\ pc'[r] = "idle" /\ job'[r] = NoJob
           /\ \A q \in Requests \ {r} : pc'[q] = pc[q] /\ job'[q] = job[q]
BY NothingTypes DEF TypeOK, Finish, Goto

LEMMA StepType ==
    ASSUME CampaignsAssumption, TypeOK, Known, Next
    PROVE  TypeOK'
<1> DEFINE Jobs == /\ pc' \in [Requests -> AllCalls \cup Applying \cup {"idle", "generateCreate"}]
                   /\ job' \in [Requests -> Job]
<1>0. Step /\ overlapped' \in BOOLEAN /\ crossed' \in BOOLEAN
    BY DEF Next, Watch, TypeOK
<1>1. CASE NextDay
    BY <1>0, <1>1 DEF NextDay, TypeOK, db
<1>2. ASSUME NEW r \in Requests, CreateCommit(r) PROVE TypeOK'
  <2> DEFINE c == job[r].id
  <2>1. PICK budget \in Budgets, days \in Durations :
           /\ campaigns' = [campaigns EXCEPT ![c] =
                    [status |-> "ACTIVE", reel |-> job[r].copy.reel, budget |-> budget,
                     end |-> job[r].date + days - 1, anchor |-> job[r].date, accrued |-> 0]]
           /\ charged' = [charged EXCEPT ![c] = budget * days]
    BY <1>2 DEF CreateCommit
  <2>2. budget \in Nat /\ days \in Nat /\ budget * days \in Int
    BY DEF CampaignsAssumption
  <2>3. [status |-> "ACTIVE", reel |-> job[r].copy.reel, budget |-> budget,
         end |-> job[r].date + days - 1, anchor |-> job[r].date, accrued |-> 0] \in Campaign
    BY <2>2 DEF TypeOK, Job, Campaign, Statuses
  <2>4. campaigns' \in [CampaignIds -> Campaign]
    BY <2>1, <2>3 DEF TypeOK
  <2>5. charged' \in [CampaignIds -> Int]
    BY <2>1, <2>2 DEF TypeOK
  <2>6. live' \in [CampaignIds -> SUBSET Int]
    <3>1. {today} \in SUBSET Int
      BY DEF TypeOK
    <3>2. QED
      BY <1>2, <3>1 DEF CreateCommit, TypeOK
  <2>7. Jobs
    BY <1>2, FinishTypes DEF CreateCommit
  <2>8. QED
    BY <1>0, <1>2, <2>4, <2>5, <2>6, <2>7 DEF CreateCommit, TypeOK
<1>3. ASSUME NEW r \in Requests, Pause(r) \/ Stop(r) PROVE TypeOK'
  <2>1. job[r].copy \in Campaign /\ job[r].date \in Int
    BY DEF TypeOK, Job
  <2>2. FoldSpend(job[r].copy, job[r].date) \in Campaign
    BY <2>1, FoldSpendType
  <2>3. \E folded \in Campaign, status \in Statuses : Write(job[r].id, status, folded)
    BY <1>3, <2>1, <2>2 DEF Pause, Stop, Statuses
  <2>4. campaigns' \in [CampaignIds -> Campaign]
    <3>1. PICK folded \in Campaign, status \in Statuses : Write(job[r].id, status, folded)
      BY <2>3
    <3>2. \A row \in Campaign :
             [row EXCEPT !.status = status, !.accrued = folded.accrued, !.anchor = folded.anchor] \in Campaign
      BY DEF Campaign
    <3>3. QED
      BY <3>1, <3>2 DEF Write, TypeOK
  <2>5. Jobs
    BY <1>3, FinishTypes DEF Pause, Stop
  <2>6. QED
    BY <1>0, <1>3, <2>4, <2>5 DEF Pause, Stop, TypeOK, history
<1>4. ASSUME NEW r \in Requests, Resume(r) PROVE TypeOK'
  <2>1. Larger(job[r].copy.anchor, job[r].date) \in Int
    BY DEF TypeOK, Job, Campaign, Larger
  <2>2. campaigns' \in [CampaignIds -> Campaign]
    <3>1. \A row \in Campaign :
             [row EXCEPT !.status = "ACTIVE", !.anchor = Larger(job[r].copy.anchor, job[r].date)] \in Campaign
      BY <2>1 DEF Campaign, Statuses
    <3>2. QED
      BY <1>4, <3>1 DEF Resume, TypeOK
  <2>3. live' \in [CampaignIds -> SUBSET Int]
    <3>1. \A days \in SUBSET Int : days \cup {today} \in SUBSET Int
      BY DEF TypeOK
    <3>2. QED
      BY <1>4, <3>1 DEF Resume, TypeOK
  <2>4. Jobs
    BY <1>4, FinishTypes DEF Resume
  <2>5. QED
    BY <1>0, <1>4, <2>2, <2>3, <2>4 DEF Resume, TypeOK
<1>5. ASSUME NEW r \in Requests, Settle(r) PROVE TypeOK'
  <2>1. \A c \in CampaignIds : SettledRow(job[r].copy, campaigns[c], job[r].date) \in Campaign
    BY SettledRowType DEF TypeOK, Job
  <2>2. campaigns' \in [CampaignIds -> Campaign]
    BY <1>5, <2>1 DEF Settle, TypeOK
  <2>3. Jobs
    BY <1>5, FinishTypes DEF Settle
  <2>4. QED
    BY <1>0, <1>5, <2>2, <2>3 DEF Settle, TypeOK, history
<1>6. ASSUME NEW r \in Requests, GenerateList(r) PROVE TypeOK'
  <2>1. \A c \in CampaignIds : SettledRow(campaigns[c], campaigns[c], today) \in Campaign
    BY SettledRowType DEF TypeOK
  <2>2. campaigns' \in [CampaignIds -> Campaign]
    BY <1>6, <2>1 DEF GenerateList, TypeOK
  <2>3. QED
    BY <1>0, <1>6, <2>2 DEF GenerateList, TypeOK, history, Goto
<1>7. ASSUME NEW r \in Requests, GenerateCreate(r) PROVE TypeOK'
  <2>1. suggestions' \in [SuggestionIds -> Suggestion]
    BY <1>7 DEF GenerateCreate, TypeOK, Suggestion, Job, CampaignsAssumption
  <2>2. Jobs
    BY <1>7, FinishTypes DEF GenerateCreate
  <2>3. QED
    BY <1>0, <1>7, <2>1, <2>2 DEF GenerateCreate, TypeOK, history
<1>8. ASSUME NEW r \in Requests, ApplyLoad(r) PROVE TypeOK'
  <2>1. job[r].id \in CampaignIds
    BY <1>8 DEF ApplyLoad, Known, Applying
  <2>2. Jobs
    <3>1. CASE Finish(r)
      BY <3>1, FinishTypes
    <3>2. CASE Goto(r, "applyMark") /\ UNCHANGED job
      BY <3>2 DEF Goto, TypeOK, Applying
    <3>3. CASE Goto(r, "applySettle") /\ job' = [job EXCEPT ![r].copy = campaigns[job[r].id], ![r].date = today]
      <4>1. campaigns[job[r].id] \in Campaign /\ today \in Int
        BY <2>1 DEF TypeOK
      <4> DEFINE copy == campaigns[job[r].id]
      <4>2. [job[r] EXCEPT !.copy = copy, !.date = today] \in Job
        BY <4>1 DEF TypeOK, Job
      <4>3. job' = [job EXCEPT ![r] = [job[r] EXCEPT !.copy = copy, !.date = today]]
        BY <3>3 DEF TypeOK
      <4> HIDE DEF copy
      <4>4. QED
        BY <3>3, <4>2, <4>3 DEF Goto, TypeOK, Applying
    <3>4. QED
      BY <1>8, <3>1, <3>2, <3>3 DEF ApplyLoad
  <2>3. QED
    BY <1>0, <1>8, <2>2 DEF ApplyLoad, TypeOK, db, history
<1>9. ASSUME NEW r \in Requests, ApplySettle(r) PROVE TypeOK'
  <2> DEFINE c == job[r].id
  <2> DEFINE copy == job[r].copy
  <2> DEFINE row == IF Settled(copy, job[r].date) # copy THEN SettledRow(copy, campaigns[c], job[r].date) ELSE copy
  <2> DEFINE s == job[r].suggestion
  <2>1. c \in CampaignIds /\ s \in SuggestionIds /\ copy \in Campaign /\ job[r].date \in Int
    BY <1>9 DEF ApplySettle, Known, Applying, TypeOK, Job
  <2>2. row \in Campaign
    BY <2>1, SettledRowType DEF TypeOK
  <2>3. campaigns' \in [CampaignIds -> Campaign]
    BY <1>9, <2>2 DEF ApplySettle, TypeOK
  <2>4. Jobs
    <3> DEFINE delta == (suggestions[s].budget - row.budget) * (row.end - today + 1)
    <3>1. delta \in Int
      BY <2>1, <2>2 DEF TypeOK, Suggestion, Campaign
    <3>2. CASE Finish(r)
      BY <3>2, FinishTypes
    <3>3. CASE Goto(r, "applyCharge") /\ job' = [job EXCEPT ![r].delta = delta]
      <4> HIDE DEF delta
      <4>1. QED
        BY <3>1, <3>3 DEF Goto, TypeOK, Applying, Job
    <3>4. QED
      BY <1>9, <3>2, <3>3 DEF ApplySettle
  <2>5. QED
    BY <1>0, <1>9, <2>3, <2>4 DEF ApplySettle, TypeOK, history
<1>10. ASSUME NEW r \in Requests, ApplyCharge(r) PROVE TypeOK'
  <2>1. job[r].suggestion \in SuggestionIds
    BY <1>10 DEF ApplyCharge, Known, Applying
  <2>0. job[r].id \in CampaignIds
    BY <1>10 DEF ApplyCharge, Known, Applying
  <2>2. campaigns' \in [CampaignIds -> Campaign]
    <3>1. suggestions[job[r].suggestion].budget \in Nat
      BY <2>1 DEF TypeOK, Suggestion
    <3>2. \A row \in Campaign : [row EXCEPT !.budget = suggestions[job[r].suggestion].budget] \in Campaign
      BY <3>1 DEF Campaign
    <3>3. campaigns' = [campaigns EXCEPT ![job[r].id] = [@ EXCEPT !.budget = suggestions[job[r].suggestion].budget]]
      BY <1>10 DEF ApplyCharge
    <3>4. QED
      BY <3>2, <3>3 DEF TypeOK
  <2>3. charged' \in [CampaignIds -> Int] /\ charges' \in [SuggestionIds -> Nat]
    <3>1. job[r].delta \in Int
      BY DEF TypeOK, Job
    <3>2. charged' = [charged EXCEPT ![job[r].id] = @ + job[r].delta]
      BY <1>10 DEF ApplyCharge
    <3>3. charges' = [charges EXCEPT ![job[r].suggestion] = @ + 1]
      BY <1>10 DEF ApplyCharge
    <3>4. charged' \in [CampaignIds -> Int]
      BY <2>0, <3>1, <3>2 DEF TypeOK
    <3>5. charges' \in [SuggestionIds -> Nat]
      BY <2>1, <3>3 DEF TypeOK
    <3>6. QED
      BY <3>4, <3>5
  <2>4. Jobs
    BY <1>10 DEF ApplyCharge, TypeOK, Applying, Goto
  <2>5. QED
    BY <1>0, <1>10, <2>2, <2>3, <2>4 DEF ApplyCharge, TypeOK
<1>11. ASSUME NEW r \in Requests, ApplyMark(r) \/ Dismiss(r) PROVE TypeOK'
  <2>1. suggestions' \in [SuggestionIds -> Suggestion]
    <3>1. \A row \in Suggestion, status \in {"APPLIED", "DISMISSED"} : [row EXCEPT !.status = status] \in Suggestion
      BY DEF Suggestion
    <3>2. PICK status \in {"APPLIED", "DISMISSED"} :
             suggestions' = [suggestions EXCEPT ![job[r].suggestion] = [@ EXCEPT !.status = status]]
      BY <1>11 DEF ApplyMark, Dismiss
    <3>3. QED
      BY <3>1, <3>2 DEF TypeOK
  <2>2. Jobs
    BY <1>11, FinishTypes DEF ApplyMark, Dismiss
  <2>3. QED
    BY <1>0, <1>11, <2>1, <2>2 DEF ApplyMark, Dismiss, TypeOK, history
<1>12. ASSUME NEW r \in Requests, Abort(r) PROVE TypeOK'
    BY <1>0, <1>12, FinishTypes DEF Abort, TypeOK, db, history
<1>13. ASSUME NEW r \in Requests, NEW call, NEW j \in Job, Start(r, call, j), UNCHANGED <<db, history, today>>
       PROVE TypeOK'
    BY <1>0, <1>13, StartTypes DEF TypeOK, db, history
<1>14. ASSUME NEW r \in Requests, GenerateCheck(r) PROVE TypeOK'
  <2>1. [NoJob EXCEPT !.date = today] \in Job
    BY NothingTypes DEF Job, TypeOK
  <2>2. QED
    BY <1>13, <1>14, <2>1 DEF GenerateCheck
<1>15. ASSUME NEW r \in Requests, NEW c \in CampaignIds, NEW reel \in Reels, CreateCheck(r, c, reel) PROVE TypeOK'
    BY <1>13, <1>15, JobTypes DEF CreateCheck
<1>16. ASSUME NEW r \in Requests, NEW c \in CampaignIds, NEW call, Load(r, c, call) PROVE TypeOK'
    BY <1>13, <1>16, JobTypes DEF Load
<1>17. ASSUME NEW r \in Requests, NEW c \in CampaignIds, Read(r, c) PROVE TypeOK'
    BY <1>13, <1>17, JobTypes DEF Read
<1>18. ASSUME NEW r \in Requests, NEW s \in SuggestionIds, NEW call, LoadSuggestion(r, s, call) PROVE TypeOK'
  <2>1. [NoJob EXCEPT !.suggestion = s, !.id = suggestions[s].campaign] \in Job
    BY NothingTypes DEF Job, TypeOK, Suggestion
  <2>2. QED
    BY <1>13, <1>18, <2>1 DEF LoadSuggestion
<1>19. QED
    BY <1>0, <1>1, <1>2, <1>3, <1>4, <1>5, <1>6, <1>7, <1>8, <1>9, <1>10, <1>11, <1>12, <1>14, <1>15, <1>16,
       <1>17, <1>18 DEF Step, Handle

-----------------------------------------------------------------------------
(* What a step does to the row of one campaign *)

(* A date taken on the day it is used, unless midnight has overtaken a request. *)
OnTime(date) == date <= today /\ (~ crossed => date = today)

CreatesRow(c) ==
    /\ campaigns[c].status = "NONE"
    /\ \E budget \in Nat \ {0}, days \in Nat \ {0}, date \in Int :
          /\ OnTime(date)
          /\ campaigns'[c].status = "ACTIVE" /\ campaigns'[c].budget = budget
          /\ campaigns'[c].end = date + days - 1 /\ campaigns'[c].anchor = date
          /\ campaigns'[c].accrued = 0
          /\ charged'[c] = budget * days
    /\ live'[c] = {today}

SettlesRow(c) ==
    /\ campaigns[c].status = "ACTIVE"
    /\ \E date \in Int : date <= today /\ campaigns'[c] = Settled(campaigns[c], date)
    /\ charged'[c] = charged[c] /\ live'[c] = live[c]

(* The row is written: the status, and the spend and anchor of folded. *)
Writes(c, status, folded) ==
    /\ campaigns'[c].status = status
    /\ campaigns'[c].accrued = folded.accrued /\ campaigns'[c].anchor = folded.anchor
    /\ campaigns'[c].budget = campaigns[c].budget /\ campaigns'[c].end = campaigns[c].end

PausesRow(c) ==
    /\ "pause" \in Calls
    /\ campaigns[c].status = "ACTIVE"
    /\ \E date \in Int : OnTime(date) /\ Writes(c, "PAUSED", FoldSpend(campaigns[c], date))
    /\ charged'[c] = charged[c] /\ live'[c] = live[c]

ResumesRow(c) ==
    /\ "resume" \in Calls
    /\ campaigns[c].status = "PAUSED"
    /\ \E date \in Int :
          /\ OnTime(date)
          /\ campaigns'[c] =
                [campaigns[c] EXCEPT !.status = "ACTIVE", !.anchor = Larger(campaigns[c].anchor, date)]
    /\ charged'[c] = charged[c] /\ live'[c] = live[c] \cup {today}

StopsRow(c) ==
    /\ "stop" \in Calls
    /\ \/ /\ campaigns[c].status = "ACTIVE"
          /\ \E date \in Int : OnTime(date) /\ Writes(c, "ENDED", FoldSpend(campaigns[c], date))
       \/ campaigns[c].status = "PAUSED" /\ Writes(c, "ENDED", campaigns[c])
    /\ charged'[c] = charged[c] /\ live'[c] = live[c]

RaisesRow(c) ==
    /\ "apply" \in Calls
    /\ \E r \in Requests :
          /\ pc[r] = "applyCharge" /\ job[r].id = c /\ job[r].suggestion \in SuggestionIds
          /\ charged'[c] = charged[c] + job[r].delta
          /\ campaigns'[c] = [campaigns[c] EXCEPT !.budget = suggestions[job[r].suggestion].budget]
    /\ campaigns[c].status = "ACTIVE"
    /\ live'[c] = live[c]

KeepsRow(c) == campaigns'[c] = campaigns[c] /\ charged'[c] = charged[c] /\ live'[c] = live[c]

RowMoves(c) ==
    \/ KeepsRow(c) \/ CreatesRow(c) \/ SettlesRow(c) \/ PausesRow(c) \/ ResumesRow(c) \/ StopsRow(c)
    \/ RaisesRow(c)

LEMMA RowsMove ==
    ASSUME CampaignsAssumption, TypeOK, Known, Fresh, Dated, Step
    PROVE  \/ NextDay
           \/ today' = today /\ \A c \in CampaignIds : RowMoves(c)
<1> DEFINE Moves == today' = today /\ \A c \in CampaignIds : RowMoves(c)
<1>0. \A r \in Requests :
         /\ job[r].date \in Int
         /\ pc[r] \in {"create", "pause", "resume", "stop"} => OnTime(job[r].date)
         /\ pc[r] \in {"read", "applySettle"} => job[r].date <= today
    BY DEF TypeOK, Job, Dated, DatedJob, Dating, OnTime
<1>1. ASSUME NEW r \in Requests, CreateCommit(r) PROVE Moves
  <2> DEFINE c == job[r].id
  <2>1. c \in CampaignIds /\ job[r].date \in Int /\ OnTime(job[r].date)
    BY <1>0, <1>1 DEF CreateCommit, Known, AllCalls
  <2>2. PICK budget \in Budgets, days \in Durations :
           /\ campaigns' = [campaigns EXCEPT ![c] =
                    [status |-> "ACTIVE", reel |-> job[r].copy.reel, budget |-> budget,
                     end |-> job[r].date + days - 1, anchor |-> job[r].date, accrued |-> 0]]
           /\ charged' = [charged EXCEPT ![c] = budget * days]
    BY <1>1 DEF CreateCommit
  <2>3. budget \in Nat \ {0} /\ days \in Nat \ {0}
    BY DEF CampaignsAssumption
  <2>4. live' = [live EXCEPT ![c] = {today}] /\ campaigns[c].status = "NONE" /\ today' = today
    BY <1>1 DEF CreateCommit
  <2>5. CreatesRow(c)
    <3>1. charged'[c] = budget * days /\ live'[c] = {today}
      BY <2>1, <2>2, <2>4 DEF TypeOK
    <3>2. /\ campaigns'[c].status = "ACTIVE" /\ campaigns'[c].budget = budget
          /\ campaigns'[c].end = job[r].date + days - 1 /\ campaigns'[c].anchor = job[r].date
          /\ campaigns'[c].accrued = 0
      BY <2>1, <2>2 DEF TypeOK
    <3> HIDE DEF c
    <3>3. QED
      BY <2>1, <2>3, <2>4, <3>1, <3>2 DEF CreatesRow
  <2>6. \A d \in CampaignIds \ {c} : KeepsRow(d)
    BY <2>1, <2>2, <2>4 DEF KeepsRow, TypeOK
  <2>7. QED
    BY <2>4, <2>5, <2>6 DEF RowMoves
<1>2. ASSUME NEW r \in Requests, Pause(r) PROVE Moves
  <2> DEFINE c == job[r].id
  <2>1. /\ c \in CampaignIds /\ "pause" \in Calls /\ job[r].copy = campaigns[c]
        /\ campaigns[c].status = "ACTIVE"
    BY <1>2 DEF Pause, Known, AllCalls, Fresh, Admits
  <2>2. campaigns[c] \in Campaign /\ job[r].date \in Int /\ OnTime(job[r].date)
    BY <1>0, <1>2, <2>1 DEF TypeOK, Pause
  <2>3. /\ campaigns' = [campaigns EXCEPT ![c] =
                [campaigns[c] EXCEPT !.status = "PAUSED",
                    !.accrued = FoldSpend(campaigns[c], job[r].date).accrued,
                    !.anchor = FoldSpend(campaigns[c], job[r].date).anchor]]
        /\ UNCHANGED <<charged, live, today>>
    BY <1>2, <2>1 DEF Pause, Write, history
  <2>4. Writes(c, "PAUSED", FoldSpend(campaigns[c], job[r].date))
    BY <2>1, <2>2, <2>3 DEF Writes, TypeOK, Campaign
  <2>5. PausesRow(c)
    BY <2>1, <2>2, <2>3, <2>4 DEF PausesRow
  <2>6. \A d \in CampaignIds \ {c} : KeepsRow(d)
    BY <2>1, <2>3 DEF KeepsRow, TypeOK
  <2>7. QED
    BY <2>3, <2>5, <2>6 DEF RowMoves
<1>3. ASSUME NEW r \in Requests, Resume(r) PROVE Moves
  <2> DEFINE c == job[r].id
  <2>1. /\ c \in CampaignIds /\ "resume" \in Calls /\ job[r].copy = campaigns[c]
        /\ campaigns[c].status = "PAUSED"
    BY <1>3 DEF Resume, Known, AllCalls, Fresh, Admits
  <2>2. /\ campaigns' = [campaigns EXCEPT ![c] =
                [campaigns[c] EXCEPT !.status = "ACTIVE", !.anchor = Larger(campaigns[c].anchor, job[r].date)]]
        /\ live' = [live EXCEPT ![c] = @ \cup {today}]
        /\ UNCHANGED <<charged, today>>
    BY <1>3, <2>1 DEF Resume
  <2>3. ResumesRow(c)
    <3>1. job[r].date \in Int /\ OnTime(job[r].date)
      BY <1>0, <1>3 DEF Resume
    <3>2. QED
      BY <2>1, <2>2, <3>1 DEF ResumesRow, TypeOK
  <2>4. \A d \in CampaignIds \ {c} : KeepsRow(d)
    BY <2>1, <2>2 DEF KeepsRow, TypeOK
  <2>5. QED
    BY <2>2, <2>3, <2>4 DEF RowMoves
<1>4. ASSUME NEW r \in Requests, Stop(r) PROVE Moves
  <2> DEFINE c == job[r].id
  <2> DEFINE F == IF campaigns[c].status = "ACTIVE" THEN FoldSpend(campaigns[c], job[r].date) ELSE campaigns[c]
  <2>1. /\ c \in CampaignIds /\ "stop" \in Calls /\ job[r].copy = campaigns[c]
        /\ campaigns[c].status \in {"ACTIVE", "PAUSED"}
    BY <1>4 DEF Stop, Known, AllCalls, Fresh, Admits
  <2>2. campaigns[c] \in Campaign /\ job[r].date \in Int /\ OnTime(job[r].date)
    BY <1>0, <1>4, <2>1 DEF TypeOK, Stop
  <2>3. /\ campaigns' = [campaigns EXCEPT ![c] =
                [campaigns[c] EXCEPT !.status = "ENDED", !.accrued = F.accrued, !.anchor = F.anchor]]
        /\ UNCHANGED <<charged, live, today>>
    BY <1>4, <2>1 DEF Stop, Write, history
  <2>4. Writes(c, "ENDED", F)
    <3> HIDE DEF F
    <3>1. QED
      BY <2>1, <2>2, <2>3 DEF Writes, TypeOK, Campaign
  <2>5. StopsRow(c)
    BY <2>1, <2>2, <2>3, <2>4 DEF StopsRow
  <2>6. \A d \in CampaignIds \ {c} : KeepsRow(d)
    <3> HIDE DEF F
    <3>1. QED
      BY <2>1, <2>3 DEF KeepsRow, TypeOK
  <2>7. QED
    BY <2>3, <2>5, <2>6 DEF RowMoves
<1>5. ASSUME NEW r \in Requests, Settle(r) PROVE Moves
  <2> DEFINE c == job[r].id
  <2>1. /\ c \in CampaignIds /\ job[r].copy = campaigns[c] /\ campaigns[c].status = "ACTIVE"
        /\ campaigns[c] \in Campaign /\ job[r].date \in Int /\ job[r].date <= today
    BY <1>0, <1>5 DEF Settle, Known, Fresh, TypeOK
  <2>2. SettledRow(campaigns[c], campaigns[c], job[r].date) = Settled(campaigns[c], job[r].date)
    BY <2>1, SettledRowFresh
  <2>3. /\ campaigns' = [campaigns EXCEPT ![c] = Settled(campaigns[c], job[r].date)]
        /\ UNCHANGED <<charged, live, today>>
    BY <1>5, <2>1, <2>2 DEF Settle, history
  <2>4. SettlesRow(c)
    BY <2>1, <2>3 DEF SettlesRow, TypeOK
  <2>5. \A d \in CampaignIds \ {c} : KeepsRow(d)
    BY <2>1, <2>3 DEF KeepsRow, TypeOK
  <2>6. QED
    BY <2>3, <2>4, <2>5 DEF RowMoves
<1>6. ASSUME NEW r \in Requests, GenerateList(r) PROVE Moves
  <2>1. SUFFICES ASSUME NEW c \in CampaignIds PROVE KeepsRow(c) \/ SettlesRow(c)
    BY <1>6 DEF GenerateList, RowMoves
  <2>2. UNCHANGED <<charged, live>> /\ today \in Int /\ today <= today
    BY <1>6 DEF GenerateList, history, TypeOK
  <2>3. CASE campaigns[c].status = "ACTIVE"
    <3>1. SettledRow(campaigns[c], campaigns[c], today) = Settled(campaigns[c], today)
      BY <2>3, SettledRowFresh DEF TypeOK
    <3>2. QED
      BY <1>6, <2>2, <2>3, <3>1 DEF GenerateList, SettlesRow
  <2>4. CASE campaigns[c].status # "ACTIVE"
    BY <1>6, <2>2, <2>4 DEF GenerateList, KeepsRow
  <2>5. QED
    BY <2>3, <2>4
<1>7. ASSUME NEW r \in Requests, ApplySettle(r) PROVE Moves
  <2> DEFINE c == job[r].id
  <2>1. /\ c \in CampaignIds /\ job[r].copy = campaigns[c] /\ campaigns[c].status = "ACTIVE"
        /\ campaigns[c] \in Campaign /\ job[r].date \in Int /\ job[r].date <= today
    BY <1>0, <1>7 DEF ApplySettle, Known, Fresh, TypeOK, Applying
  <2>2. SettledRow(campaigns[c], campaigns[c], job[r].date) = Settled(campaigns[c], job[r].date)
    BY <2>1, SettledRowFresh
  <2>3. campaigns' = [campaigns EXCEPT ![c] = Settled(campaigns[c], job[r].date)] \/ campaigns' = campaigns
    BY <1>7, <2>1, <2>2 DEF ApplySettle
  <2>4. UNCHANGED <<charged, live, today>>
    BY <1>7 DEF ApplySettle, history
  <2>5. SettlesRow(c) \/ KeepsRow(c)
    BY <2>1, <2>3, <2>4 DEF SettlesRow, KeepsRow, TypeOK
  <2>6. \A d \in CampaignIds \ {c} : KeepsRow(d)
    BY <2>1, <2>3, <2>4 DEF KeepsRow, TypeOK
  <2>7. QED
    BY <2>4, <2>5, <2>6 DEF RowMoves
<1>8. ASSUME NEW r \in Requests, ApplyCharge(r) PROVE Moves
  <2> DEFINE c == job[r].id
  <2> DEFINE budget == suggestions[job[r].suggestion].budget
  <2>1. /\ c \in CampaignIds /\ campaigns[c].status = "ACTIVE" /\ pc[r] = "applyCharge"
        /\ "apply" \in Calls /\ job[r].suggestion \in SuggestionIds
    BY <1>8 DEF ApplyCharge, Known, Fresh, Applying
  <2>2. /\ campaigns' = [campaigns EXCEPT ![c] = [campaigns[c] EXCEPT !.budget = budget]]
        /\ charged' = [charged EXCEPT ![c] = charged[c] + job[r].delta]
        /\ UNCHANGED <<live, today>>
    BY <1>8 DEF ApplyCharge
  <2>3. /\ campaigns'[c] = [campaigns[c] EXCEPT !.budget = budget]
        /\ charged'[c] = charged[c] + job[r].delta
        /\ live'[c] = live[c]
    BY <2>1, <2>2 DEF TypeOK
  <2>4. RaisesRow(c)
    BY <2>1, <2>3 DEF RaisesRow
  <2>5. \A d \in CampaignIds \ {c} : KeepsRow(d)
    BY <2>1, <2>2 DEF KeepsRow, TypeOK
  <2>6. QED
    BY <2>2, <2>4, <2>5 DEF RowMoves
<1>9. ASSUME UNCHANGED <<campaigns, charged, live, today>> PROVE Moves
    BY <1>9 DEF RowMoves, KeepsRow
<1>10. QED
    BY <1>1, <1>2, <1>3, <1>4, <1>5, <1>6, <1>7, <1>8, <1>9
    DEF Step, Handle, db, history, GenerateCreate, ApplyLoad, ApplyMark, Dismiss, Abort, GenerateCheck, CreateCheck,
        Load, Read, LoadSuggestion

-----------------------------------------------------------------------------
(* Rows are never deleted, and a suggestion stays about its campaign. *)

LEMMA RowsStay ==
    ASSUME CampaignsAssumption, TypeOK, Known, Step
    PROVE  \A c \in CampaignIds : campaigns[c].status # "NONE" => campaigns'[c].status # "NONE"
<1> SUFFICES ASSUME NEW c \in CampaignIds, campaigns[c].status # "NONE"
             PROVE  campaigns'[c].status # "NONE"
    OBVIOUS
<1>0. campaigns[c] \in Campaign
    BY DEF TypeOK
<1>1. ASSUME NEW r \in Requests, CreateCommit(r) PROVE campaigns'[c].status # "NONE"
    BY <1>1 DEF CreateCommit, TypeOK
<1>2. ASSUME NEW r \in Requests, Pause(r) \/ Stop(r) PROVE campaigns'[c].status # "NONE"
  <2>1. \E status \in {"PAUSED", "ENDED"} : \E folded : Write(job[r].id, status, folded)
    BY <1>2 DEF Pause, Stop
  <2>2. PICK status \in {"PAUSED", "ENDED"} : \E folded :
           campaigns' = [campaigns EXCEPT ![job[r].id] =
              [campaigns[job[r].id] EXCEPT !.status = status, !.accrued = folded.accrued, !.anchor = folded.anchor]]
    BY <2>1 DEF Write
  <2>3. CASE c = job[r].id
    BY <1>0, <2>2, <2>3 DEF TypeOK, Campaign
  <2>4. CASE c # job[r].id
    BY <2>2, <2>4 DEF TypeOK
  <2>5. QED
    BY <2>3, <2>4
<1>3. ASSUME NEW r \in Requests, Resume(r) PROVE campaigns'[c].status # "NONE"
    BY <1>0, <1>3 DEF Resume, TypeOK, Campaign
<1>4. ASSUME NEW r \in Requests, Settle(r) \/ GenerateList(r) \/ ApplySettle(r)
      PROVE  campaigns'[c].status # "NONE"
  <2>1. \A copy \in Campaign, date \in Int :
           SettledRow(copy, campaigns[c], date).status \in {campaigns[c].status, "ENDED"}
    BY <1>0, SettledRowType
  <2>2. job[r].copy \in Campaign /\ job[r].date \in Int /\ today \in Int
    BY DEF TypeOK, Job
  <2>3. CASE Settle(r)
    BY <1>0, <2>1, <2>2, <2>3 DEF Settle, TypeOK
  <2>4. CASE GenerateList(r)
    BY <1>0, <2>1, <2>2, <2>4 DEF GenerateList, TypeOK
  <2>5. CASE ApplySettle(r)
    <3>1. \/ campaigns' = campaigns
          \/ campaigns' = [campaigns EXCEPT ![job[r].id] = SettledRow(job[r].copy, campaigns[job[r].id], job[r].date)]
      BY <2>5 DEF ApplySettle
    <3>2. CASE campaigns' = campaigns
      BY <3>2
    <3>3. CASE campaigns' = [campaigns EXCEPT ![job[r].id] = SettledRow(job[r].copy, campaigns[job[r].id], job[r].date)]
      <4>1. \/ campaigns'[c] = campaigns[c]
            \/ campaigns'[c] = SettledRow(job[r].copy, campaigns[c], job[r].date)
        BY <3>3 DEF TypeOK
      <4>2. QED
        BY <2>1, <2>2, <4>1
    <3>4. QED
      BY <3>1, <3>2, <3>3
  <2>6. QED
    BY <1>4, <2>3, <2>4, <2>5
<1>5. ASSUME NEW r \in Requests, ApplyCharge(r) PROVE campaigns'[c].status # "NONE"
    BY <1>0, <1>5 DEF ApplyCharge, TypeOK, Campaign
<1>6. CASE UNCHANGED campaigns
    BY <1>6
<1>7. QED
    BY <1>1, <1>2, <1>3, <1>4, <1>5, <1>6
    DEF Step, Handle, db, NextDay, GenerateCreate, ApplyLoad, ApplyMark, Dismiss, Abort, GenerateCheck,
        CreateCheck, Load, Read, LoadSuggestion

LEMMA SuggestionsStay ==
    ASSUME TypeOK, Known, Step
    PROVE  \A s \in SuggestionIds :
              suggestions[s].status # "NONE" =>
                 /\ suggestions'[s].status # "NONE"
                 /\ suggestions'[s].campaign = suggestions[s].campaign
                 /\ suggestions'[s].budget = suggestions[s].budget
<1> SUFFICES ASSUME NEW s \in SuggestionIds, suggestions[s].status # "NONE"
             PROVE  /\ suggestions'[s].status # "NONE"
                    /\ suggestions'[s].campaign = suggestions[s].campaign
                    /\ suggestions'[s].budget = suggestions[s].budget
    OBVIOUS
<1>1. ASSUME NEW r \in Requests, GenerateCreate(r) PROVE suggestions'[s] = suggestions[s]
    BY <1>1 DEF GenerateCreate, TypeOK
<1>2. ASSUME NEW r \in Requests, ApplyMark(r) \/ Dismiss(r)
      PROVE  /\ suggestions'[s].status # "NONE"
             /\ suggestions'[s].campaign = suggestions[s].campaign
             /\ suggestions'[s].budget = suggestions[s].budget
    BY <1>2 DEF ApplyMark, Dismiss, TypeOK, Suggestion
<1>3. QED
    BY <1>1, <1>2
    DEF Step, Handle, db, NextDay, CreateCommit, Pause, Resume, Stop, Settle, GenerateList, ApplyLoad, ApplySettle,
        ApplyCharge, Abort, GenerateCheck, CreateCheck, Load, Read, LoadSuggestion

LEMMA SuggestionsKnown ==
    ASSUME CampaignsAssumption, TypeOK, Known, Step
    PROVE  \A s \in SuggestionIds : suggestions'[s].status # "NONE" =>
              suggestions'[s].campaign \in CampaignIds /\ campaigns'[suggestions'[s].campaign].status # "NONE"
<1> SUFFICES ASSUME NEW s \in SuggestionIds, suggestions'[s].status # "NONE"
             PROVE  suggestions'[s].campaign \in CampaignIds /\ campaigns'[suggestions'[s].campaign].status # "NONE"
    OBVIOUS
<1>1. CASE suggestions[s].status # "NONE"
    BY <1>1, RowsStay, SuggestionsStay DEF Known
<1>2. CASE suggestions[s].status = "NONE"
  <2>1. suggestions'[s] # suggestions[s]
    BY <1>2
  <2>2. ASSUME NEW r \in Requests, GenerateCreate(r)
        PROVE  suggestions'[s].campaign \in CampaignIds /\ campaigns[suggestions'[s].campaign].status # "NONE"
               /\ campaigns' = campaigns
    BY <2>1, <2>2 DEF GenerateCreate, TypeOK
  <2>3. ASSUME NEW r \in Requests, ApplyMark(r) \/ Dismiss(r) PROVE FALSE
    <3>1. job[r].suggestion # s
      BY <1>2, <2>3 DEF ApplyMark, Dismiss, Known, Applying
    <3>2. QED
      BY <2>1, <2>3, <3>1 DEF ApplyMark, Dismiss, TypeOK
  <2>4. QED
    BY <2>1, <2>2, <2>3
    DEF Step, Handle, db, NextDay, CreateCommit, Pause, Resume, Stop, Settle, GenerateList, ApplyLoad, ApplySettle,
        ApplyCharge, Abort, GenerateCheck, CreateCheck, Load, Read, LoadSuggestion
<1>3. QED
    BY <1>1, <1>2

(* What Known says of one request. *)
KnownJob(r) ==
    /\ pc[r] \in AllCalls => pc[r] \in Calls
    /\ pc[r] \in Applying => "apply" \in Calls
    /\ pc[r] \in {"create", "pause", "resume", "stop", "read"} => job[r].id \in CampaignIds
    /\ pc[r] \in Applying \cup {"dismiss"} =>
          /\ job[r].suggestion \in SuggestionIds
          /\ suggestions[job[r].suggestion].status # "NONE"
          /\ job[r].id = suggestions[job[r].suggestion].campaign

LEMMA KnownJobs == Known => \A r \in Requests : KnownJob(r)
BY DEF Known, KnownJob

(* The requests that do not move stay about their rows; one that ends is about none. *)
LEMMA JobStays ==
    ASSUME TypeOK, Known, Step, NEW r \in Requests, pc'[r] = pc[r], job'[r] = job[r]
    PROVE  KnownJob(r)'
BY KnownJobs, SuggestionsStay DEF KnownJob

LEMMA JobMoves ==
    ASSUME TypeOK, Known, Step, NEW r \in Requests,
           \/ pc'[r] \in {"idle", "generateCreate"}
           \/ /\ pc[r] \in Applying /\ pc'[r] \in {"applySettle", "applyCharge", "applyMark"}
              /\ job'[r].id = job[r].id /\ job'[r].suggestion = job[r].suggestion
    PROVE  KnownJob(r)'
<1>1. CASE pc'[r] \in {"idle", "generateCreate"}
    BY <1>1 DEF KnownJob, AllCalls, Applying
<1>2. CASE ~ (pc'[r] \in {"idle", "generateCreate"})
    BY <1>2, KnownJobs, SuggestionsStay DEF KnownJob, Applying, AllCalls
<1>3. QED
    BY <1>1, <1>2

LEMMA StepKnown ==
    ASSUME CampaignsAssumption, TypeOK, Known, Step
    PROVE  Known'
<1> SUFFICES \A r \in Requests : KnownJob(r)'
    BY SuggestionsKnown DEF Known, KnownJob
<1>1. CASE NextDay
    BY <1>1, JobStays DEF NextDay
<1>2. ASSUME NEW r \in Requests, Finish(r) PROVE \A q \in Requests : KnownJob(q)'
    BY <1>2, FinishTypes, JobStays, JobMoves
<1>3. ASSUME NEW r \in Requests, GenerateList(r) PROVE \A q \in Requests : KnownJob(q)'
    BY <1>3, JobStays, JobMoves DEF GenerateList, Goto, TypeOK
<1>4. ASSUME NEW r \in Requests, ApplyLoad(r) PROVE \A q \in Requests : KnownJob(q)'
  <2>1. CASE Finish(r)
    BY <1>2, <2>1
  <2>2. CASE ~ Finish(r)
    <3>1. /\ pc'[r] \in {"applyMark", "applySettle"} /\ pc[r] = "apply"
          /\ job'[r].id = job[r].id /\ job'[r].suggestion = job[r].suggestion
          /\ \A q \in Requests \ {r} : pc'[q] = pc[q] /\ job'[q] = job[q]
      BY <1>4, <2>2 DEF ApplyLoad, Goto, TypeOK, Job
    <3>2. QED
      BY <3>1, JobStays, JobMoves DEF Applying
  <2>3. QED
    BY <2>1, <2>2
<1>5. ASSUME NEW r \in Requests, ApplySettle(r) PROVE \A q \in Requests : KnownJob(q)'
  <2>1. CASE Finish(r)
    BY <1>2, <2>1
  <2>2. CASE ~ Finish(r)
    <3>1. \E delta : job' = [job EXCEPT ![r].delta = delta]
      BY <1>5, <2>2 DEF ApplySettle
    <3>2. pc[r] = "applySettle" /\ Goto(r, "applyCharge")
      BY <1>5, <2>2 DEF ApplySettle
    <3>3. /\ pc'[r] = "applyCharge" /\ job'[r].id = job[r].id /\ job'[r].suggestion = job[r].suggestion
          /\ \A q \in Requests \ {r} : pc'[q] = pc[q] /\ job'[q] = job[q]
      BY <3>1, <3>2 DEF Goto, TypeOK, Job
    <3>4. QED
      BY <3>2, <3>3, JobStays, JobMoves DEF Applying
  <2>3. QED
    BY <2>1, <2>2
<1>6. ASSUME NEW r \in Requests, ApplyCharge(r) PROVE \A q \in Requests : KnownJob(q)'
  <2>1. pc[r] = "applyCharge" /\ pc'[r] = "applyMark" /\ job' = job /\ \A q \in Requests \ {r} : pc'[q] = pc[q]
    BY <1>6 DEF ApplyCharge, Goto, TypeOK
  <2>2. QED
    BY <2>1, JobStays, JobMoves DEF Applying
<1>7. ASSUME NEW r \in Requests, NEW call, NEW j \in Job, Start(r, call, j), KnownJob(r)'
      PROVE  \A q \in Requests : KnownJob(q)'
    BY <1>7, StartTypes, JobStays
<1>8. ASSUME NEW r \in Requests, GenerateCheck(r) PROVE \A q \in Requests : KnownJob(q)'
  <2>1. [NoJob EXCEPT !.date = today] \in Job
    BY NothingTypes DEF Job, TypeOK
  <2>2. pc'[r] = "generate" /\ "generate" \in Calls
    BY <1>8, <2>1, StartTypes DEF GenerateCheck
  <2>3. KnownJob(r)'
    BY <2>2 DEF KnownJob, Applying
  <2>4. QED
    BY <1>7, <1>8, <2>1, <2>3 DEF GenerateCheck
<1>9. ASSUME NEW r \in Requests, NEW c \in CampaignIds, NEW j \in Job, j.id = c,
             NEW call \in {"create", "pause", "resume", "stop", "read"}, Start(r, call, j)
      PROVE  \A q \in Requests : KnownJob(q)'
  <2>1. pc'[r] = call /\ call \in Calls /\ job'[r].id = c
    BY <1>9, StartTypes
  <2>2. KnownJob(r)'
    BY <2>1 DEF KnownJob, Applying
  <2>3. QED
    BY <1>7, <1>9, <2>2
<1>10. ASSUME NEW r \in Requests, NEW c \in CampaignIds, NEW reel \in Reels, CreateCheck(r, c, reel)
       PROVE  \A q \in Requests : KnownJob(q)'
  <2> DEFINE j == [NoJob EXCEPT !.id = c, !.copy.reel = reel, !.date = today]
  <2>1. j \in Job /\ j.id = c
    BY JobTypes
  <2>2. Start(r, "create", j)
    BY <1>10 DEF CreateCheck
  <2> HIDE DEF j
  <2>3. QED
    BY <1>9, <2>1, <2>2
<1>11. ASSUME NEW r \in Requests, NEW c \in CampaignIds, NEW call, Load(r, c, call)
       PROVE  \A q \in Requests : KnownJob(q)'
  <2> DEFINE j == [NoJob EXCEPT !.id = c, !.copy = campaigns[c], !.date = today]
  <2>1. j \in Job /\ j.id = c
    BY JobTypes
  <2>2. Start(r, call, j)
    BY <1>11 DEF Load
  <2>3. call \in {"pause", "resume", "stop"}
    BY <1>11 DEF Load, Admits
  <2> HIDE DEF j
  <2>4. QED
    BY <1>9, <2>1, <2>2, <2>3
<1>12. ASSUME NEW r \in Requests, NEW c \in CampaignIds, Read(r, c)
       PROVE  \A q \in Requests : KnownJob(q)'
  <2> DEFINE j == [NoJob EXCEPT !.id = c, !.copy = campaigns[c], !.date = today]
  <2>1. j \in Job /\ j.id = c
    BY JobTypes
  <2>2. Start(r, "read", j)
    BY <1>12 DEF Read
  <2> HIDE DEF j
  <2>3. QED
    BY <1>9, <2>1, <2>2
<1>13. ASSUME NEW r \in Requests, NEW s \in SuggestionIds, NEW call, LoadSuggestion(r, s, call)
       PROVE  \A q \in Requests : KnownJob(q)'
  <2> DEFINE j == [NoJob EXCEPT !.suggestion = s, !.id = suggestions[s].campaign]
  <2>1. j \in Job /\ j.suggestion = s /\ j.id = suggestions[s].campaign
    BY NothingTypes DEF Job, TypeOK, Suggestion
  <2>2. /\ Start(r, call, j) /\ call \in {"apply", "dismiss"} /\ suggestions' = suggestions
        /\ suggestions[s].status # "NONE"
    BY <1>13 DEF LoadSuggestion, db
  <2> HIDE DEF j
  <2>3. pc'[r] = call /\ call \in Calls /\ job'[r] = j
    BY <2>1, <2>2, StartTypes
  <2>4. KnownJob(r)'
    BY <2>1, <2>2, <2>3 DEF KnownJob, Applying
  <2>5. QED
    BY <1>7, <2>1, <2>2, <2>4
<1>14. QED
    BY <1>1, <1>2, <1>3, <1>4, <1>5, <1>6, <1>8, <1>10, <1>11, <1>12, <1>13
    DEF Step, Handle, CreateCommit, Pause, Resume, Stop, Settle, GenerateCreate, ApplyMark, Dismiss, Abort

-----------------------------------------------------------------------------
(* The dates requests have taken are today's, until midnight overtakes one. *)

LEMMA StepDated ==
    ASSUME CampaignsAssumption, TypeOK, Known, Dated, Next
    PROVE  Dated'
<1> SUFFICES ASSUME NEW q \in Requests PROVE DatedJob(q)'
    BY DEF Dated
<1>0. Step /\ (~ crossed' => ~ crossed) /\ today \in Int
    BY DEF Next, Watch, TypeOK
<1>1. CASE NextDay
  <2>1. pc'[q] = pc[q] /\ job'[q] = job[q] /\ today' = today + 1 /\ DatedJob(q)
    BY <1>1 DEF NextDay, Dated
  <2>2. pc[q] \in Dating => crossed'
    <3>1. today' # today
      BY <1>0, <2>1
    <3>2. QED
      BY <3>1 DEF Next, Watch
  <2>3. job[q].date \in Int
    BY DEF TypeOK, Job
  <2>4. QED
    BY <1>0, <2>1, <2>2, <2>3 DEF DatedJob
<1>2. ASSUME today' = today, pc'[q] = pc[q], job'[q] = job[q] PROVE DatedJob(q)'
    BY <1>0, <1>2 DEF DatedJob, Dated
<1>3. ASSUME pc'[q] \notin Dating \cup {"read"} PROVE DatedJob(q)'
    BY <1>3 DEF DatedJob
<1>4. ASSUME today' = today, job'[q].date = today PROVE DatedJob(q)'
    BY <1>0, <1>4 DEF DatedJob
<1>5. ASSUME NEW r \in Requests, Finish(r), today' = today PROVE DatedJob(q)'
    BY <1>2, <1>3, <1>5, FinishTypes DEF Dating
<1>6. ASSUME NEW r \in Requests, GenerateList(r) \/ ApplyCharge(r) PROVE DatedJob(q)'
  <2>1. /\ today' = today /\ job' = job /\ pc'[r] \in {"generateCreate", "applyMark"}
        /\ \A p \in Requests \ {r} : pc'[p] = pc[p]
    BY <1>6 DEF GenerateList, ApplyCharge, Goto, TypeOK
  <2>2. QED
    BY <1>2, <1>3, <2>1 DEF Dating
<1>7. ASSUME NEW r \in Requests, ApplyLoad(r), ~ Finish(r) PROVE DatedJob(q)'
  <2>1. today' = today
    BY <1>7 DEF ApplyLoad
  <2>2. CASE Goto(r, "applyMark") /\ UNCHANGED job
    BY <1>2, <1>3, <2>1, <2>2 DEF Goto, TypeOK, Dating
  <2>3. CASE Goto(r, "applySettle") /\ \E copy \in Campaign : job' = [job EXCEPT ![r].copy = copy, ![r].date = today]
    <3>1. job'[r].date = today /\ \A p \in Requests \ {r} : pc'[p] = pc[p] /\ job'[p] = job[p]
      BY <2>3 DEF Goto, TypeOK, Job
    <3>2. QED
      BY <1>2, <1>4, <2>1, <3>1
  <2>4. campaigns[job[r].id] \in Campaign
    BY <1>7 DEF ApplyLoad, Known, Applying, TypeOK
  <2>5. QED
    BY <1>7, <2>2, <2>3, <2>4 DEF ApplyLoad
<1>8. ASSUME NEW r \in Requests, ApplySettle(r), ~ Finish(r) PROVE DatedJob(q)'
  <2>1. today' = today /\ Goto(r, "applyCharge") /\ \E delta : job' = [job EXCEPT ![r].delta = delta]
    BY <1>8 DEF ApplySettle
  <2>2. pc'[r] = "applyCharge" /\ \A p \in Requests \ {r} : pc'[p] = pc[p] /\ job'[p] = job[p]
    BY <2>1 DEF Goto, TypeOK
  <2>3. QED
    BY <1>2, <1>3, <2>1, <2>2 DEF Dating
<1>9. ASSUME NEW r \in Requests, NEW call, NEW j \in Job, Start(r, call, j), today' = today,
             call \in {"generate", "apply", "dismiss"} \/ j.date = today
      PROVE  DatedJob(q)'
    BY <1>2, <1>3, <1>4, <1>9, StartTypes DEF Dating
<1>10. ASSUME NEW r \in Requests, GenerateCheck(r) PROVE DatedJob(q)'
  <2>1. [NoJob EXCEPT !.date = today] \in Job
    BY NothingTypes DEF Job, TypeOK
  <2>2. QED
    BY <1>9, <1>10, <2>1 DEF GenerateCheck
<1>11. ASSUME NEW r \in Requests, NEW c \in CampaignIds, NEW reel \in Reels, CreateCheck(r, c, reel)
       PROVE  DatedJob(q)'
    BY <1>9, <1>11, JobTypes DEF CreateCheck
<1>12. ASSUME NEW r \in Requests, NEW c \in CampaignIds, NEW call, Load(r, c, call) PROVE DatedJob(q)'
    BY <1>9, <1>12, JobTypes DEF Load
<1>13. ASSUME NEW r \in Requests, NEW c \in CampaignIds, Read(r, c) PROVE DatedJob(q)'
    BY <1>9, <1>13, JobTypes DEF Read
<1>14. ASSUME NEW r \in Requests, NEW s \in SuggestionIds, NEW call, LoadSuggestion(r, s, call)
       PROVE  DatedJob(q)'
  <2>1. [NoJob EXCEPT !.suggestion = s, !.id = suggestions[s].campaign] \in Job
    BY NothingTypes DEF Job, TypeOK, Suggestion
  <2>2. QED
    BY <1>9, <1>14, <2>1 DEF LoadSuggestion
<1>15. QED
    BY <1>0, <1>1, <1>5, <1>6, <1>7, <1>8, <1>10, <1>11, <1>12, <1>13, <1>14
    DEF Step, Handle, CreateCommit, Pause, Resume, Stop, Settle, GenerateCreate, ApplyLoad, ApplySettle, ApplyMark,
        Dismiss, Abort

-----------------------------------------------------------------------------
(* What a request has read still holds while it is alone. *)

FreshJob(r) ==
    /\ pc[r] \in {"pause", "resume", "stop"} =>
          job[r].copy = campaigns[job[r].id] /\ Admits(pc[r], campaigns[job[r].id].status)
    /\ pc[r] \in {"read", "applySettle"} => job[r].copy = campaigns[job[r].id]
    /\ pc[r] \in {"read", "applySettle", "applyCharge"} => campaigns[job[r].id].status = "ACTIVE"
    /\ pc[r] \in {"applySettle", "applyCharge"} => Raises(job[r].suggestion, job[r].id)

LEMMA FreshJobs == Fresh <=> \A r \in Requests : FreshJob(r)
BY DEF Fresh, FreshJob

LEMMA FreshStays ==
    ASSUME Fresh, UNCHANGED <<campaigns, suggestions>>, NEW r \in Requests, pc'[r] = pc[r], job'[r] = job[r]
    PROVE  FreshJob(r)'
BY FreshJobs DEF FreshJob, Raises

LEMMA NotReading ==
    ASSUME NEW r, pc'[r] \in {"idle", "generate", "generateCreate", "create", "apply", "applyMark", "dismiss"}
    PROVE  FreshJob(r)'
BY DEF FreshJob

LEMMA OthersIdle ==
    ASSUME OneAtATime, NEW r \in Requests, pc[r] # "idle",
           \A q \in Requests \ {r} : pc'[q] = pc[q]
    PROVE  \A q \in Requests \ {r} : pc'[q] = "idle" /\ FreshJob(q)'
BY NotReading DEF OneAtATime

(* Settling a campaign that has days left leaves it active, on its budget. *)
LEMMA SettlesActive ==
    ASSUME TypeOK, NEW copy \in Campaign, copy.status = "ACTIVE", copy.end - today + 1 > 0,
           NEW date \in Int, date <= today
    PROVE  /\ Settled(copy, date).status = "ACTIVE"
           /\ Settled(copy, date).budget = copy.budget /\ Settled(copy, date).end = copy.end
           /\ copy.anchor <= date => Settled(copy, date).anchor = date
<1>1. /\ copy.end \in Int /\ copy.anchor \in Int /\ today \in Int /\ date - 1 + 1 = date
    BY DEF TypeOK, Campaign
<1>2. UpTo(copy, date) = date - 1
    BY <1>1 DEF UpTo
<1>3. ~ (UpTo(copy, date) + 1 > copy.end)
    BY <1>1, <1>2
<1>4. CASE UpTo(copy, date) < copy.anchor
  <2>1. Settled(copy, date) = copy
    BY <1>4, SettledType
  <2>2. copy.anchor <= date => copy.anchor = date
    BY <1>1, <1>2, <1>4
  <2>3. QED
    BY <2>1, <2>2
<1>5. CASE UpTo(copy, date) >= copy.anchor
  <2>1. /\ Settled(copy, date).budget = copy.budget /\ Settled(copy, date).end = copy.end
        /\ Settled(copy, date).anchor = UpTo(copy, date) + 1 /\ Settled(copy, date).status = copy.status
    BY <1>3, <1>5, SettledType
  <2>2. QED
    BY <1>1, <1>2, <2>1
<1>6. QED
    BY <1>1, <1>2, <1>4, <1>5

(* The step that prices the days left. *)
LEMMA ApplySettles ==
    ASSUME TypeOK, Known, Fresh, Dated, NEW r \in Requests, ApplySettle(r), ~ Finish(r)
    PROVE  LET c == job[r].id
               s == job[r].suggestion
           IN  /\ c \in CampaignIds /\ s \in SuggestionIds /\ campaigns[c].status = "ACTIVE"
               /\ campaigns[c].end - today + 1 > 0
               /\ job[r].date \in Int /\ job[r].date <= today /\ (~ crossed => job[r].date = today)
               /\ campaigns' = [campaigns EXCEPT ![c] = Settled(campaigns[c], job[r].date)]
               /\ UNCHANGED <<suggestions, charged, today>>
               /\ pc'[r] = "applyCharge" /\ job'[r].id = c /\ job'[r].suggestion = s
               /\ job'[r].delta = (suggestions[s].budget - campaigns[c].budget) * (campaigns[c].end - today + 1)
               /\ \A q \in Requests \ {r} : pc'[q] = pc[q]
<1> DEFINE c == job[r].id
<1> DEFINE s == job[r].suggestion
<1>0. job[r].date \in Int /\ job[r].date <= today /\ (~ crossed => job[r].date = today)
    BY DEF ApplySettle, TypeOK, Job, Dated, DatedJob, Dating
<1>1. /\ c \in CampaignIds /\ s \in SuggestionIds
      /\ job[r].copy = campaigns[c] /\ campaigns[c] \in Campaign /\ campaigns[c].status = "ACTIVE"
    BY DEF ApplySettle, Known, Applying, Fresh, TypeOK
<1>2. SettledRow(campaigns[c], campaigns[c], job[r].date) = Settled(campaigns[c], job[r].date)
    BY <1>0, <1>1, SettledRowFresh
<1> DEFINE row == Settled(campaigns[c], job[r].date)
<1>3. row.end = campaigns[c].end /\ row.budget = campaigns[c].budget
    BY <1>0, <1>1, SettledType
<1> DEFINE delta == (suggestions[s].budget - row.budget) * (row.end - today + 1)
<1>4. campaigns' = [campaigns EXCEPT ![c] = Settled(campaigns[c], job[r].date)]
  <2>1. CASE Settled(campaigns[c], job[r].date) = campaigns[c]
    BY <1>1, <2>1 DEF ApplySettle, TypeOK
  <2>2. CASE Settled(campaigns[c], job[r].date) # campaigns[c]
    BY <1>1, <1>2, <2>2 DEF ApplySettle
  <2>3. QED
    BY <2>1, <2>2
<1>5. /\ ~ (row.end - today + 1 <= 0) /\ Goto(r, "applyCharge")
      /\ job' = [job EXCEPT ![r].delta = delta]
      /\ UNCHANGED <<suggestions, charged, today>>
    BY <1>1, <1>2 DEF ApplySettle, history
<1>6. /\ pc'[r] = "applyCharge" /\ job'[r].id = c /\ job'[r].suggestion = s /\ job'[r].delta = delta
      /\ \A q \in Requests \ {r} : pc'[q] = pc[q]
  <2> HIDE DEF delta
  <2>1. QED
    BY <1>5 DEF Goto, TypeOK, Job
<1>7. campaigns[c].end - today + 1 > 0
    BY <1>1, <1>3, <1>5 DEF TypeOK, Campaign
<1> HIDE DEF row
<1>8. delta = (suggestions[s].budget - campaigns[c].budget) * (campaigns[c].end - today + 1)
    BY <1>3
<1>9. QED
    BY <1>0, <1>1, <1>4, <1>5, <1>6, <1>7, <1>8

LEMMA StepFresh ==
    ASSUME CampaignsAssumption, TypeOK, Known, Fresh, Dated, OneAtATime, Step
    PROVE  Fresh'
<1> SUFFICES \A q \in Requests : FreshJob(q)'
    BY DEF Fresh, FreshJob
<1>1. CASE NextDay
    BY <1>1, FreshStays DEF NextDay, db
<1>2. ASSUME NEW r \in Requests, Finish(r), pc[r] # "idle" PROVE \A q \in Requests : FreshJob(q)'
    BY <1>2, FinishTypes, NotReading, OthersIdle
<1>3. ASSUME NEW r \in Requests, NEW step \in {"generateCreate", "applyMark"}, Goto(r, step), pc[r] # "idle"
      PROVE  \A q \in Requests : FreshJob(q)'
  <2>1. pc'[r] = step /\ \A q \in Requests \ {r} : pc'[q] = pc[q]
    BY <1>3 DEF Goto, TypeOK
  <2>2. QED
    BY <1>3, <2>1, NotReading, OthersIdle
<1>4. ASSUME NEW r \in Requests, ApplyLoad(r) PROVE \A q \in Requests : FreshJob(q)'
  <2> DEFINE c == job[r].id
  <2> DEFINE s == job[r].suggestion
  <2>1. pc[r] = "apply" /\ UNCHANGED <<campaigns, suggestions>> /\ c \in CampaignIds
    BY <1>4 DEF ApplyLoad, db, Known, Applying
  <2>2. CASE Finish(r) \/ Goto(r, "applyMark")
    BY <1>2, <1>3, <2>1, <2>2
  <2>3. CASE ~ (Finish(r) \/ Goto(r, "applyMark"))
    <3>1. /\ campaigns[c].status = "ACTIVE" /\ Raises(s, c)
          /\ Goto(r, "applySettle") /\ job' = [job EXCEPT ![r].copy = campaigns[c], ![r].date = today]
      BY <1>4, <2>3 DEF ApplyLoad
    <3>2. /\ pc'[r] = "applySettle" /\ job'[r].id = c /\ job'[r].suggestion = s
          /\ job'[r].copy = campaigns[c]
          /\ \A q \in Requests \ {r} : pc'[q] = pc[q]
      BY <3>1 DEF Goto, TypeOK, Job
    <3>3. FreshJob(r)'
      BY <2>1, <3>1, <3>2 DEF FreshJob, Raises
    <3>4. QED
      BY <2>1, <3>2, <3>3, OthersIdle
  <2>4. QED
    BY <2>2, <2>3
<1>5. ASSUME NEW r \in Requests, ApplySettle(r) PROVE \A q \in Requests : FreshJob(q)'
  <2> DEFINE c == job[r].id
  <2> DEFINE s == job[r].suggestion
  <2>1. CASE Finish(r)
    BY <1>2, <1>5, <2>1 DEF ApplySettle
  <2>2. CASE ~ Finish(r)
    <3>1. /\ c \in CampaignIds /\ campaigns[c].status = "ACTIVE" /\ campaigns[c].end - today + 1 > 0
          /\ job[r].date \in Int /\ job[r].date <= today
          /\ campaigns' = [campaigns EXCEPT ![c] = Settled(campaigns[c], job[r].date)]
          /\ UNCHANGED suggestions
          /\ pc'[r] = "applyCharge" /\ job'[r].id = c /\ job'[r].suggestion = s
          /\ \A q \in Requests \ {r} : pc'[q] = pc[q]
      BY <1>5, <2>2, ApplySettles
    <3>2. campaigns[c] \in Campaign /\ Raises(s, c) /\ pc[r] # "idle"
      BY <1>5, <3>1 DEF TypeOK, Fresh, ApplySettle
    <3>3. Settled(campaigns[c], job[r].date).status = "ACTIVE" /\ Settled(campaigns[c], job[r].date).budget = campaigns[c].budget
      BY <3>1, <3>2, SettlesActive
    <3>4. campaigns'[c].status = "ACTIVE" /\ campaigns'[c].budget = campaigns[c].budget
      BY <3>1, <3>3 DEF TypeOK
    <3>5. FreshJob(r)'
      BY <3>1, <3>2, <3>4 DEF FreshJob, Raises
    <3>6. QED
      BY <3>1, <3>2, <3>5, OthersIdle
  <2>3. QED
    BY <2>1, <2>2
<1>6. ASSUME NEW r \in Requests, NEW call, NEW j \in Job, Start(r, call, j), UNCHANGED <<campaigns, suggestions>>,
             \/ call \in {"create", "generate", "apply", "dismiss"}
             \/ call = "read" /\ j.copy = campaigns[j.id] /\ campaigns[j.id].status = "ACTIVE"
      PROVE  \A q \in Requests : FreshJob(q)'
  <2>1. /\ pc'[r] = call /\ job'[r] = j
        /\ \A q \in Requests \ {r} : pc'[q] = pc[q] /\ job'[q] = job[q]
    BY <1>6, StartTypes
  <2>2. FreshJob(r)'
    BY <1>6, <2>1 DEF FreshJob
  <2>3. QED
    BY <1>6, <2>1, <2>2, FreshStays
<1>7. ASSUME NEW r \in Requests, GenerateCheck(r) PROVE \A q \in Requests : FreshJob(q)'
  <2>1. [NoJob EXCEPT !.date = today] \in Job
    BY NothingTypes DEF Job, TypeOK
  <2>2. QED
    BY <1>6, <1>7, <2>1 DEF GenerateCheck, db
<1>8. ASSUME NEW r \in Requests, NEW c \in CampaignIds, NEW reel \in Reels, CreateCheck(r, c, reel)
      PROVE  \A q \in Requests : FreshJob(q)'
    BY <1>6, <1>8, JobTypes DEF CreateCheck, db
<1>9. ASSUME NEW r \in Requests, NEW c \in CampaignIds, NEW call, Load(r, c, call)
      PROVE  \A q \in Requests : FreshJob(q)'
  <2> DEFINE j == [NoJob EXCEPT !.id = c, !.copy = campaigns[c], !.date = today]
  <2>1. j \in Job /\ j.id = c /\ j.copy = campaigns[c]
    BY JobTypes
  <2>2. Start(r, call, j) /\ Admits(call, campaigns[c].status) /\ UNCHANGED <<campaigns, suggestions>>
    BY <1>9 DEF Load, db
  <2> HIDE DEF j
  <2>3. pc'[r] = call /\ job'[r] = j /\ \A q \in Requests \ {r} : pc'[q] = pc[q] /\ job'[q] = job[q]
    BY <2>1, <2>2, StartTypes
  <2>4. call \in {"pause", "resume", "stop"}
    BY <2>2 DEF Admits
  <2>5. FreshJob(r)'
    BY <2>1, <2>2, <2>3, <2>4 DEF FreshJob
  <2>6. QED
    BY <2>2, <2>3, <2>5, FreshStays
<1>10. ASSUME NEW r \in Requests, NEW c \in CampaignIds, Read(r, c)
       PROVE  \A q \in Requests : FreshJob(q)'
  <2> DEFINE j == [NoJob EXCEPT !.id = c, !.copy = campaigns[c], !.date = today]
  <2>1. j \in Job /\ j.id = c /\ j.copy = campaigns[c]
    BY JobTypes
  <2>2. Start(r, "read", j) /\ campaigns[c].status = "ACTIVE" /\ UNCHANGED <<campaigns, suggestions>>
    BY <1>10 DEF Read, db
  <2> HIDE DEF j
  <2>3. QED
    BY <1>6, <2>1, <2>2
<1>11. ASSUME NEW r \in Requests, NEW s \in SuggestionIds, NEW call, LoadSuggestion(r, s, call)
       PROVE  \A q \in Requests : FreshJob(q)'
  <2>1. [NoJob EXCEPT !.suggestion = s, !.id = suggestions[s].campaign] \in Job
    BY NothingTypes DEF Job, TypeOK, Suggestion
  <2>2. QED
    BY <1>6, <1>11, <2>1 DEF LoadSuggestion, db
<1>12. QED
    BY <1>1, <1>2, <1>3, <1>4, <1>5, <1>7, <1>8, <1>9, <1>10, <1>11
    DEF Step, Handle, CreateCommit, Pause, Resume, Stop, Settle, GenerateList, GenerateCreate, ApplyCharge,
        ApplyMark, Dismiss, Abort

-----------------------------------------------------------------------------
(* While requests are alone a budget only rises, and each suggestion raises one once. *)

LEMMA BudgetsRise ==
    ASSUME CampaignsAssumption, TypeOK, Known, Fresh, Dated, Step
    PROVE  \A c \in CampaignIds :
              campaigns[c].status # "NONE" => campaigns'[c].budget >= campaigns[c].budget
<1> SUFFICES ASSUME NEW c \in CampaignIds, campaigns[c].status # "NONE"
             PROVE  campaigns'[c].budget >= campaigns[c].budget
    OBVIOUS
<1>0. campaigns[c] \in Campaign /\ campaigns[c].budget \in Nat /\ today \in Int
    BY DEF TypeOK, Campaign
<1>1. CASE NextDay
    BY <1>0, <1>1 DEF NextDay, db
<1>2. CASE ~ NextDay
  <2>1. RowMoves(c)
    BY <1>2, RowsMove
  <2>2. CASE SettlesRow(c)
    <3>1. PICK date \in Int : campaigns'[c] = Settled(campaigns[c], date)
      BY <2>2 DEF SettlesRow
    <3>2. Settled(campaigns[c], date).budget = campaigns[c].budget
      BY <1>0, SettledType
    <3>3. QED
      BY <1>0, <3>1, <3>2
  <2>3. CASE KeepsRow(c) \/ PausesRow(c) \/ StopsRow(c)
    BY <1>0, <2>3 DEF KeepsRow, PausesRow, StopsRow, Writes
  <2>4. CASE ResumesRow(c)
    BY <1>0, <2>4 DEF ResumesRow, Campaign
  <2>5. CASE RaisesRow(c)
    <3>1. PICK r \in Requests :
             /\ pc[r] = "applyCharge" /\ job[r].id = c /\ job[r].suggestion \in SuggestionIds
             /\ campaigns'[c] = [campaigns[c] EXCEPT !.budget = suggestions[job[r].suggestion].budget]
      BY <2>5 DEF RaisesRow
    <3>2. suggestions[job[r].suggestion].budget > campaigns[c].budget
      BY <3>1 DEF Fresh, Raises
    <3>3. campaigns'[c].budget = suggestions[job[r].suggestion].budget /\ suggestions[job[r].suggestion].budget \in Nat
      BY <1>0, <3>1 DEF Campaign, TypeOK, Suggestion
    <3>4. QED
      BY <1>0, <3>2, <3>3
  <2>6. ~ CreatesRow(c)
    BY DEF CreatesRow
  <2>7. QED
    BY <2>1, <2>2, <2>3, <2>4, <2>5, <2>6 DEF RowMoves
<1>3. QED
    BY <1>1, <1>2

LEMMA StepRaised ==
    ASSUME CampaignsAssumption, TypeOK, Known, Fresh, Dated, Raised, Next
    PROVE  Raised'
<1>0. Step
    BY DEF Next
<1>1. \A s \in SuggestionIds : charges[s] = 1 =>
         /\ suggestions'[s].status # "NONE"
         /\ suggestions'[s].budget <= campaigns'[suggestions'[s].campaign].budget
  <2> SUFFICES ASSUME NEW s \in SuggestionIds, charges[s] = 1
               PROVE  /\ suggestions'[s].status # "NONE"
                      /\ suggestions'[s].budget <= campaigns'[suggestions'[s].campaign].budget
    OBVIOUS
  <2> DEFINE c == suggestions[s].campaign
  <2>1. suggestions[s].status # "NONE" /\ suggestions[s].budget <= campaigns[c].budget
    BY DEF Raised
  <2>2. /\ suggestions'[s].status # "NONE" /\ suggestions'[s].campaign = c
        /\ suggestions'[s].budget = suggestions[s].budget
    BY <1>0, <2>1, SuggestionsStay
  <2>3. c \in CampaignIds /\ campaigns[c].status # "NONE"
    BY <2>1 DEF Known
  <2>4. campaigns'[c].budget >= campaigns[c].budget
    BY <1>0, <2>3, BudgetsRise
  <2>5. suggestions[s].budget \in Nat /\ campaigns[c].budget \in Nat /\ campaigns'[c].budget \in Nat
    BY <2>3, StepType DEF TypeOK, Suggestion, Campaign
  <2>6. QED
    BY <2>1, <2>2, <2>4, <2>5
<1>2. CASE charges' = charges
    BY <1>1, <1>2 DEF Raised
<1>3. ASSUME NEW r \in Requests, ApplyCharge(r) PROVE Raised'
  <2> DEFINE c == job[r].id
  <2> DEFINE s == job[r].suggestion
  <2>1. /\ c \in CampaignIds /\ s \in SuggestionIds /\ c = suggestions[s].campaign
        /\ suggestions[s].status # "NONE" /\ suggestions[s].budget > campaigns[c].budget
    BY <1>3 DEF ApplyCharge, Known, Applying, Fresh, Raises
  <2>2. suggestions[s].budget \in Nat /\ campaigns[c].budget \in Nat /\ charges[s] \in Nat
    BY <2>1 DEF TypeOK, Suggestion, Campaign
  <2>3. charges[s] = 0
    <3>1. charges[s] # 1 /\ charges[s] <= 1
      BY <2>1, <2>2 DEF Raised
    <3>2. QED
      BY <2>2, <3>1
  <2>4. /\ charges'[s] = 1 /\ \A t \in SuggestionIds \ {s} : charges'[t] = charges[t]
        /\ suggestions' = suggestions /\ campaigns'[c].budget = suggestions[s].budget
    BY <1>3, <2>1, <2>3 DEF ApplyCharge, TypeOK, Campaign
  <2>5. suggestions'[s].budget <= campaigns'[suggestions'[s].campaign].budget /\ suggestions'[s].status # "NONE"
    BY <2>1, <2>2, <2>4
  <2>6. \A t \in SuggestionIds \ {s} :
           /\ charges'[t] <= 1
           /\ charges'[t] = 1 =>
                 /\ suggestions'[t].status # "NONE"
                 /\ suggestions'[t].budget <= campaigns'[suggestions'[t].campaign].budget
    BY <1>1, <2>4 DEF Raised
  <2>7. QED
    BY <2>4, <2>5, <2>6 DEF Raised
<1>4. QED
    BY <1>0, <1>2, <1>3
    DEF Step, Handle, history, NextDay, CreateCommit, Pause, Resume, Stop, Settle, GenerateList, GenerateCreate,
        ApplyLoad, ApplySettle, ApplyMark, Dismiss, Abort, GenerateCheck, CreateCheck, Load, Read, LoadSuggestion

LEMMA StepInv ==
    ASSUME CampaignsAssumption, Inv, [Next]_watched
    PROVE  Inv'
<1>1. CASE UNCHANGED watched
    BY <1>1 DEF Inv, TypeOK, Known, Dated, DatedJob, Alone, OneAtATime, Fresh, Raised, Raises, watched, vars
<1>2. CASE Next
  <2>1. TypeOK' /\ Known' /\ Dated'
    BY <1>2, StepType, StepKnown, StepDated DEF Inv, Next
  <2>2. CASE overlapped'
    BY <2>1, <2>2 DEF Inv
  <2>3. CASE ~ overlapped'
    <3>1. ~ overlapped /\ OneAtATime'
      BY <1>2, <2>3 DEF Next, Watch
    <3>2. Fresh' /\ Raised'
      BY <1>2, <3>1, StepFresh, StepRaised DEF Inv, Alone, Next
    <3>3. QED
      BY <2>1, <3>1, <3>2 DEF Inv, Alone
  <2>4. QED
    BY <2>2, <2>3
<1>3. QED
    BY <1>1, <1>2

LEMMA InvHolds == ASSUME CampaignsAssumption PROVE Spec => []Inv
<1>1. Init => Inv
    BY InitInv
<1>2. Inv /\ [Next]_watched => Inv'
    BY StepInv
<1>3. QED
    BY <1>1, <1>2, PTL DEF Spec

(* A step after which no requests have overlapped moves every row on its own. *)
LEMMA AloneMoves ==
    ASSUME CampaignsAssumption, Inv, [Next]_watched, ~ overlapped'
    PROVE  /\ ~ overlapped /\ Alone
           /\ \/ NextDay
              \/ today' = today /\ \A c \in CampaignIds : RowMoves(c)
<1>1. CASE UNCHANGED watched
    BY <1>1 DEF Inv, RowMoves, KeepsRow, watched, vars
<1>2. CASE Next
  <2>1. ~ overlapped
    BY <1>2 DEF Next, Watch
  <2>2. QED
    BY <1>2, <2>1, RowsMove DEF Inv, Alone, Next
<1>3. QED
    BY <1>1, <1>2

(* EndedForGood of MCLedgers: a stopped campaign stays stopped, unless a        *)
(* request of its kitchen overlapped another.                                  *)
THEOREM StoppedStaysStopped == ASSUME CampaignsAssumption PROVE Spec => EndedForGood
<1>1. ASSUME Inv, [Next]_watched, NEW c \in CampaignIds, ~ overlapped', campaigns[c].status = "ENDED"
      PROVE  campaigns'[c].status = "ENDED"
  <2>1. CASE NextDay
    BY <1>1, <2>1 DEF NextDay, db
  <2>2. CASE RowMoves(c)
    BY <1>1, <2>2
    DEF RowMoves, KeepsRow, CreatesRow, SettlesRow, PausesRow, ResumesRow, StopsRow, RaisesRow
  <2>3. QED
    BY <1>1, <2>1, <2>2, AloneMoves
<1>2. Inv /\ [Next]_watched => [StopIsFinal]_watched
    BY <1>1 DEF StopIsFinal
<1>3. QED
    BY <1>2, InvHolds, PTL DEF Spec, EndedForGood

(* A suggestion's raise is charged once, whatever dies and is repeated.         *)
THEOREM SuggestionsAreChargedOnce == ASSUME CampaignsAssumption PROVE Spec => []ChargedOnce
<1>1. Inv => ChargedOnce
    BY DEF Inv, Alone, Raised, ChargedOnce
<1>2. QED
    BY <1>1, InvHolds, PTL

-----------------------------------------------------------------------------
(* Without pauses and stops: what was charged covers the days billed and the days left. *)

Running == \A c \in CampaignIds : campaigns[c].status # "PAUSED"

Prepaid(c) ==
    /\ campaigns[c].status = "NONE" => charged[c] >= campaigns[c].accrued
    /\ campaigns[c].status = "ENDED" => charged[c] >= campaigns[c].accrued
    /\ campaigns[c].status = "ACTIVE" =>
          /\ campaigns[c].anchor <= today /\ campaigns[c].anchor <= campaigns[c].end
          /\ charged[c] >= campaigns[c].accrued
                              + (campaigns[c].end - campaigns[c].anchor + 1) * campaigns[c].budget

(* The price a request has computed is still that of the days left. *)
Priced ==
    \A r \in Requests : pc[r] = "applyCharge" =>
        job[r].delta = (suggestions[job[r].suggestion].budget - campaigns[job[r].id].budget)
                          * (campaigns[job[r].id].end - campaigns[job[r].id].anchor + 1)

Paid == Running /\ Priced /\ \A c \in CampaignIds : Prepaid(c)

PaidInv == Inv /\ (overlapped \/ crossed \/ Paid)

LEMMA Distributes == \A x, y, z \in Int : /\ x * z \in Int /\ y * z \in Int
                                         /\ (x + y) * z = x * z + y * z /\ z * x = x * z
OBVIOUS

LEMMA InitPaid == ASSUME CampaignsAssumption, Init PROVE Paid
BY DEF Init, Paid, Running, Priced, Prepaid, NoCampaign

(* Billing some of the days left takes from them what it adds to the spend. *)
LEMMA SettlesPrepaid ==
    ASSUME TypeOK, NEW row \in Campaign, row.status = "ACTIVE", NEW paid \in Int,
           row.anchor <= today, row.anchor <= row.end, NEW date \in Int, date <= today,
           paid >= row.accrued + (row.end - row.anchor + 1) * row.budget
    PROVE  LET new == Settled(row, date)
           IN  /\ new.status \in {"ACTIVE", "ENDED"}
               /\ new.status = "ENDED" => paid >= new.accrued
               /\ new.status = "ACTIVE" =>
                     /\ new.anchor <= today /\ new.anchor <= new.end
                     /\ paid >= new.accrued + (new.end - new.anchor + 1) * new.budget
<1> DEFINE new == Settled(row, date)
<1> DEFINE upto == UpTo(row, date)
<1>1. /\ row.anchor \in Int /\ row.end \in Int /\ row.accrued \in Int /\ row.budget \in Int
      /\ today \in Int /\ upto \in Int /\ upto <= row.end /\ upto <= today - 1
    BY DEF TypeOK, Campaign, UpTo
<1>2. CASE upto < row.anchor
  <2>1. new = row
    BY <1>2, SettledType
  <2>2. QED
    BY <2>1
<1>3. CASE ~ (upto < row.anchor)
  <2> DEFINE spent == (upto - row.anchor + 1) * row.budget
  <2> DEFINE rest == (row.end - upto) * row.budget
  <2>1. upto >= row.anchor
    BY <1>1, <1>3
  <2>2. /\ new.end = row.end /\ new.budget = row.budget /\ new.anchor = upto + 1
        /\ new.accrued = row.accrued + spent
        /\ new.status = IF upto + 1 > row.end THEN "ENDED" ELSE row.status
    BY <2>1, SettledType
  <2>3. /\ spent \in Int /\ rest \in Int
        /\ (row.end - row.anchor + 1) * row.budget = spent + rest
    <3>1. /\ upto - row.anchor + 1 \in Int /\ row.end - upto \in Int
          /\ (upto - row.anchor + 1) + (row.end - upto) = row.end - row.anchor + 1
      BY <1>1
    <3>2. QED
      BY <1>1, <3>1, Distributes
  <2>4. (new.end - new.anchor + 1) * new.budget = rest
    <3>1. new.end - new.anchor + 1 = row.end - upto
      BY <1>1, <2>2
    <3>2. QED
      BY <2>2, <3>1
  <2>5. upto + 1 > row.end => rest = 0
    BY <1>1
  <2> HIDE DEF spent, rest
  <2>6. paid >= row.accrued + (spent + rest)
    BY <2>3
  <2> DEFINE Good == /\ new.status \in {"ACTIVE", "ENDED"}
                     /\ new.status = "ENDED" => paid >= new.accrued
                     /\ new.status = "ACTIVE" =>
                           /\ new.anchor <= today /\ new.anchor <= new.end
                           /\ paid >= new.accrued + (new.end - new.anchor + 1) * new.budget
  <2> HIDE DEF new, upto
  <2>7. upto + 1 > row.end => Good
    BY <1>1, <2>2, <2>3, <2>5, <2>6
  <2>8. ASSUME ~ (upto + 1 > row.end) PROVE Good
    <3>1. new.anchor <= today /\ new.anchor <= new.end
      BY <1>1, <2>2, <2>8
    <3>2. paid >= new.accrued + (new.end - new.anchor + 1) * new.budget
      BY <1>1, <2>2, <2>3, <2>4, <2>6
    <3>3. new.status = "ACTIVE"
      BY <2>2, <2>8
    <3>4. QED
      BY <3>1, <3>2, <3>3
  <2>9. Good
    BY <2>7, <2>8
  <2>10. QED
    BY <2>9 DEF new
<1>4. QED
    BY <1>2, <1>3

LEMMA RowsPrepaid ==
    ASSUME CampaignsAssumption, TypeOK, Known, Paid, Calls \cap {"pause", "stop"} = {},
           today' = today, NEW c \in CampaignIds, RowMoves(c), campaigns'[c] \in Campaign
    PROVE  Prepaid(c)' /\ campaigns'[c].status # "PAUSED"
<1> DEFINE row == campaigns[c]
<1>1. /\ row \in Campaign /\ row.anchor \in Int /\ row.end \in Int /\ row.accrued \in Int
      /\ row.budget \in Int /\ today \in Int /\ charged[c] \in Int
    BY DEF TypeOK, Campaign
<1>2. Prepaid(c) /\ row.status # "PAUSED"
    BY DEF Paid, Running
<1>3. CASE KeepsRow(c)
    BY <1>2, <1>3 DEF KeepsRow, Prepaid
<1>4. CASE CreatesRow(c)
  <2>1. PICK budget \in Nat \ {0}, days \in Nat \ {0}, date \in Int :
           /\ date <= today
           /\ campaigns'[c].status = "ACTIVE" /\ campaigns'[c].budget = budget
           /\ campaigns'[c].end = date + days - 1 /\ campaigns'[c].anchor = date
           /\ campaigns'[c].accrued = 0
           /\ charged'[c] = budget * days
    BY <1>4 DEF CreatesRow, OnTime
  <2>2. date + days - 1 - date + 1 = days /\ date <= date + days - 1
    BY <2>1
  <2>3. (campaigns'[c].end - campaigns'[c].anchor + 1) * campaigns'[c].budget = budget * days
    <3>1. campaigns'[c].end - campaigns'[c].anchor + 1 = days
      BY <1>1, <2>1, <2>2
    <3>2. QED
      BY <2>1, <3>1, Distributes
  <2>4. budget * days \in Int
    BY Distributes
  <2>5. charged'[c] >= campaigns'[c].accrued + (campaigns'[c].end - campaigns'[c].anchor + 1) * campaigns'[c].budget
    BY <2>1, <2>3, <2>4
  <2>6. QED
    BY <1>1, <2>1, <2>2, <2>5 DEF Prepaid
<1>5. CASE SettlesRow(c)
  <2>1. /\ row.anchor <= today /\ row.anchor <= row.end /\ row.status = "ACTIVE"
        /\ charged[c] >= row.accrued + (row.end - row.anchor + 1) * row.budget
    BY <1>2, <1>5 DEF SettlesRow, Prepaid
  <2>2. PICK date \in Int : date <= today /\ campaigns'[c] = Settled(row, date) /\ charged'[c] = charged[c]
    BY <1>5 DEF SettlesRow
  <2> HIDE DEF row
  <2>3. /\ Settled(row, date).status \in {"ACTIVE", "ENDED"}
        /\ Settled(row, date).status = "ENDED" => charged[c] >= Settled(row, date).accrued
        /\ Settled(row, date).status = "ACTIVE" =>
              /\ Settled(row, date).anchor <= today /\ Settled(row, date).anchor <= Settled(row, date).end
              /\ charged[c] >= Settled(row, date).accrued
                                  + (Settled(row, date).end - Settled(row, date).anchor + 1) * Settled(row, date).budget
    BY <1>1, <2>1, <2>2, SettlesPrepaid
  <2>4. QED
    BY <2>2, <2>3 DEF Prepaid
<1>6. CASE RaisesRow(c)
  <2>1. PICK r \in Requests :
           /\ pc[r] = "applyCharge" /\ job[r].id = c /\ job[r].suggestion \in SuggestionIds
           /\ charged'[c] = charged[c] + job[r].delta
           /\ campaigns'[c] = [row EXCEPT !.budget = suggestions[job[r].suggestion].budget]
    BY <1>6 DEF RaisesRow
  <2> DEFINE budget == suggestions[job[r].suggestion].budget
  <2> DEFINE left == row.end - row.anchor + 1
  <2> DEFINE old == left * row.budget
  <2> DEFINE more == (budget - row.budget) * left
  <2>2. budget \in Int /\ left \in Int
    BY <1>1, <2>1 DEF TypeOK, Suggestion
  <2>3. job[r].delta = more
    BY <2>1 DEF Paid, Priced
  <2>4. /\ row.status = "ACTIVE" /\ row.anchor <= today /\ row.anchor <= row.end
        /\ charged[c] >= row.accrued + old
    BY <1>2, <1>6 DEF RaisesRow, Prepaid
  <2>5. /\ old \in Int /\ more \in Int /\ left * budget = old + more
    <3> HIDE DEF left, budget
    <3>1. budget - row.budget \in Int /\ (budget - row.budget) + row.budget = budget
      BY <1>1, <2>2
    <3>2. more \in Int /\ row.budget * left \in Int /\ budget * left = more + row.budget * left
      BY <1>1, <2>2, <3>1, Distributes
    <3>3. old = row.budget * left /\ left * budget = budget * left
      BY <1>1, <2>2, Distributes
    <3> HIDE DEF old, more, row
    <3>4. QED
      BY <3>2, <3>3
  <2>6. /\ campaigns'[c].status = "ACTIVE" /\ campaigns'[c].anchor = row.anchor /\ campaigns'[c].end = row.end
        /\ campaigns'[c].accrued = row.accrued /\ campaigns'[c].budget = budget
    BY <1>1, <2>1, <2>4 DEF Campaign
  <2>7. (campaigns'[c].end - campaigns'[c].anchor + 1) * campaigns'[c].budget = left * budget
    BY <2>6
  <2> HIDE DEF old, more, left, budget
  <2>8. charged'[c] >= row.accrued + left * budget
    BY <1>1, <2>1, <2>3, <2>4, <2>5
  <2>9. QED
    BY <2>4, <2>6, <2>7, <2>8 DEF Prepaid
<1>7. ~ PausesRow(c) /\ ~ StopsRow(c) /\ ~ ResumesRow(c)
    BY <1>2 DEF PausesRow, StopsRow, ResumesRow
<1>8. QED
    BY <1>3, <1>4, <1>5, <1>6, <1>7 DEF RowMoves

LEMMA StepPriced ==
    ASSUME CampaignsAssumption, TypeOK, Known, Dated, ~ crossed, Alone, Paid, Step
    PROVE  Priced'
<1> SUFFICES ASSUME NEW q \in Requests, pc'[q] = "applyCharge"
             PROVE  job'[q].delta = (suggestions'[job'[q].suggestion].budget - campaigns'[job'[q].id].budget)
                                       * (campaigns'[job'[q].id].end - campaigns'[job'[q].id].anchor + 1)
    BY DEF Priced
<1>1. CASE pc[q] = "applyCharge" /\ job'[q] = job[q] /\ UNCHANGED <<campaigns, suggestions>>
    BY <1>1 DEF Paid, Priced
<1>2. ASSUME NEW r \in Requests, ApplySettle(r), ~ Finish(r), q = r
      PROVE  job'[q].delta = (suggestions'[job'[q].suggestion].budget - campaigns'[job'[q].id].budget)
                                * (campaigns'[job'[q].id].end - campaigns'[job'[q].id].anchor + 1)
  <2> DEFINE c == job[r].id
  <2> DEFINE s == job[r].suggestion
  <2>1. /\ c \in CampaignIds /\ s \in SuggestionIds /\ campaigns[c].status = "ACTIVE"
        /\ campaigns[c].end - today + 1 > 0
        /\ campaigns' = [campaigns EXCEPT ![c] = Settled(campaigns[c], today)]
        /\ UNCHANGED suggestions
        /\ job'[r].id = c /\ job'[r].suggestion = s
        /\ job'[r].delta = (suggestions[s].budget - campaigns[c].budget) * (campaigns[c].end - today + 1)
    BY <1>2, ApplySettles DEF Alone
  <2>2. campaigns[c] \in Campaign /\ campaigns[c].anchor <= today /\ today \in Int /\ today <= today
    BY <2>1 DEF TypeOK, Paid, Prepaid
  <2>3. /\ Settled(campaigns[c], today).budget = campaigns[c].budget /\ Settled(campaigns[c], today).end = campaigns[c].end
        /\ Settled(campaigns[c], today).anchor = today
    BY <2>1, <2>2, SettlesActive
  <2>4. campaigns'[c] = Settled(campaigns[c], today)
    BY <2>1 DEF TypeOK
  <2>5. QED
    BY <1>2, <2>1, <2>3, <2>4
<1>3. ASSUME NEW r \in Requests, pc[r] # "idle", \A p \in Requests \ {r} : pc'[p] = pc[p],
             pc'[r] # "applyCharge"
      PROVE  FALSE
    BY <1>3, OthersIdle DEF Alone
<1>4. ASSUME NEW r \in Requests, NEW step, step # "applyCharge", Goto(r, step), pc[r] # "idle"
      PROVE  FALSE
    BY <1>3, <1>4 DEF Goto, TypeOK
<1>5. ASSUME NEW r \in Requests, NEW call, NEW j, Start(r, call, j), UNCHANGED <<campaigns, suggestions>>
      PROVE  pc[q] = "applyCharge" /\ job'[q] = job[q]
  <2>1. call # "applyCharge"
    BY <1>5 DEF Start, CampaignsAssumption, AllCalls
  <2>2. QED
    BY <1>5, <2>1 DEF Start, Goto, TypeOK
<1>6. CASE NextDay
    BY <1>1, <1>6 DEF NextDay, db
<1>7. ASSUME NEW r \in Requests, ApplySettle(r)
      PROVE  job'[q].delta = (suggestions'[job'[q].suggestion].budget - campaigns'[job'[q].id].budget)
                                * (campaigns'[job'[q].id].end - campaigns'[job'[q].id].anchor + 1)
  <2>1. pc[r] # "idle"
    BY <1>7 DEF ApplySettle
  <2>2. ~ Finish(r)
    BY <1>4, <2>1 DEF Finish
  <2>3. q = r
    <3>1. \A p \in Requests \ {r} : pc'[p] = pc[p]
      BY <1>7, <2>2, ApplySettles DEF Alone
    <3>2. QED
      BY <2>1, <3>1, OthersIdle DEF Alone
  <2>4. QED
    BY <1>2, <1>7, <2>2, <2>3
<1>8. ASSUME NEW r \in Requests, ApplyLoad(r) PROVE FALSE
  <2>1. pc[r] # "idle" /\ (Goto(r, "applyMark") \/ Goto(r, "applySettle") \/ Finish(r))
    BY <1>8 DEF ApplyLoad
  <2>2. QED
    BY <1>4, <2>1 DEF Finish
<1>9. ASSUME NEW r \in Requests, Finish(r), pc[r] # "idle" PROVE FALSE
    BY <1>4, <1>9 DEF Finish
<1>10. ASSUME NEW r \in Requests, GenerateList(r) \/ ApplyCharge(r) PROVE FALSE
  <2>1. pc[r] # "idle" /\ (Goto(r, "generateCreate") \/ Goto(r, "applyMark"))
    BY <1>10 DEF GenerateList, ApplyCharge
  <2>2. QED
    BY <1>4, <2>1
<1>11. ASSUME NEW r \in Requests,
              \/ GenerateCheck(r)
              \/ \E c \in CampaignIds, reel \in Reels : CreateCheck(r, c, reel)
              \/ \E c \in CampaignIds, call \in Calls : Load(r, c, call)
              \/ \E c \in CampaignIds : Read(r, c)
              \/ \E s \in SuggestionIds, call \in Calls : LoadSuggestion(r, s, call)
       PROVE  pc[q] = "applyCharge" /\ job'[q] = job[q] /\ UNCHANGED <<campaigns, suggestions>>
  <2>1. (\E call, j : Start(r, call, j)) /\ UNCHANGED <<campaigns, suggestions>>
    BY <1>11 DEF GenerateCheck, CreateCheck, Load, Read, LoadSuggestion, db
  <2>2. QED
    BY <1>5, <2>1
<1>12. QED
    BY <1>1, <1>6, <1>7, <1>8, <1>9, <1>10, <1>11
    DEF Step, Handle, CreateCommit, Pause, Resume, Stop, Settle, GenerateCreate, ApplyMark, Dismiss, Abort

LEMMA StepPaid ==
    ASSUME CampaignsAssumption, Calls \cap {"pause", "stop"} = {}, PaidInv, [Next]_watched
    PROVE  PaidInv'
<1>1. Inv'
    BY StepInv DEF PaidInv
<1>2. CASE UNCHANGED watched
    BY <1>1, <1>2 DEF PaidInv, Paid, Running, Priced, Prepaid, watched, vars
<1>3. CASE overlapped' \/ crossed'
    BY <1>1, <1>3 DEF PaidInv
<1>4. CASE Next /\ ~ overlapped' /\ ~ crossed'
  <2>1. /\ TypeOK /\ Known /\ Dated /\ Alone /\ ~ crossed /\ Paid /\ TypeOK' /\ Step
    BY <1>1, <1>4, AloneMoves DEF PaidInv, Inv, Next, Watch
  <2>2. Priced'
    BY <2>1, StepPriced
  <2>3. ASSUME NEW c \in CampaignIds PROVE Prepaid(c)' /\ campaigns'[c].status # "PAUSED"
    <3>1. CASE NextDay
      <4>1. Prepaid(c) /\ campaigns[c].status # "PAUSED" /\ campaigns[c].anchor \in Int /\ today \in Int
        BY <2>1 DEF Paid, Running, TypeOK, Campaign
      <4>2. QED
        BY <3>1, <4>1 DEF NextDay, db, Prepaid
    <3>2. CASE today' = today /\ RowMoves(c)
      <4>1. campaigns'[c] \in Campaign
        BY <2>1 DEF TypeOK
      <4>2. QED
        BY <2>1, <3>2, <4>1, RowsPrepaid
    <3>3. QED
      BY <1>4, <3>1, <3>2, AloneMoves DEF PaidInv
  <2>4. QED
    BY <1>1, <2>2, <2>3 DEF PaidInv, Paid, Running
<1>5. QED
    BY <1>2, <1>3, <1>4

LEMMA DaysOf ==
    ASSUME NEW a \in Int, NEW b \in Int
    PROVE  /\ IsFiniteSet(a .. b) /\ Cardinality(a .. b) \in Int
           /\ a <= b + 1 => Cardinality(a .. b) = b - a + 1
<1>1. CASE a <= b
    BY <1>1, FS_Interval
<1>2. CASE ~ (a <= b)
    BY <1>2, FS_Interval
<1>3. QED
    BY <1>1, <1>2

(* ChargesCoverSpend of MCLedgers: for kitchens that do not pause or stop, what  *)
(* was charged covers what is and may still be spent, as long as no two          *)
(* requests overlap and midnight overtakes none, and a suggestion is charged     *)
(* once, whatever dies and is repeated.                                          *)
THEOREM ChargesAreEnough ==
    ASSUME CampaignsAssumption, Calls \cap {"pause", "stop"} = {}
    PROVE  Spec => []ChargesCoverSpend
<1>1. Init => PaidInv
    BY InitInv, InitPaid DEF PaidInv
<1>2. PaidInv /\ [Next]_watched => PaidInv'
    BY StepPaid
<1>3. ASSUME PaidInv PROVE ChargesCoverSpend
  <2>1. ChargedOnce
    BY <1>3 DEF PaidInv, Inv, Alone, Raised, ChargedOnce
  <2>2. ASSUME NEW c \in CampaignIds, ~ overlapped, ~ crossed
        PROVE  charged[c] >= campaigns[c].accrued
                   + (IF campaigns[c].status = "ACTIVE" THEN DaysLeft(c) * campaigns[c].budget ELSE 0)
    <3>1. /\ campaigns[c].status \in Statuses /\ campaigns[c].anchor \in Int /\ campaigns[c].end \in Int
          /\ campaigns[c].accrued \in Int /\ charged[c] \in Int
      BY <1>3, <2>2 DEF PaidInv, Inv, TypeOK, Campaign
    <3>2. Prepaid(c) /\ campaigns[c].status # "PAUSED"
      BY <1>3, <2>2 DEF PaidInv, Paid, Running
    <3>3. CASE campaigns[c].status = "ACTIVE"
      <4>1. campaigns[c].anchor <= campaigns[c].end + 1
        BY <3>1, <3>2, <3>3 DEF Prepaid
      <4>2. DaysLeft(c) = campaigns[c].end - campaigns[c].anchor + 1
        BY <3>1, <4>1, DaysOf DEF DaysLeft
      <4>3. QED
        BY <3>2, <3>3, <4>2 DEF Prepaid
    <3>4. CASE campaigns[c].status # "ACTIVE"
      BY <3>1, <3>2, <3>4 DEF Prepaid, Statuses
    <3>5. QED
      BY <3>3, <3>4
  <2>3. QED
    BY <2>1, <2>2 DEF ChargesCoverSpend, PrepaidCoversSpend
<1>4. QED
    BY <1>1, <1>2, <1>3, PTL DEF Spec

-----------------------------------------------------------------------------
(* Without raises: the days billed and the days not billed yet are the days live. *)

LiveDays(c) == Cardinality(live[c])

Billed(c) ==
    /\ IsFiniteSet(live[c]) /\ \A d \in live[c] : d <= today
    /\ campaigns[c].status = "ACTIVE" =>
          /\ today \in live[c] /\ campaigns[c].anchor <= today + 1
          /\ today <= campaigns[c].end =>
                campaigns[c].accrued + (today - campaigns[c].anchor + 1) * campaigns[c].budget
                  = LiveDays(c) * campaigns[c].budget
    /\ campaigns[c].status = "PAUSED" =>
          campaigns[c].anchor <= today + 1 /\ (today \in live[c] <=> campaigns[c].anchor = today + 1)
    /\ campaigns[c].status \in {"PAUSED", "ENDED"} /\ today <= campaigns[c].end =>
          campaigns[c].accrued = LiveDays(c) * campaigns[c].budget

LiveInv == Inv /\ (overlapped \/ crossed \/ \A c \in CampaignIds : Billed(c))

LEMMA InitBilled == ASSUME Init, NEW c \in CampaignIds PROVE Billed(c)
<1>1. IsFiniteSet({})
    BY FS_EmptySet
<1>2. QED
    BY <1>1 DEF Init, Billed, NoCampaign

(* One more live day, unless it is counted already. *)
LEMMA OneMoreDay ==
    ASSUME NEW days, IsFiniteSet(days), NEW d
    PROVE  /\ IsFiniteSet(days \cup {d}) /\ Cardinality(days) \in Int
           /\ d \in days => days \cup {d} = days
           /\ d \notin days => Cardinality(days \cup {d}) = Cardinality(days) + 1
BY FS_AddElement, FS_CardinalityType

(* Folding through today bills the days that were not billed. *)
LEMMA FoldsBilled ==
    ASSUME TypeOK, NEW row \in Campaign, row.anchor <= today + 1
    PROVE  LET new == FoldSpend(row, today)
           IN  /\ new.accrued = row.accrued + (today - row.anchor + 1) * row.budget
               /\ new.anchor = today + 1
<1>1. today \in Int /\ row.anchor \in Int /\ row.budget \in Int /\ row.accrued \in Int
    BY DEF TypeOK, Campaign
<1>2. CASE today >= row.anchor
    BY <1>1, <1>2, FoldSpendType
<1>3. CASE today < row.anchor
  <2>1. FoldSpend(row, today) = row /\ today - row.anchor + 1 = 0 /\ row.anchor = today + 1
    BY <1>1, <1>3, FoldSpendType
  <2>2. (today - row.anchor + 1) * row.budget = 0
    BY <1>1, <2>1
  <2>3. QED
    BY <1>1, <2>1, <2>2
<1>4. QED
    BY <1>1, <1>2, <1>3

LEMMA RowsBilled ==
    ASSUME CampaignsAssumption, TypeOK, ~ crossed, "apply" \notin Calls, today' = today,
           NEW c \in CampaignIds, RowMoves(c), Billed(c)
    PROVE  Billed(c)'
<1> DEFINE row == campaigns[c]
<1> DEFINE L == LiveDays(c)
<1>1. /\ row \in Campaign /\ row.anchor \in Int /\ row.end \in Int /\ row.accrued \in Int
      /\ row.budget \in Int /\ today \in Int
    BY DEF TypeOK, Campaign
<1>2. L \in Int /\ IsFiniteSet(live[c])
    BY OneMoreDay DEF Billed, LiveDays
<1>3. CASE KeepsRow(c)
    BY <1>3 DEF KeepsRow, Billed, LiveDays
<1>4. CASE CreatesRow(c)
  <2>1. PICK budget \in Nat \ {0}, days \in Nat \ {0} :
           /\ campaigns'[c].status = "ACTIVE" /\ campaigns'[c].budget = budget
           /\ campaigns'[c].anchor = today /\ campaigns'[c].accrued = 0
    BY <1>4 DEF CreatesRow, OnTime
  <2>2. live'[c] = {today}
    BY <1>4 DEF CreatesRow
  <2>3. IsFiniteSet(live'[c]) /\ LiveDays(c)' = 1
    <3>1. IsFiniteSet({today}) /\ Cardinality({today}) = 1
      BY FS_Singleton, Zenon
    <3>2. LiveDays(c)' = Cardinality({today})
      BY <2>2 DEF LiveDays
    <3>3. QED
      BY <2>2, <3>1, <3>2
  <2>4. (today - today + 1) * budget = 1 * budget
    BY <1>1
  <2>5. QED
    BY <1>1, <2>1, <2>2, <2>3, <2>4 DEF Billed
<1>5. CASE SettlesRow(c)
  <2>1. /\ row.status = "ACTIVE" /\ today \in live[c] /\ row.anchor <= today + 1
        /\ today <= row.end => row.accrued + (today - row.anchor + 1) * row.budget = L * row.budget
    BY <1>5 DEF SettlesRow, Billed
  <2>2. PICK date \in Int :
           date <= today /\ campaigns'[c] = Settled(row, date) /\ live'[c] = live[c] /\ LiveDays(c)' = L
    BY <1>5 DEF SettlesRow, LiveDays
  <2> DEFINE upto == UpTo(row, date)
  <2>3. upto \in Int /\ upto <= row.end /\ upto <= today - 1 /\ (upto = row.end => row.end < today)
    BY <1>1, <2>2 DEF UpTo
  <2>4. CASE upto < row.anchor
    <3>1. campaigns'[c] = row
      BY <1>1, <2>2, <2>4, SettledType
    <3>2. QED
      BY <2>2, <3>1 DEF Billed
  <2>5. upto >= row.anchor =>
           /\ campaigns'[c].end = row.end /\ campaigns'[c].budget = row.budget /\ campaigns'[c].anchor = upto + 1
           /\ campaigns'[c].accrued = row.accrued + (upto - row.anchor + 1) * row.budget
           /\ campaigns'[c].status = IF upto + 1 > row.end THEN "ENDED" ELSE row.status
    <3>1. row \in Campaign
      BY DEF TypeOK
    <3> HIDE DEF row
    <3>2. upto >= row.anchor =>
             /\ Settled(row, date).end = row.end /\ Settled(row, date).budget = row.budget
             /\ Settled(row, date).anchor = upto + 1
             /\ Settled(row, date).accrued = row.accrued + (upto - row.anchor + 1) * row.budget
             /\ Settled(row, date).status = IF upto + 1 > row.end THEN "ENDED" ELSE row.status
      BY <2>2, <3>1, SettledType
    <3>3. campaigns'[c] = Settled(row, date)
      BY <2>2
    <3> HIDE DEF upto
    <3>4. QED
      BY <3>2, <3>3
  <2>6. CASE upto >= row.anchor /\ upto = row.end
    <3>1. campaigns'[c].status = "ENDED" /\ campaigns'[c].end = row.end
      <4>1. upto + 1 > row.end
        BY <1>1, <2>3, <2>6
      <4>2. QED
        BY <2>6, <2>5, <4>1
    <3>2. ~ (today <= row.end)
      BY <1>1, <2>3, <2>6
    <3>3. QED
      BY <2>2, <3>1, <3>2 DEF Billed
  <2>7. CASE upto >= row.anchor /\ upto < row.end
    <3> DEFINE spent == (upto - row.anchor + 1) * row.budget
    <3> DEFINE due == (today - (upto + 1) + 1) * row.budget
    <3> DEFINE total == L * row.budget
    <3>1. /\ campaigns'[c].status = "ACTIVE" /\ campaigns'[c].end = row.end
          /\ campaigns'[c].budget = row.budget /\ campaigns'[c].anchor = upto + 1
          /\ campaigns'[c].accrued = row.accrued + spent
      <4>1. ~ (upto + 1 > row.end)
        BY <1>1, <2>3, <2>7
      <4>2. QED
        BY <2>1, <2>7, <2>5, <4>1
    <3>2. /\ spent \in Int /\ due \in Int /\ total \in Int
          /\ (today - row.anchor + 1) * row.budget = spent + due
      <4> DEFINE k == upto - row.anchor + 1
      <4> DEFINE m == today - (upto + 1) + 1
      <4>1. k \in Int /\ m \in Int /\ k + m = today - row.anchor + 1
        BY <1>1, <2>3
      <4> HIDE DEF k, m, row, upto
      <4>2. k * row.budget \in Int /\ m * row.budget \in Int /\ (k + m) * row.budget = k * row.budget + m * row.budget
        BY <1>1, <4>1, Distributes
      <4>3. total \in Int
        BY <1>1, <1>2, Distributes
      <4>4. QED
        BY <4>1, <4>2, <4>3 DEF k, m
    <3>3. today <= row.end => row.accrued + (spent + due) = total
      BY <2>1, <3>2
    <3> HIDE DEF spent, due, total
    <3>4. today <= row.end => (row.accrued + spent) + due = total
      BY <1>1, <3>2, <3>3
    <3>5. today <= campaigns'[c].end =>
             campaigns'[c].accrued + (today - campaigns'[c].anchor + 1) * campaigns'[c].budget
                = LiveDays(c)' * campaigns'[c].budget
      BY <2>2, <3>1, <3>4 DEF total, due
    <3>6. campaigns'[c].anchor <= today + 1
      BY <1>1, <2>3, <3>1
    <3>7. QED
      BY <2>1, <2>2, <3>1, <3>5, <3>6 DEF Billed
  <2>8. QED
    BY <1>1, <2>3, <2>4, <2>6, <2>7
<1>6. ASSUME row.status = "ACTIVE", NEW status \in {"PAUSED", "ENDED"}, Writes(c, status, FoldSpend(row, today)),
             live'[c] = live[c]
      PROVE  Billed(c)'
  <2>1. /\ today \in live[c] /\ row.anchor <= today + 1
        /\ today <= row.end => row.accrued + (today - row.anchor + 1) * row.budget = L * row.budget
    BY <1>6 DEF Billed
  <2>2. /\ campaigns'[c].status = status /\ campaigns'[c].budget = row.budget /\ campaigns'[c].end = row.end
        /\ campaigns'[c].accrued = row.accrued + (today - row.anchor + 1) * row.budget
        /\ campaigns'[c].anchor = today + 1
    BY <1>1, <1>6, <2>1, FoldsBilled DEF Writes
  <2>3. LiveDays(c)' = L
    BY <1>6 DEF LiveDays
  <2>4. campaigns'[c].anchor <= today + 1
    BY <1>1, <2>2
  <2>5. QED
    BY <1>2, <1>6, <2>1, <2>2, <2>3, <2>4 DEF Billed
<1>7. CASE PausesRow(c)
    BY <1>6, <1>7 DEF PausesRow, OnTime
<1>8. CASE StopsRow(c)
  <2>1. CASE row.status = "ACTIVE" /\ Writes(c, "ENDED", FoldSpend(row, today))
    BY <1>6, <1>8, <2>1 DEF StopsRow, OnTime
  <2>2. CASE row.status = "PAUSED" /\ Writes(c, "ENDED", row)
    <3>1. LiveDays(c)' = L /\ live'[c] = live[c]
      BY <1>8 DEF StopsRow, LiveDays
    <3>2. QED
      BY <2>2, <3>1 DEF Writes, Billed
  <2>3. QED
    BY <1>8, <2>1, <2>2 DEF StopsRow, OnTime
<1>9. CASE ResumesRow(c)
  <2>1. /\ row.status = "PAUSED" /\ row.anchor <= today + 1 /\ (today \in live[c] <=> row.anchor = today + 1)
        /\ today <= row.end => row.accrued = L * row.budget
    BY <1>9 DEF ResumesRow, Billed
  <2> DEFINE anchor == Larger(row.anchor, today)
  <2>2. /\ campaigns'[c].status = "ACTIVE" /\ campaigns'[c].anchor = anchor
        /\ campaigns'[c].end = row.end /\ campaigns'[c].budget = row.budget /\ campaigns'[c].accrued = row.accrued
    BY <1>1, <1>9 DEF ResumesRow, Campaign, OnTime
  <2>3. live'[c] = live[c] \cup {today}
    BY <1>9 DEF ResumesRow
  <2>4. /\ anchor \in Int /\ anchor <= today + 1
        /\ row.anchor = today + 1 => anchor = today + 1
        /\ row.anchor # today + 1 => anchor = today
    BY <1>1, <2>1 DEF Larger
  <2>5. IsFiniteSet(live'[c]) /\ today \in live'[c] /\ \A d \in live'[c] : d <= today
    <3>1. \A d \in live[c] : d <= today
      BY DEF Billed
    <3>2. \A d \in live[c] \cup {today} : d <= today
      BY <1>1, <3>1
    <3>3. IsFiniteSet(live[c] \cup {today})
      BY <1>2, OneMoreDay
    <3>4. QED
      BY <2>3, <3>2, <3>3
  <2> HIDE DEF anchor
  <2>6. CASE today \in live[c]
    <3>1. LiveDays(c)' = L
      BY <2>3, <2>6, <1>2, OneMoreDay DEF LiveDays
    <3>2. (today - anchor + 1) * row.budget = 0
      <4>1. today - anchor + 1 = 0
        BY <1>1, <2>1, <2>4, <2>6
      <4>2. QED
        BY <1>1, <4>1
    <3>3. today <= row.end => row.accrued + (today - anchor + 1) * row.budget = L * row.budget
      BY <1>1, <2>1, <3>2
    <3>4. QED
      BY <2>2, <2>4, <2>5, <3>1, <3>3 DEF Billed
  <2>7. CASE today \notin live[c]
    <3>1. LiveDays(c)' = L + 1
      BY <2>3, <2>7, <1>2, OneMoreDay DEF LiveDays
    <3>2. (today - anchor + 1) * row.budget = row.budget
      <4>1. today - anchor + 1 = 1
        BY <1>1, <2>1, <2>4, <2>7
      <4>2. QED
        BY <1>1, <4>1
    <3>3. (L + 1) * row.budget = L * row.budget + row.budget
      <4>1. 1 * row.budget = row.budget /\ 1 \in Int
        BY <1>1
      <4>2. QED
        BY <1>1, <1>2, <4>1, Distributes
    <3>4. today <= row.end => row.accrued + (today - anchor + 1) * row.budget = (L + 1) * row.budget
      BY <2>1, <3>2, <3>3
    <3>5. QED
      BY <2>2, <2>4, <2>5, <3>1, <3>4 DEF Billed
  <2>8. QED
    BY <2>6, <2>7
<1>10. ~ RaisesRow(c)
    BY DEF RaisesRow
<1>11. QED
    BY <1>3, <1>4, <1>5, <1>7, <1>8, <1>9, <1>10 DEF RowMoves

LEMMA DayBilled ==
    ASSUME CampaignsAssumption, TypeOK, NextDay, NEW c \in CampaignIds, Billed(c)
    PROVE  Billed(c)'
<1> DEFINE row == campaigns[c]
<1> DEFINE L == LiveDays(c)
<1>1. /\ row \in Campaign /\ row.anchor \in Int /\ row.end \in Int /\ row.accrued \in Int
      /\ row.budget \in Int /\ today \in Int
    BY DEF TypeOK, Campaign
<1>2. L \in Int /\ IsFiniteSet(live[c]) /\ today + 1 \notin live[c] /\ \A d \in live[c] : d \in Int /\ d <= today
  <2>1. \A d \in live[c] : d \in Int /\ d <= today
    BY DEF Billed, TypeOK
  <2>2. today + 1 \notin live[c]
    BY <1>1, <2>1
  <2>3. IsFiniteSet(live[c])
    BY DEF Billed
  <2>4. L \in Int
    BY <2>3, OneMoreDay DEF LiveDays
  <2>5. QED
    BY <2>1, <2>2, <2>3, <2>4
<1>3. /\ campaigns'[c] = row /\ today' = today + 1
      /\ live'[c] = IF row.status = "ACTIVE" THEN live[c] \cup {today + 1} ELSE live[c]
    BY DEF NextDay, db
<1>4. CASE row.status = "ACTIVE"
  <2>1. /\ row.anchor <= today + 1
        /\ today <= row.end => row.accrued + (today - row.anchor + 1) * row.budget = L * row.budget
    BY <1>4 DEF Billed
  <2>2. LiveDays(c)' = L + 1 /\ IsFiniteSet(live'[c])
    BY <1>2, <1>3, <1>4, OneMoreDay DEF LiveDays
  <2> DEFINE due == (today - row.anchor + 1) * row.budget
  <2> DEFINE total == L * row.budget
  <2>3. /\ due \in Int /\ total \in Int /\ (L + 1) * row.budget = total + row.budget
        /\ ((today + 1) - row.anchor + 1) * row.budget = due + row.budget
    <3>1. /\ today - row.anchor + 1 \in Int /\ 1 * row.budget = row.budget /\ 1 \in Int
          /\ (today + 1) - row.anchor + 1 = (today - row.anchor + 1) + 1
      BY <1>1
    <3>2. QED
      BY <1>1, <1>2, <3>1, Distributes
  <2> HIDE DEF due, total
  <2>4. today + 1 <= row.end => row.accrued + due = total
    BY <1>1, <2>1 DEF due, total
  <2>5. today + 1 <= row.end =>
           row.accrued + ((today + 1) - row.anchor + 1) * row.budget = (L + 1) * row.budget
    BY <1>1, <2>3, <2>4
  <2>6. /\ today' \in live'[c] /\ row.anchor <= today' + 1 /\ \A d \in live'[c] : d <= today'
    BY <1>1, <1>2, <1>3, <1>4, <2>1
  <2>7. QED
    BY <1>3, <1>4, <2>2, <2>5, <2>6 DEF Billed
<1>5. CASE row.status # "ACTIVE"
  <2>1. live'[c] = live[c] /\ LiveDays(c)' = L
    BY <1>3, <1>5 DEF LiveDays
  <2>2. today + 1 <= row.end => today <= row.end
    BY <1>1
  <2>3. \A d \in live[c] : d <= today + 1
    BY <1>1, <1>2
  <2>4. row.status = "PAUSED" => row.anchor <= (today + 1) + 1 /\ row.anchor # (today + 1) + 1
    BY <1>1 DEF Billed
  <2>5. QED
    BY <1>2, <1>3, <1>5, <2>1, <2>2, <2>3, <2>4 DEF Billed
<1>6. QED
    BY <1>4, <1>5

LEMMA StepBilled ==
    ASSUME CampaignsAssumption, "apply" \notin Calls, LiveInv, [Next]_watched
    PROVE  LiveInv'
<1>1. Inv'
    BY StepInv DEF LiveInv
<1>2. CASE overlapped' \/ crossed'
    BY <1>1, <1>2 DEF LiveInv
<1>3. CASE ~ overlapped' /\ ~ crossed'
  <2>0. ~ crossed
    BY <1>3 DEF Next, Watch, watched
  <2>1. /\ TypeOK /\ ~ overlapped /\ \A c \in CampaignIds : Billed(c)
        /\ \/ NextDay
           \/ today' = today /\ \A c \in CampaignIds : RowMoves(c)
    BY <1>3, <2>0, AloneMoves DEF LiveInv, Inv
  <2>2. \A c \in CampaignIds : Billed(c)'
    BY <2>0, <2>1, RowsBilled, DayBilled
  <2>3. QED
    BY <1>1, <2>2 DEF LiveInv
<1>4. QED
    BY <1>2, <1>3

(* SpendIsLiveDays of MCLedgers: while budgets are not raised, every day a       *)
(* campaign was live is billed once, through every pause and resume, as long as  *)
(* no two requests overlap and midnight overtakes none.                          *)
THEOREM LiveDaysAreBilledOnce ==
    ASSUME CampaignsAssumption, "apply" \notin Calls
    PROVE  Spec => []SpendIsLiveDays
<1>1. Init => LiveInv
    BY InitInv, InitBilled DEF LiveInv
<1>2. LiveInv /\ [Next]_watched => LiveInv'
    BY StepBilled
<1>3. ASSUME LiveInv PROVE SpendIsLiveDays
  <2> SUFFICES ASSUME NEW c \in CampaignIds, ~ overlapped, ~ crossed, campaigns[c].status # "NONE", today <= campaigns[c].end
               PROVE  campaigns[c].accrued
                         + (IF campaigns[c].status = "ACTIVE"
                            THEN Cardinality(campaigns[c].anchor .. today) * campaigns[c].budget ELSE 0)
                      = Cardinality(live[c]) * campaigns[c].budget
    BY DEF SpendIsLiveDays
  <2>1. /\ campaigns[c].status \in Statuses /\ campaigns[c].anchor \in Int /\ today \in Int
        /\ campaigns[c].accrued \in Int
    BY <1>3 DEF LiveInv, Inv, TypeOK, Campaign
  <2>2. Billed(c)
    BY <1>3 DEF LiveInv
  <2>3. CASE campaigns[c].status = "ACTIVE"
    <3>1. Cardinality(campaigns[c].anchor .. today) = today - campaigns[c].anchor + 1
      BY <2>1, <2>2, <2>3, DaysOf DEF Billed
    <3>2. QED
      BY <2>2, <2>3, <3>1 DEF Billed, LiveDays
  <2>4. CASE campaigns[c].status # "ACTIVE"
    BY <2>1, <2>2, <2>4 DEF Billed, LiveDays, Statuses
  <2>5. QED
    BY <2>3, <2>4
<1>4. QED
    BY <1>1, <1>2, <1>3, PTL DEF Spec
=============================================================================
