-------------------------------- MODULE Hours --------------------------------
(***************************************************************************)
(* When a kitchen is open: its single window of old, the weekly sessions    *)
(* and the holidays that replaced it (operating-hours.service.ts), the       *)
(* profile (kitchen-profile.service.ts), and isKitchenOpenNow, which every   *)
(* order is held against (common/utils/kitchen.ts).                          *)
(***************************************************************************)
EXTENDS Handlers, Integers

CONSTANTS
    Week,          \* the days, 0 the first
    DayLength,     \* minutes of a day; the clock of the model has few
    Windows,       \* the sessions partners enter, as <<start, end>>
    DaySessions    \* sets of sessions a day is given; none for a day that is closed

VARIABLES
    legacy,        \* Kitchen.opensAt and closesAt
    week,          \* KitchenOperatingHours by day, "NONE" for no row
    holiday,       \* KitchenHolidayOverride by day, of one week
    accepting      \* Kitchen.isAcceptingOrders

hoursVars == <<legacy, week, holiday, accepting>>

Minutes == 0 .. DayLength - 1
NoRow == [given |-> FALSE, sessions |-> {}]
Row(sessions) == [given |-> TRUE, sessions |-> sessions]

HoursInit ==
    /\ legacy \in Windows
    /\ week = [d \in Week |-> NoRow]
    /\ holiday = [d \in Week |-> NoRow]
    /\ accepting = TRUE

(* "Handles kitchens that close past midnight", on the clock of one day. *)
IsWithinSession(w, m) ==
    IF w[2] > w[1] THEN m >= w[1] /\ m < w[2] ELSE m >= w[1] \/ m < w[2]

IsOpenInSessions(row, m) == \E w \in row.sessions : IsWithinSession(w, m)

(* "Three layers, most specific wins" *)
IsKitchenOpen(d, m) ==
    IF holiday[d].given THEN IsOpenInSessions(holiday[d], m)
    ELSE IF week[d].given THEN IsOpenInSessions(week[d], m)
    ELSE IsWithinSession(legacy, m)

UpdateDay(d, sessions) ==
    /\ Instant("updateDay")
    /\ week' = [week EXCEPT ![d] = Row(sessions)]
    /\ UNCHANGED <<legacy, holiday, accepting>>

UpsertHoliday(d, sessions) ==
    /\ Instant("holiday")
    /\ holiday' = [holiday EXCEPT ![d] = Row(sessions)]
    /\ UNCHANGED <<legacy, week, accepting>>

RemoveHoliday(d) ==
    /\ Instant("holiday")
    /\ holiday' = [holiday EXCEPT ![d] = NoRow]
    /\ UNCHANGED <<legacy, week, accepting>>

UpdateProfile(w) ==
    /\ Instant("profile")
    /\ legacy' = w
    /\ UNCHANGED <<week, holiday, accepting>>

SetAcceptingOrders ==
    /\ Instant("accepting")
    /\ accepting' = ~accepting
    /\ UNCHANGED <<legacy, week, holiday>>

(* getWeekly reads the kitchen and counts the rows; none, and it fills the week   *)
(* with the window it read.                                                       *)
GetWeekly(r) ==
    /\ \A d \in Week : ~week[d].given
    /\ Begin(r, "getWeekly", [at |-> "backfill", window |-> legacy])
    /\ UNCHANGED hoursVars

(* Faulty: rows that are there by now are written over. *)
BackfillOver(r) ==
    /\ At(r, "backfill")
    /\ week' = [d \in Week |-> Row({req[r].window})]
    /\ End(r)
    /\ UNCHANGED <<legacy, holiday, accepting>>

(* skipDuplicates leaves the days that are there by now. *)
Backfill(r) ==
    /\ At(r, "backfill")
    /\ week' = [d \in Week |-> IF week[d].given THEN week[d] ELSE Row({req[r].window})]
    /\ End(r)
    /\ UNCHANGED <<legacy, holiday, accepting>>

HoursStep(r) == GetWeekly(r) \/ Backfill(r)

HoursAlone ==
    \/ \E d \in Week, sessions \in DaySessions : UpdateDay(d, sessions) \/ UpsertHoliday(d, sessions)
    \/ \E d \in Week : RemoveHoliday(d)
    \/ \E w \in Windows : UpdateProfile(w)
    \/ SetAcceptingOrders

HoursNext ==
    \/ HoursAlone
    \/ \E r \in Requests : HoursStep(r) \/ (Abort(r) /\ UNCHANGED hoursVars)

HoursSpec == HandlersInit /\ HoursInit /\ [][HoursNext]_<<hoursVars, handlerVars>>

(* "A kitchen with zero rows sees no change at all": looking at the schedule, which *)
(* fills it in, never changes when a customer can order, on a day a partner has set  *)
(* meanwhile too; only a change of the window itself meanwhile is lost.              *)
BackfillKeepsHours ==
    [][legacy' = legacy /\ (\E r \in Requests : At(r, "backfill") /\ req[r].window = legacy /\ req'[r].at = "idle")
         => \A d \in Week, m \in Minutes : (IsKitchenOpen(d, m)') <=> IsKitchenOpen(d, m)]_hoursVars

=============================================================================
